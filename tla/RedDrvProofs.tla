------------------------------ MODULE RedDrvProofs ------------------------------
(***************************************************************************)
(* The redundant driver, for a line of any length and any number of        *)
(* attempts, losses and changes of the cable: what a full working counter  *)
(* says of a call that needs one attempt, and what a call brings back      *)
(* during which nothing changes.                                           *)
(*                                                                         *)
(* The inductive invariant has three parts.  Frames of earlier calls are   *)
(* of the last call, or of the one before it and then ahead in a socket of *)
(* all that belongs to this call, so that with three indices none of them  *)
(* is taken for an answer.  While the first attempt lasts, what is         *)
(* underway with the index of the call has been through the slaves before  *)
(* one cut and beyond another, each of which executed it, and the dummy is *)
(* in one place, so that it is not taken for the frame sent again.  And    *)
(* while nothing changes, the request and the dummy are each on the wire,  *)
(* in the one socket they come back to, or received.                       *)
(***************************************************************************)
EXTENDS RedDrv, FiniteSetTheorems, SequenceTheorems, TLAPS

-----------------------------------------------------------------------------
(* The types.                                                              *)
Idx   == 0..(NIdx - 1)
Frame == [idx : Idx, from : Card, sa : Card, dummy : BOOLEAN, by : Seq(Slave)]

TypeOK ==
  /\ cut \in Cable \cup {Whole}
  /\ wire \subseteq Frame /\ sock \in [Card -> Seq(Frame)]
  /\ pc \in {"idle", "send", "wait", "decide", "resent", "confirm"}
  /\ idx \in Idx /\ try \in Nat /\ txbuf \in Seq(Slave)
  /\ rxbuf \in [Card -> Frame] /\ rxsa \in [Card -> Card \cup {"none"}]
  /\ wkc \in [Card -> Int]
  /\ cuts \in Nat /\ losses \in Nat
  /\ done \in [Slave -> Nat] /\ steady \in BOOLEAN

-----------------------------------------------------------------------------
(* What earlier calls left behind.  On the wire it is of the last call at  *)
(* most.  In the sockets there may be frames of the one before that, until *)
(* the first attempt is over: they are ahead of the frames of this call.   *)
Prev  == IF idx = 0 THEN NIdx - 1 ELSE idx - 1
Begun == (pc = "send" /\ try = 0) \/ (pc = "wait" /\ try = 1)
Got(c) == wkc[c] > NOFRAME

Only(q, I)     == \A k \in DOMAIN q : q[k].idx \in I
Ahead(q, i, p) ==
  \A k, l \in DOMAIN q : k < l /\ q[l].idx \notin {i, p} => q[k].idx # i

NoneOf(q, i) == \A k \in DOMAIN q : q[k].idx # i
Sole(q, i, g) ==
  \E k \in DOMAIN q : q[k] = g /\ \A l \in DOMAIN q : q[l].idx = i => l = k

LeftOnWire == \A f \in wire : f.idx \in {idx, Prev}
LeftIn(c) ==
  /\ Begun => Ahead(sock[c], idx, Prev)
  /\ ~Begun \/ (pc = "wait" /\ Got(c)) => Only(sock[c], {idx, Prev})

LeftOK == LeftOnWire /\ \A c \in Card : LeftIn(c)

-----------------------------------------------------------------------------
(* The first attempt of a call, until the next call: what is underway with *)
(* its index, what has arrived, and what has been received.                *)
FirstAttempt == try = IF pc = "send" THEN 0 ELSE 1

Own(f)    == f.idx = idx
Request == [idx |-> idx, from |-> "prim", sa |-> "prim", dummy |-> FALSE, by |-> <<>>]
Dummy   == [idx |-> idx, from |-> "sec", sa |-> "sec", dummy |-> TRUE, by |-> <<>>]

Upto(n)   == [i \in 1..n |-> i]
Beyond(n) == [i \in 1..(NSlave - n) |-> n + i]

(* Every slave the frame went through executed the request. *)
Executors(f, d) == \A i \in 1..Len(f.by) : d[f.by[i]] >= 1

Outward(f) == \E n \in 0..NSlave : f.by = Upto(n)
Parts(f)   == \E n, m \in 0..NSlave : f.by = Upto(n) \o Beyond(m)

Underway(f) ==
  \/ f = Request
  \/ f = Dummy
  \/ /\ f.from = "sec" /\ f.sa = "prim" /\ ~f.dummy
     /\ pc \in {"resent", "confirm", "idle"}
     /\ Executors(f, done) /\ Outward(f)

(* Frames of the call at card c, d being what the slaves executed; while   *)
(* both cards are listened to they have been through one path.             *)
Listening == pc \in {"wait", "decide"}
Arrived(f, c, d, listening) ==
  /\ f.dummy <=> f.sa = "sec"
  /\ f.dummy /\ c = "prim" => f.by = <<>>
  /\ ~f.dummy => /\ Executors(f, d) /\ Parts(f)
                 /\ listening => Outward(f)
AllArrived(q, c, i, d, listening) ==
  \A k \in DOMAIN q : q[k].idx = i => Arrived(q[k], c, d, listening)

(* The dummy of the attempt is in one place. *)
NoDummy(q, i) == \A k \in DOMAIN q : ~(q[k].idx = i /\ q[k].dummy)
OneDummy(q, i) ==
  \A k, l \in DOMAIN q :
    (q[k].idx = i /\ q[k].dummy) /\ (q[l].idx = i /\ q[l].dummy) => k = l
DummyGot(c) == Got(c) /\ rxsa[c] = "sec"

OneDummyAtAll ==
  /\ \A c \in Card :
       /\ DummyGot(c) => /\ NoDummy(sock["prim"], idx) /\ NoDummy(sock["sec"], idx)
                         /\ Dummy \notin wire
       /\ Dummy \in wire => NoDummy(sock[c], idx)
       /\ OneDummy(sock[c], idx)
  /\ NoDummy(sock["prim"], idx) \/ NoDummy(sock["sec"], idx)

FirstGot(c) ==
  IF Got(c) THEN /\ Own(rxbuf[c]) /\ Arrived(rxbuf[c], c, done, Listening)
                 /\ rxsa[c] = rxbuf[c].sa /\ wkc[c] = Len(rxbuf[c].by)
  ELSE rxsa[c] = "none"
FirstSent ==
  /\ \A f \in wire : Own(f) => pc # "send" /\ Underway(f)
  /\ \A c \in Card : /\ AllArrived(sock[c], c, idx, done, Listening)
                     /\ pc = "send" => NoneOf(sock[c], idx)
FirstResent ==
  /\ Dummy \notin wire /\ NoDummy(sock["sec"], idx)
  /\ Got("sec") => /\ ~rxbuf["sec"].dummy /\ Arrived(rxbuf["sec"], "sec", done, FALSE)
                   /\ wkc["sec"] = Len(rxbuf["sec"].by)
FirstResult ==
  Got("prim") => /\ Arrived(rxbuf["prim"], "prim", done, FALSE)
                 /\ wkc["prim"] = Len(rxbuf["prim"].by)

FirstCall ==
  /\ pc \in {"send", "wait", "decide"} => txbuf = <<>>
  /\ FirstSent
  /\ Listening => OneDummyAtAll /\ \A c \in Card : FirstGot(c)
  /\ pc = "resent" => FirstResent
  /\ pc \in {"resent", "confirm", "idle"} => FirstResult

-----------------------------------------------------------------------------
(* A call during which nothing changes.                                    *)
Reached == IF cut = Whole THEN NSlave ELSE cut
DoneUpto(n) == done = [s \in Slave |-> IF s <= n THEN 1 ELSE 0]

ByRequest == [Request EXCEPT !.by = Upto(Reached)]
ByDummy   == [Dummy EXCEPT !.by = IF cut = Whole THEN <<>> ELSE Beyond(cut)]
Again     == [idx |-> idx, from |-> "sec", sa |-> "prim", dummy |-> FALSE, by |-> Upto(cut)]
ByAgain   == [Again EXCEPT !.by = Everyone]

(* The frame f arrives as g at card c. *)
Flight(f, g, c) ==
  \/ f \in wire /\ NoneOf(sock[c], idx) /\ ~Got(c)
  \/ f \notin wire /\ Sole(sock[c], idx, g) /\ ~Got(c)
  \/ /\ f \notin wire /\ NoneOf(sock[c], idx) /\ Got(c)
     /\ rxbuf[c] = g /\ rxsa[c] = g.sa /\ wkc[c] = Len(g.by)
Silent(c) == NoneOf(sock[c], idx) /\ ~Got(c)
NoOwn == \A f \in wire : ~Own(f)

Outbound ==
  /\ \A f \in wire : Own(f) => f \in {Request, Dummy}
  /\ \A c \in Card : ~Got(c) => rxsa[c] = "none"
  /\ DoneUpto(IF Request \in wire THEN 0 ELSE Reached)
  /\ IF cut = Whole
     THEN Flight(Request, ByRequest, "sec") /\ Flight(Dummy, ByDummy, "prim")
     ELSE /\ IF cut = 0 THEN Silent("prim") ELSE Flight(Request, ByRequest, "prim")
          /\ IF cut = NSlave THEN Silent("sec") ELSE Flight(Dummy, ByDummy, "sec")

Resending ==
  /\ cut # Whole /\ cut # NSlave
  /\ \A f \in wire : Own(f) => f = Again
  /\ Flight(Again, ByAgain, "sec")
  /\ DoneUpto(IF Again \in wire THEN cut ELSE NSlave)

Finished ==
  /\ NoOwn /\ DoneUpto(NSlave)
  /\ rxbuf["prim"].by = Everyone /\ wkc["prim"] = NSlave

SteadyCall ==
  /\ FirstAttempt
  /\ pc \in {"send", "wait", "decide"} => txbuf = <<>>
  /\ pc = "send" => NoOwn /\ DoneUpto(0) /\ \A c \in Card : NoneOf(sock[c], idx)
  /\ pc \in {"wait", "decide"} => Outbound
  /\ pc = "decide" => NoOwn /\ \A c \in Card : Got(c) \/ NoneOf(sock[c], idx)
  /\ pc = "resent" => Resending
  /\ pc \in {"confirm", "idle"} => Finished

IInv ==
  /\ TypeOK /\ LeftOK
  /\ pc \notin {"idle", "send"} => try > 0
  /\ FirstAttempt => FirstCall
  /\ steady => SteadyCall
-----------------------------------------------------------------------------
(* Queues: what a step does to one, and what then holds of it.             *)
LEMMA Tails ==
  ASSUME NEW S, NEW q \in Seq(S), q # <<>>
  PROVE  /\ Tail(q) \in Seq(S) /\ Head(q) = q[1] /\ 1 \in DOMAIN q /\ Head(q) \in S
         /\ \A k \in DOMAIN Tail(q) : k + 1 \in DOMAIN q /\ Tail(q)[k] = q[k + 1] /\ k > 0
<1>1. /\ Tail(q) \in Seq(S) /\ Len(Tail(q)) = Len(q) - 1 /\ Head(q) \in S
      /\ \A i \in 1..Len(Tail(q)) : Tail(q)[i] = q[i + 1]
  BY HeadTailProperties
<1>2. Len(q) \in Nat \ {0} /\ DOMAIN q = 1..Len(q)
  BY EmptySeq, LenProperties
<1>3. DOMAIN Tail(q) = 1..Len(Tail(q))
  BY <1>1, LenProperties
<1>4. Head(q) = q[1]
  OBVIOUS
<1>5. QED
  BY <1>1, <1>2, <1>3, <1>4

LEMMA Appended ==
  ASSUME NEW S, NEW q \in Seq(S), NEW g \in S
  PROVE  /\ Append(q, g) \in Seq(S)
         /\ \E n \in Nat :
              /\ DOMAIN q = 1..n /\ DOMAIN Append(q, g) = 1..(n + 1)
              /\ \A k \in 1..n : Append(q, g)[k] = q[k]
              /\ Append(q, g)[n + 1] = g
<1>1. /\ Append(q, g) \in Seq(S) /\ Len(Append(q, g)) = Len(q) + 1
      /\ \A i \in 1..Len(q) : Append(q, g)[i] = q[i]
      /\ Append(q, g)[Len(q) + 1] = g
  BY AppendProperties
<1>2. Len(q) \in Nat /\ DOMAIN q = 1..Len(q)
  BY LenProperties
<1>3. DOMAIN Append(q, g) = 1..(Len(q) + 1)
  BY <1>1, LenProperties
<1>4. QED
  BY <1>1, <1>2, <1>3

LEMMA NoneIn ==
  ASSUME NEW S, NEW i, NEW q \in Seq(S), NoneOf(q, i)
  PROVE  /\ q # <<>> => Head(q).idx # i /\ NoneOf(Tail(q), i)
         /\ \A g \in S : g.idx # i => NoneOf(Append(q, g), i)
         /\ \A g \in S : g.idx = i => Sole(Append(q, g), i, g)
<1>1. q # <<>> => Head(q).idx # i /\ NoneOf(Tail(q), i)
  BY Tails DEF NoneOf
<1>2. ASSUME NEW g \in S
      PROVE  /\ g.idx # i => NoneOf(Append(q, g), i)
             /\ g.idx = i => Sole(Append(q, g), i, g)
  <2>1. PICK n \in Nat :
          /\ DOMAIN q = 1..n /\ DOMAIN Append(q, g) = 1..(n + 1)
          /\ \A k \in 1..n : Append(q, g)[k] = q[k]
          /\ Append(q, g)[n + 1] = g
    BY Appended
  <2>2. g.idx # i => NoneOf(Append(q, g), i)
    BY <2>1 DEF NoneOf
  <2>3. g.idx = i => Sole(Append(q, g), i, g)
    BY <2>1 DEF NoneOf, Sole
  <2>4. QED
    BY <2>2, <2>3
<1>3. QED
  BY <1>1, <1>2

LEMMA SoleIn ==
  ASSUME NEW S, NEW i, NEW q \in Seq(S), NEW g \in S, g.idx = i, Sole(q, i, g)
  PROVE  /\ q # <<>>
         /\ Head(q).idx # i => Sole(Tail(q), i, g)
         /\ Head(q).idx = i => Head(q) = g /\ NoneOf(Tail(q), i)
         /\ \A h \in S : h.idx # i => Sole(Append(q, h), i, g)
<1>1. PICK m \in DOMAIN q : q[m] = g /\ \A l \in DOMAIN q : q[l].idx = i => l = m
  BY DEF Sole
<1>2. q # <<>>
  BY <1>1
<1>3. /\ Head(q) = q[1] /\ 1 \in DOMAIN q
      /\ \A k \in DOMAIN Tail(q) : k + 1 \in DOMAIN q /\ Tail(q)[k] = q[k + 1] /\ k > 0
  BY <1>2, Tails
<1>4. Len(q) \in Nat /\ DOMAIN q = 1..Len(q) /\ DOMAIN Tail(q) = 1..(Len(q) - 1)
  BY <1>2, LenProperties, HeadTailProperties
<1>5. ASSUME Head(q).idx # i PROVE Sole(Tail(q), i, g)
  <2>1. m - 1 \in DOMAIN Tail(q) /\ Tail(q)[m - 1] = g
    BY <1>1, <1>3, <1>4, <1>5
  <2>2. \A l \in DOMAIN Tail(q) : Tail(q)[l].idx = i => l = m - 1
    BY <1>1, <1>3, <1>4
  <2>3. QED
    BY <2>1, <2>2 DEF Sole
<1>6. ASSUME Head(q).idx = i PROVE Head(q) = g /\ NoneOf(Tail(q), i)
  BY <1>1, <1>3, <1>4, <1>6 DEF NoneOf
<1>7. ASSUME NEW h \in S, h.idx # i PROVE Sole(Append(q, h), i, g)
  <2>1. PICK n \in Nat :
          /\ DOMAIN q = 1..n /\ DOMAIN Append(q, h) = 1..(n + 1)
          /\ \A k \in 1..n : Append(q, h)[k] = q[k]
          /\ Append(q, h)[n + 1] = h
    BY Appended
  <2>2. QED
    BY <1>1, <1>7, <2>1 DEF Sole
<1>8. QED
  BY <1>2, <1>5, <1>6, <1>7

(* What is stale stays ahead, and is gone once an own frame is read.       *)
LEMMA AheadIn ==
  ASSUME NEW S, NEW i, NEW p, NEW q \in Seq(S)
  PROVE  /\ q # <<>> /\ Ahead(q, i, p) => Ahead(Tail(q), i, p)
         /\ q # <<>> /\ Ahead(q, i, p) /\ Head(q).idx = i => Only(Tail(q), {i, p})
         /\ q # <<>> /\ Only(q, {i, p}) => Only(Tail(q), {i, p})
         /\ \A g \in S : g.idx \in {i, p} =>
              /\ Ahead(q, i, p) => Ahead(Append(q, g), i, p)
              /\ Only(q, {i, p}) => Only(Append(q, g), {i, p})
<1>1. ASSUME q # <<>>, Ahead(q, i, p)
      PROVE  /\ Ahead(Tail(q), i, p)
             /\ Head(q).idx = i => Only(Tail(q), {i, p})
  <2>1. /\ Head(q) = q[1] /\ 1 \in DOMAIN q /\ DOMAIN q \subseteq Nat
        /\ DOMAIN Tail(q) \subseteq Nat
        /\ \A k \in DOMAIN Tail(q) : k + 1 \in DOMAIN q /\ Tail(q)[k] = q[k + 1] /\ k > 0
    BY <1>1, Tails, LenProperties
  <2>2. Ahead(Tail(q), i, p)
    BY <1>1, <2>1 DEF Ahead
  <2>3. Head(q).idx = i => Only(Tail(q), {i, p})
    BY <1>1, <2>1 DEF Ahead, Only
  <2>4. QED
    BY <2>2, <2>3
<1>2. q # <<>> /\ Only(q, {i, p}) => Only(Tail(q), {i, p})
  BY Tails DEF Only
<1>3. ASSUME NEW g \in S, g.idx \in {i, p}
      PROVE  /\ Ahead(q, i, p) => Ahead(Append(q, g), i, p)
             /\ Only(q, {i, p}) => Only(Append(q, g), {i, p})
  <2>1. PICK n \in Nat :
          /\ DOMAIN q = 1..n /\ DOMAIN Append(q, g) = 1..(n + 1)
          /\ \A k \in 1..n : Append(q, g)[k] = q[k]
          /\ Append(q, g)[n + 1] = g
    BY Appended
  <2>2. Ahead(q, i, p) => Ahead(Append(q, g), i, p)
    BY <1>3, <2>1 DEF Ahead
  <2>3. Only(q, {i, p}) => Only(Append(q, g), {i, p})
    BY <1>3, <2>1 DEF Only
  <2>4. QED
    BY <2>2, <2>3
<1>4. QED
  BY <1>1, <1>2, <1>3

(* A dummy that is read or arrives.                                        *)
LEMMA DummyIn ==
  ASSUME NEW S, NEW i, NEW q \in Seq(S)
  PROVE  /\ q # <<>> /\ NoDummy(q, i) => NoDummy(Tail(q), i)
         /\ q # <<>> /\ NoDummy(q, i) => ~(Head(q).idx = i /\ Head(q).dummy)
         /\ q # <<>> /\ OneDummy(q, i) => OneDummy(Tail(q), i)
         /\ q # <<>> /\ OneDummy(q, i) /\ Head(q).idx = i /\ Head(q).dummy =>
              NoDummy(Tail(q), i)
         /\ \A g \in S :
              /\ NoDummy(q, i) => OneDummy(Append(q, g), i)
              /\ NoDummy(q, i) /\ ~(g.idx = i /\ g.dummy) => NoDummy(Append(q, g), i)
              /\ OneDummy(q, i) /\ ~(g.idx = i /\ g.dummy) => OneDummy(Append(q, g), i)
<1>1. ASSUME q # <<>>
      PROVE  /\ NoDummy(q, i) => NoDummy(Tail(q), i)
             /\ NoDummy(q, i) => ~(Head(q).idx = i /\ Head(q).dummy)
             /\ OneDummy(q, i) => OneDummy(Tail(q), i)
             /\ OneDummy(q, i) /\ Head(q).idx = i /\ Head(q).dummy =>
                  NoDummy(Tail(q), i)
  <2>1. /\ Head(q) = q[1] /\ 1 \in DOMAIN q /\ DOMAIN q \subseteq Nat
        /\ DOMAIN Tail(q) \subseteq Nat
        /\ \A k \in DOMAIN Tail(q) : k + 1 \in DOMAIN q /\ Tail(q)[k] = q[k + 1] /\ k > 0
    BY <1>1, Tails, LenProperties
  <2>2. NoDummy(q, i) => NoDummy(Tail(q), i) /\ ~(Head(q).idx = i /\ Head(q).dummy)
    BY <2>1 DEF NoDummy
  <2>3. OneDummy(q, i) => OneDummy(Tail(q), i)
    BY <2>1 DEF OneDummy
  <2>4. OneDummy(q, i) /\ Head(q).idx = i /\ Head(q).dummy => NoDummy(Tail(q), i)
    BY <2>1 DEF OneDummy, NoDummy
  <2>5. QED
    BY <2>2, <2>3, <2>4
<1>2. ASSUME NEW g \in S
      PROVE  /\ NoDummy(q, i) => OneDummy(Append(q, g), i)
             /\ NoDummy(q, i) /\ ~(g.idx = i /\ g.dummy) => NoDummy(Append(q, g), i)
             /\ OneDummy(q, i) /\ ~(g.idx = i /\ g.dummy) => OneDummy(Append(q, g), i)
  <2>1. PICK n \in Nat :
          /\ DOMAIN q = 1..n /\ DOMAIN Append(q, g) = 1..(n + 1)
          /\ \A k \in 1..n : Append(q, g)[k] = q[k]
          /\ Append(q, g)[n + 1] = g
    BY Appended
  <2>2. QED
    BY <2>1 DEF NoDummy, OneDummy
<1>3. QED
  BY <1>1, <1>2

-----------------------------------------------------------------------------
(* Paths.                                                                  *)
LEMMA Uptos ==
  ASSUME NEW n \in 0..NSlave
  PROVE  /\ Upto(n) \in Seq(Slave) /\ Len(Upto(n)) = n
         /\ \A k \in 1..n : Upto(n)[k] = k
<1>1. n \in Nat /\ n <= NSlave /\ 1..n \subseteq 1..NSlave
  BY RedConstants
<1>2. Upto(n) \in [1..n -> Slave]
  BY <1>1 DEF Upto, Slave
<1>3. Upto(n) \in Seq(Slave)
  BY <1>1, <1>2, SeqDef
<1>4. 1..Len(Upto(n)) = 1..n /\ Len(Upto(n)) \in Nat
  BY <1>2, <1>3, LenProperties
<1>5. Len(Upto(n)) = n
  BY <1>1, <1>4
<1>6. \A k \in 1..n : Upto(n)[k] = k
  BY DEF Upto
<1>7. QED
  BY <1>3, <1>5, <1>6

LEMMA Beyonds ==
  ASSUME NEW n \in 0..NSlave
  PROVE  /\ Beyond(n) \in Seq(Slave) /\ Len(Beyond(n)) = NSlave - n
         /\ \A k \in 1..(NSlave - n) : Beyond(n)[k] = n + k
<1>1. n \in Nat /\ n <= NSlave /\ NSlave - n \in Nat
  BY RedConstants
<1>2. Beyond(n) \in [1..(NSlave - n) -> Slave]
  <2>1. \A k \in 1..(NSlave - n) : n + k \in Slave
    BY <1>1, RedConstants DEF Slave
  <2>2. QED
    BY <2>1 DEF Beyond
<1>3. Beyond(n) \in Seq(Slave)
  BY <1>1, <1>2, SeqDef
<1>4. 1..Len(Beyond(n)) = 1..(NSlave - n) /\ Len(Beyond(n)) \in Nat
  BY <1>2, <1>3, LenProperties
<1>5. Len(Beyond(n)) = NSlave - n
  BY <1>1, <1>4
<1>6. \A k \in 1..(NSlave - n) : Beyond(n)[k] = n + k
  BY DEF Beyond
<1>7. QED
  BY <1>3, <1>5, <1>6

(* The whole line, in one frame or in two parts.                           *)
LEMMA Lines ==
  /\ Everyone = Upto(NSlave) /\ Everyone \in Seq(Slave) /\ Len(Everyone) = NSlave
  /\ \A s \in Slave : s \in 1..Len(Everyone) /\ Everyone[s] = s
  /\ Upto(0) = <<>> /\ Beyond(NSlave) = <<>>
  /\ \A n \in 0..NSlave : Upto(n) \o Beyond(n) = Everyone
<1>0. NSlave \in 0..NSlave /\ 0 \in 0..NSlave
  BY RedConstants
<1>1. Everyone = Upto(NSlave)
  BY DEF Everyone, Upto, Slave
<1>2. Everyone \in Seq(Slave) /\ Len(Everyone) = NSlave /\ \A s \in Slave : Everyone[s] = s
  BY <1>0, <1>1, Uptos DEF Everyone
<1>3. Upto(0) = <<>>
  <2>1. Upto(0) \in Seq(Slave) /\ Len(Upto(0)) = 0
    BY <1>0, Uptos
  <2>2. QED
    BY <2>1, EmptySeq
<1>4. Beyond(NSlave) = <<>>
  <2>1. Beyond(NSlave) \in Seq(Slave) /\ Len(Beyond(NSlave)) = NSlave - NSlave
    BY <1>0, Beyonds
  <2>2. NSlave - NSlave = 0
    BY RedConstants
  <2>3. QED
    BY <2>1, <2>2, EmptySeq
<1>5. ASSUME NEW n \in 0..NSlave PROVE Upto(n) \o Beyond(n) = Everyone
  <2>1. /\ Upto(n) \in Seq(Slave) /\ Len(Upto(n)) = n
        /\ \A k \in 1..n : Upto(n)[k] = k
    BY Uptos
  <2>2. /\ Beyond(n) \in Seq(Slave) /\ Len(Beyond(n)) = NSlave - n
        /\ \A k \in 1..(NSlave - n) : Beyond(n)[k] = n + k
    BY Beyonds
  <2> DEFINE u == Upto(n) \o Beyond(n)
  <2>8. /\ u \in Seq(Slave) /\ Len(u) = Len(Upto(n)) + Len(Beyond(n))
        /\ \A i \in 1..(Len(Upto(n)) + Len(Beyond(n))) :
             u[i] = IF i <= Len(Upto(n)) THEN Upto(n)[i] ELSE Beyond(n)[i - Len(Upto(n))]
    BY <2>1, <2>2, ConcatProperties
  <2> HIDE DEF u
  <2>3. /\ u \in Seq(Slave) /\ Len(u) = n + (NSlave - n)
        /\ \A i \in 1..(n + (NSlave - n)) :
             u[i] = IF i <= n THEN Upto(n)[i] ELSE Beyond(n)[i - n]
    BY <2>8, <2>1, <2>2
  <2>4. Len(u) = NSlave
    BY <2>3, RedConstants
  <2>5. ASSUME NEW i \in 1..NSlave PROVE u[i] = i
    <3>1. i \in 1..(n + (NSlave - n)) /\ n \in Nat /\ i \in Nat
      BY RedConstants
    <3>2. CASE i <= n
      BY <2>1, <2>3, <3>1, <3>2
    <3>3. CASE i > n
      <4>1. i - n \in 1..(NSlave - n) /\ n + (i - n) = i
        BY <3>1, <3>3, RedConstants
      <4>2. u[i] = Beyond(n)[i - n]
        BY <2>3, <3>1, <3>3
      <4>3. QED
        BY <2>2, <4>1, <4>2
    <3>4. QED
      BY <3>1, <3>2, <3>3
  <2>6. \A i \in 1..Len(u) : u[i] = Everyone[i]
    BY <1>2, <2>4, <2>5 DEF Slave
  <2>7. u = Everyone
    BY <1>2, <2>3, <2>4, <2>6, SeqEqual
  <2>9. QED
    BY <2>7 DEF u
<1>6. QED
  BY <1>1, <1>2, <1>3, <1>4, <1>5 DEF Slave

(* A frame from the primary card goes through the slaves before the cut,   *)
(* one from the secondary card through those beyond it, or through none.   *)
LEMMA Paths ==
  ASSUME TypeOK, NEW f
  PROVE  /\ Path(f) \in Seq(Slave) /\ Reached \in 0..NSlave
         /\ f.from = "prim" => Path(f) = Upto(Reached)
         /\ f.from # "prim" /\ cut = Whole => Path(f) = <<>>
         /\ f.from # "prim" /\ cut # Whole => Path(f) = Beyond(cut) /\ cut \in 0..NSlave
<1>1. Reached \in 0..NSlave /\ (cut # Whole => cut \in 0..NSlave)
  BY RedConstants DEF TypeOK, Reached, Cable
<1>2. f.from = "prim" => Path(f) = Upto(Reached)
  BY DEF Path, Upto, Reached
<1>3. f.from # "prim" /\ cut = Whole => Path(f) = <<>>
  BY DEF Path
<1>4. f.from # "prim" /\ cut # Whole => Path(f) = Beyond(cut)
  BY DEF Path, Beyond
<1>5. Path(f) \in Seq(Slave)
  BY <1>1, <1>2, <1>3, <1>4, Uptos, Beyonds, EmptySeq
<1>6. QED
  BY <1>1, <1>2, <1>3, <1>4, <1>5

Count(p, s) == Cardinality({i \in DOMAIN p : p[i] = s})

LEMMA Counted ==
  ASSUME NEW p \in Seq(Slave), NEW s
  PROVE  Count(p, s) \in Nat
<1>1. DOMAIN p = 1..Len(p) /\ Len(p) \in Nat
  BY LenProperties
<1>2. IsFiniteSet(1..Len(p))
  BY <1>1, FS_Interval
<1>3. {i \in DOMAIN p : p[i] = s} \in SUBSET (1..Len(p))
  BY <1>1
<1>4. QED
  BY <1>2, <1>3, FS_Subset, FS_CardinalityType DEF Count

LEMMA Counts ==
  ASSUME NEW n \in 0..NSlave, NEW s \in Slave
  PROVE  /\ Count(Upto(n), s) = IF s <= n THEN 1 ELSE 0
         /\ Count(Beyond(n), s) = IF s <= n THEN 0 ELSE 1
         /\ Count(<<>>, s) = 0
<1>0. n \in Nat /\ s \in Nat /\ s >= 1 /\ s <= NSlave /\ NSlave \in Nat
  BY RedConstants DEF Slave
<1>1. Count(Upto(n), s) = IF s <= n THEN 1 ELSE 0
  <2>1. DOMAIN Upto(n) = 1..n /\ \A i \in 1..n : Upto(n)[i] = i
    BY DEF Upto
  <2>2. CASE s <= n
    <3>1. {i \in DOMAIN Upto(n) : Upto(n)[i] = s} = {s}
      BY <1>0, <2>1, <2>2
    <3>2. QED
      BY <2>2, <3>1, FS_Singleton DEF Count
  <2>3. CASE ~(s <= n)
    <3>1. {i \in DOMAIN Upto(n) : Upto(n)[i] = s} = {}
      BY <1>0, <2>1, <2>3
    <3>2. QED
      BY <2>3, <3>1, FS_EmptySet DEF Count
  <2>4. QED
    BY <2>2, <2>3
<1>2. Count(Beyond(n), s) = IF s <= n THEN 0 ELSE 1
  <2>1. DOMAIN Beyond(n) = 1..(NSlave - n) /\ \A i \in 1..(NSlave - n) : Beyond(n)[i] = n + i
    BY DEF Beyond
  <2>2. CASE s <= n
    <3>1. {i \in DOMAIN Beyond(n) : Beyond(n)[i] = s} = {}
      BY <1>0, <2>1, <2>2
    <3>2. QED
      BY <2>2, <3>1, FS_EmptySet DEF Count
  <2>3. CASE ~(s <= n)
    <3>1. {i \in DOMAIN Beyond(n) : Beyond(n)[i] = s} = {s - n}
      <4>1. s - n \in 1..(NSlave - n) /\ n + (s - n) = s
        BY <1>0, <2>3
      <4>2. \A i \in 1..(NSlave - n) : n + i = s => i = s - n
        BY <1>0
      <4>3. QED
        BY <2>1, <4>1, <4>2
    <3>2. QED
      BY <2>3, <3>1, FS_Singleton DEF Count
  <2>4. QED
    BY <2>2, <2>3
<1>3. Count(<<>>, s) = 0
  BY FS_EmptySet DEF Count
<1>4. QED
  BY <1>1, <1>2, <1>3

LEMMA Executions ==
  ASSUME TypeOK, NEW f, NEW p \in Seq(Slave), Executed(f, p)
  PROVE  /\ done' \in [Slave -> Nat] /\ \A s \in Slave : done'[s] >= done[s]
         /\ f.dummy \/ ~Own(f) => done' = done
         /\ ~f.dummy /\ Own(f) => \A s \in Slave : done'[s] = done[s] + Count(p, s)
<1>1. done \in [Slave -> Nat]
  BY DEF TypeOK
<1>2. f.dummy \/ ~Own(f) => done' = done
  BY DEF Executed, Own
<1>3. ASSUME ~f.dummy, Own(f)
      PROVE  /\ done' = [s \in Slave |-> done[s] + Count(p, s)]
  BY <1>3 DEF Executed, Own, Count
<1>4. \A s \in Slave : Count(p, s) \in Nat
  BY Counted
<1>5. QED
  <2>1. CASE f.dummy \/ ~Own(f)
    BY <1>1, <1>2, <2>1
  <2>2. CASE ~f.dummy /\ Own(f)
    <3>1. done' = [s \in Slave |-> done[s] + Count(p, s)]
      BY <1>3, <2>2
    <3>2. \A s \in Slave : done'[s] = done[s] + Count(p, s) /\ done[s] \in Nat /\ Count(p, s) \in Nat
      BY <1>1, <1>4, <3>1
    <3>3. \A s \in Slave : done'[s] \in Nat /\ done'[s] >= done[s]
      BY <3>2
    <3>4. done' \in [Slave -> Nat]
      BY <3>1, <3>2
    <3>5. QED
      BY <2>2, <3>2, <3>3, <3>4
  <2>3. QED
    BY <2>1, <2>2

(* How far a frame gets before it is lost.                                 *)
LEMMA Partial ==
  ASSUME NEW p \in Seq(Slave), NEW n \in 0..Len(p)
  PROVE  SubSeq(p, 1, n) \in Seq(Slave)
<1>1. \A i \in 1..n : p[i] \in Slave
  BY LenProperties
<1>2. 1 \in Int /\ n \in Int
  BY LenProperties
<1>3. QED
  BY <1>1, <1>2, SubSeqProperties

(* Indices go round.                                                       *)
LEMMA NextIndex ==
  ASSUME TypeOK
  PROVE  /\ (idx + 1) % NIdx \in Idx /\ Prev \in Idx /\ Prev # idx
         /\ (idx + 1) % NIdx \notin {idx, Prev}
         /\ idx = IF (idx + 1) % NIdx = 0 THEN NIdx - 1 ELSE ((idx + 1) % NIdx) - 1
<1>1. NIdx \in Nat /\ NIdx > 2 /\ idx \in Nat /\ idx < NIdx
  BY RedConstants DEF TypeOK, Idx
<1>2. (idx + 1) % NIdx = IF idx = NIdx - 1 THEN 0 ELSE idx + 1
  <2>1. CASE idx = NIdx - 1
    <3>1. idx + 1 = NIdx /\ NIdx % NIdx = 0
      BY <1>1, <2>1
    <3>2. QED
      BY <2>1, <3>1
  <2>2. CASE idx # NIdx - 1
    <3>1. idx + 1 \in 0..(NIdx - 1)
      BY <1>1, <2>2
    <3>2. (idx + 1) % NIdx = idx + 1
      BY <1>1, <3>1
    <3>3. QED
      BY <2>2, <3>2
  <2>3. QED
    BY <2>1, <2>2
<1>3. QED
  BY <1>1, <1>2 DEF Prev, Idx

-----------------------------------------------------------------------------
(* Types.                                                                  *)
LEMMA InitTypes == Init => TypeOK
<1>1. NSlave \in Nat /\ NIdx \in Nat /\ NIdx > 2
  BY RedConstants
<1>2. NoFrame \in Frame
  BY <1>1, EmptySeq DEF NoFrame, Frame, Idx, Card
<1>3. <<>> \in Seq(Frame) /\ <<>> \in Seq(Slave)
  BY EmptySeq
<1>4. ASSUME Init PROVE TypeOK
  <2>1. cut \in Cable \cup {Whole} /\ wire \subseteq Frame /\ idx \in Idx
    BY <1>1, <1>4 DEF Init, Idx
  <2>2. sock \in [Card -> Seq(Frame)] /\ rxbuf \in [Card -> Frame]
    BY <1>2, <1>3, <1>4 DEF Init
  <2>3. rxsa \in [Card -> Card \cup {"none"}] /\ wkc \in [Card -> Int]
    BY <1>4 DEF Init, NOFRAME
  <2>4. done \in [Slave -> Nat] /\ txbuf \in Seq(Slave)
    BY <1>3, <1>4 DEF Init
  <2>5. QED
    BY <1>4, <2>1, <2>2, <2>3, <2>4 DEF Init, TypeOK
<1>5. QED
  BY <1>4

(* What arrives is a frame with its path appended.                         *)
Passed(f) == [f EXCEPT !.by = @ \o Path(f)]

LEMMA PassedIs ==
  ASSUME TypeOK, NEW f \in Frame
  PROVE  /\ Passed(f) \in Frame /\ Passed(f).by = f.by \o Path(f)
         /\ Passed(f).idx = f.idx /\ Passed(f).from = f.from /\ Passed(f).sa = f.sa
         /\ Passed(f).dummy = f.dummy
<1>1. Path(f) \in Seq(Slave)
  BY Paths
<1>2. f.by \in Seq(Slave)
  BY DEF Frame
<1>3. f.by \o Path(f) \in Seq(Slave)
  BY <1>1, <1>2, ConcatProperties
<1>4. QED
  BY <1>3 DEF Passed, Frame

LEMMA Travels ==
  ASSUME TypeOK, NEW f \in wire, Travel(f)
  PROVE  /\ f \in Frame /\ Passed(f) \in Frame /\ wire' = wire \ {f}
         /\ \A c \in Card : sock'[c] = IF c \in Arrival(f) THEN Append(sock[c], Passed(f))
                                       ELSE sock[c]
         /\ sock' \in [Card -> Seq(Frame)] /\ Executed(f, Path(f))
         /\ \A c \in Card : sock[c] \in Seq(Frame)
<1>1. f \in Frame /\ sock \in [Card -> Seq(Frame)]
  BY DEF TypeOK
<1>2. Passed(f) \in Frame
  BY <1>1, PassedIs
<1>3. sock' = [c \in Card |-> IF c \in Arrival(f) THEN Append(sock[c], Passed(f))
                              ELSE sock[c]]
  BY DEF Travel, Passed
<1>4. \A c \in Card : Append(sock[c], Passed(f)) \in Seq(Frame)
  BY <1>1, <1>2, AppendProperties
<1>5. QED
  BY <1>1, <1>2, <1>3, <1>4 DEF Travel

(* A frame read from a socket is the first in it.                          *)
LEMMA Reads ==
  ASSUME TypeOK, NEW c \in Card, Inframe(c)
  PROVE  /\ sock[c] # <<>> /\ sock[c] \in Seq(Frame) /\ Head(sock[c]) \in Frame
         /\ sock'[c] = Tail(sock[c]) /\ sock' \in [Card -> Seq(Frame)]
         /\ \A d \in Card \ {c} : sock'[d] = sock[d]
         /\ ~Own(Head(sock[c])) => UNCHANGED recvVars
         /\ Own(Head(sock[c])) =>
              /\ rxbuf' = [rxbuf EXCEPT ![c] = Head(sock[c])]
              /\ rxsa' = [rxsa EXCEPT ![c] = Head(sock[c]).sa]
              /\ wkc' = [wkc EXCEPT ![c] = Len(Head(sock[c]).by)]
         /\ rxbuf' \in [Card -> Frame] /\ rxsa' \in [Card -> Card \cup {"none"}]
         /\ wkc' \in [Card -> Int] /\ Len(Head(sock[c]).by) \in Nat
         /\ \A d \in Card \ {c} : rxbuf'[d] = rxbuf[d] /\ rxsa'[d] = rxsa[d] /\ wkc'[d] = wkc[d]
<1>1. sock[c] # <<>> /\ sock[c] \in Seq(Frame) /\ sock \in [Card -> Seq(Frame)]
  BY DEF Inframe, TypeOK
<1>2. Head(sock[c]) \in Frame /\ Tail(sock[c]) \in Seq(Frame)
  BY <1>1, Tails
<1>3. sock' = [sock EXCEPT ![c] = Tail(sock[c])]
  BY DEF Inframe
<1>4. /\ ~Own(Head(sock[c])) => UNCHANGED recvVars
      /\ Own(Head(sock[c])) =>
              /\ rxbuf' = [rxbuf EXCEPT ![c] = Head(sock[c])]
              /\ rxsa' = [rxsa EXCEPT ![c] = Head(sock[c]).sa]
              /\ wkc' = [wkc EXCEPT ![c] = Len(Head(sock[c]).by)]
  BY DEF Inframe, Own, Wkc
<1>5. Len(Head(sock[c]).by) \in Nat /\ Head(sock[c]).sa \in Card
  <2>1. Head(sock[c]).by \in Seq(Slave) /\ Head(sock[c]).sa \in Card
    BY <1>2 DEF Frame
  <2>2. QED
    BY <2>1, LenProperties
<1>6. rxbuf \in [Card -> Frame] /\ rxsa \in [Card -> Card \cup {"none"}] /\ wkc \in [Card -> Int]
  BY DEF TypeOK
<1>7. /\ rxbuf' \in [Card -> Frame] /\ rxsa' \in [Card -> Card \cup {"none"}]
      /\ wkc' \in [Card -> Int]
      /\ \A d \in Card \ {c} : rxbuf'[d] = rxbuf[d] /\ rxsa'[d] = rxsa[d] /\ wkc'[d] = wkc[d]
  <2>1. CASE Own(Head(sock[c]))
    BY <1>2, <1>4, <1>5, <1>6, <2>1
  <2>2. CASE ~Own(Head(sock[c]))
    BY <1>4, <1>6, <2>2 DEF recvVars
  <2>3. QED
    BY <2>1, <2>2
<1>8. /\ sock'[c] = Tail(sock[c]) /\ sock' \in [Card -> Seq(Frame)]
      /\ \A d \in Card \ {c} : sock'[d] = sock[d]
  BY <1>1, <1>2, <1>3
<1>9. QED
  BY <1>1, <1>2, <1>4, <1>5, <1>7, <1>8

(* What the driver sends.                                                  *)
LEMMA SentFrames ==
  ASSUME TypeOK
  PROVE  /\ Request \in Frame /\ Dummy \in Frame /\ (cut # Whole => Again \in Frame)
         /\ Resent \in Seq(Slave)
         /\ [idx |-> idx, from |-> "sec", sa |-> "prim", dummy |-> FALSE, by |-> Resent] \in Frame
<1>1. <<>> \in Seq(Slave) /\ idx \in Idx /\ txbuf \in Seq(Slave)
  BY EmptySeq DEF TypeOK
<1>2. rxbuf["prim"] \in Frame
  BY DEF TypeOK, Card
<1>3. Resent \in Seq(Slave)
  BY <1>1, <1>2 DEF Resent, Frame
<1>4. cut # Whole => Upto(cut) \in Seq(Slave)
  BY Uptos DEF TypeOK, Cable
<1>5. QED
  BY <1>1, <1>3, <1>4 DEF Request, Dummy, Again, Frame, Card

LEMMA StepTypes ==
  ASSUME TypeOK, [Next]_vars
  PROVE  TypeOK'
<1> USE DEF TypeOK
<1>1. CASE Call
  BY <1>1, NextIndex, EmptySeq DEF Call, netVars, recvVars
<1>2. CASE OutframeRed
  <2>1. /\ wire' \subseteq Frame
    <3>1. [idx |-> idx, from |-> "prim", sa |-> "prim", dummy |-> FALSE, by |-> txbuf] \in Frame
      BY DEF Frame, Card
    <3>2. Dummy \in Frame
      BY SentFrames
    <3>3. QED
      BY <1>2, <3>1, <3>2 DEF OutframeRed, Dummy
  <2>2. rxsa' \in [Card -> Card \cup {"none"}] /\ wkc' \in [Card -> Int]
    BY <1>2 DEF OutframeRed, NothingReceived, NOFRAME
  <2>3. QED
    BY <1>2, <2>1, <2>2 DEF OutframeRed, callVars, histVars
<1>3. ASSUME NEW c \in Card, Inframe(c), pc' \in {"wait", "resent"} PROVE TypeOK'
  <2>1. /\ sock' \in [Card -> Seq(Frame)]
        /\ rxbuf' \in [Card -> Frame] /\ rxsa' \in [Card -> Card \cup {"none"}]
        /\ wkc' \in [Card -> Int]
    BY <1>3, Reads
  <2>2. UNCHANGED <<cut, wire, try, callVars, histVars>>
    BY <1>3 DEF Inframe
  <2>3. QED
    BY <1>3, <2>1, <2>2 DEF callVars, histVars
<1>4. CASE WaitOver \/ DecideNothing \/ Confirm
  BY <1>4 DEF WaitOver, DecideNothing, Confirm, netVars, callVars, recvVars, histVars
<1>5. CASE DecideCrossed
  BY <1>5 DEF DecideCrossed, Card, netVars, callVars, histVars
<1>6. CASE DecideTurned
  <2>1. txbuf' \in Seq(Slave) /\ wire' \subseteq Frame
    BY <1>6, SentFrames DEF DecideTurned
  <2>2. wkc' \in [Card -> Int]
    BY <1>6 DEF DecideTurned, NOFRAME, Card
  <2>3. QED
    BY <1>6, <2>1, <2>2 DEF DecideTurned, histVars
<1>7. CASE ResentOver
  <2>1. rxbuf' \in [Card -> Frame] /\ wkc' \in [Card -> Int]
    BY <1>7 DEF ResentOver, Card
  <2>2. QED
    BY <1>7, <2>1 DEF ResentOver, netVars, callVars, histVars
<1>8. ASSUME NEW f \in wire, Travel(f) PROVE TypeOK'
  <2>1. /\ wire' = wire \ {f} /\ sock' \in [Card -> Seq(Frame)]
        /\ Executed(f, Path(f))
    BY <1>8, Travels
  <2>2. done' \in [Slave -> Nat]
    BY <2>1, Paths, Executions
  <2>3. QED
    BY <1>8, <2>1, <2>2 DEF Travel, callVars, recvVars
<1>9. ASSUME NEW f \in wire, Lose(f) PROVE TypeOK'
  <2>1. PICK n \in 0..Len(Path(f)) : Executed(f, SubSeq(Path(f), 1, n))
    BY <1>9 DEF Lose
  <2>2. done' \in [Slave -> Nat]
    BY <2>1, Paths, Partial, Executions
  <2>3. /\ wire' \subseteq wire /\ losses' \in Nat /\ steady' \in BOOLEAN
        /\ UNCHANGED <<cut, sock, pc, try, callVars, recvVars, cuts>>
    <3>1. /\ wire' = wire \ {f} /\ losses' = losses + 1 /\ steady' = FALSE
          /\ UNCHANGED <<cut, sock, pc, try, callVars, recvVars, cuts>>
      BY <1>9 DEF Lose
    <3>2. losses + 1 \in Nat
      OBVIOUS
    <3>3. QED
      BY <3>1, <3>2, Zenon
  <2>4. QED
    BY <2>2, <2>3 DEF callVars, recvVars
<1>10. CASE CableChanges
  <2>1. /\ cut' \in Cable \cup {Whole} /\ cuts' \in Nat /\ steady' \in BOOLEAN
        /\ UNCHANGED <<netVars, pc, try, callVars, recvVars, losses, done>>
    <3>1. /\ cut' \in (IF cut = Whole THEN Cable ELSE {Whole}) /\ cuts' = cuts + 1
          /\ steady' = FALSE
          /\ UNCHANGED <<netVars, pc, try, callVars, recvVars, losses, done>>
      BY <1>10 DEF CableChanges
    <3>2. cuts + 1 \in Nat
      OBVIOUS
    <3>3. QED
      BY <3>1, <3>2, Zenon
  <2>2. QED
    BY <2>1 DEF netVars, callVars, recvVars
<1>11. CASE UNCHANGED vars
  BY <1>11 DEF vars, netVars, callVars, recvVars, histVars
<1>12. QED
  BY <1>1, <1>2, <1>3, <1>4, <1>5, <1>6, <1>7, <1>8, <1>9, <1>10, <1>11
     DEF Next, Driver, WaitBoth, WaitResent, Card

-----------------------------------------------------------------------------
(* What is left of earlier calls.                                          *)
LEMMA LeftRead ==
  ASSUME TypeOK, LeftOK, NEW c \in Card, Inframe(c), pc' = pc
  PROVE  LeftOK'
<1>1. /\ sock[c] # <<>> /\ sock[c] \in Seq(Frame)
      /\ sock'[c] = Tail(sock[c])
      /\ \A d \in Card \ {c} : sock'[d] = sock[d] /\ wkc'[d] = wkc[d]
      /\ ~Own(Head(sock[c])) => wkc' = wkc
  BY Reads DEF recvVars
<1>2. UNCHANGED <<wire, try, idx, Prev, Begun>>
  BY DEF Inframe, Prev, Begun, callVars
<1>3. LeftOnWire'
  BY <1>2 DEF LeftOK, LeftOnWire
<1>4. ASSUME NEW d \in Card PROVE LeftIn(d)'
  <2>1. CASE d # c
    BY <1>1, <1>2, <2>1 DEF LeftOK, LeftIn, Got
  <2>2. CASE d = c
    <3>1. /\ Ahead(sock[c], idx, Prev) => Ahead(Tail(sock[c]), idx, Prev)
          /\ Ahead(sock[c], idx, Prev) /\ Own(Head(sock[c])) => Only(Tail(sock[c]), {idx, Prev})
          /\ Only(sock[c], {idx, Prev}) => Only(Tail(sock[c]), {idx, Prev})
      BY <1>1, AheadIn DEF Own
    <3>2. QED
      BY <1>1, <1>2, <2>2, <3>1 DEF LeftOK, LeftIn, Got
  <2>3. QED
    BY <2>1, <2>2
<1>5. QED
  BY <1>3, <1>4 DEF LeftOK

LEMMA StepLeft ==
  ASSUME TypeOK, LeftOK, [Next]_vars
  PROVE  LeftOK'
<1>1. CASE Call
  <2>1. idx' = (idx + 1) % NIdx /\ Prev' = idx /\ idx' \notin {idx, Prev}
    BY <1>1, NextIndex DEF Call, Prev
  <2>2. LeftOnWire'
    BY <1>1, <2>1 DEF Call, LeftOnWire, netVars
  <2>3. ASSUME NEW c \in Card PROVE LeftIn(c)'
    <3>1. Only(sock[c], {idx, Prev})
      BY <1>1 DEF Call, LeftOK, LeftIn, Begun
    <3>2. Ahead(sock[c], idx', Prev')
      BY <2>1, <3>1 DEF Only, Ahead
    <3>3. QED
      BY <1>1, <3>2 DEF Call, LeftIn, Begun, netVars
  <2>4. QED
    BY <2>2, <2>3 DEF LeftOK
<1>2. CASE OutframeRed
  <2>1. LeftOnWire'
    BY <1>2 DEF OutframeRed, LeftOK, LeftOnWire, callVars, Prev
  <2>2. ASSUME NEW c \in Card PROVE LeftIn(c)'
    <3>1. ~Got(c)' /\ sock' = sock /\ Prev' = Prev /\ idx' = idx
      BY <1>2 DEF OutframeRed, NothingReceived, Got, NOFRAME, callVars, Prev
    <3>2. Begun' <=> try + 1 = 1
      BY <1>2 DEF OutframeRed, Begun
    <3>3. Begun' <=> Begun
      BY <1>2, <3>2 DEF OutframeRed, Begun, TypeOK
    <3>4. QED
      BY <3>1, <3>3 DEF LeftOK, LeftIn
  <2>3. QED
    BY <2>1, <2>2 DEF LeftOK
<1>3. ASSUME NEW c \in Card, WaitBoth(c) PROVE LeftOK'
  BY <1>3, LeftRead DEF WaitBoth
<1>4. CASE WaitResent
  BY <1>4, LeftRead DEF WaitResent, Card
<1>5. CASE WaitOver
  <2>1. UNCHANGED <<wire, sock, wkc, idx, Prev>> /\ pc = "wait" /\ pc' = "decide"
    BY <1>5 DEF WaitOver, netVars, callVars, recvVars, Prev
  <2>2. ASSUME NEW c \in Card PROVE Only(sock[c], {idx, Prev})
    <3>1. CASE Got(c)
      BY <2>1, <3>1 DEF LeftOK, LeftIn
    <3>2. CASE ~Got(c)
      <4>1. sock[c] = <<>>
        BY <1>5, <3>2 DEF WaitOver, Got, Expired, TypeOK, NOFRAME
      <4>2. QED
        BY <4>1 DEF Only
    <3>3. QED
      BY <3>1, <3>2
  <2>3. QED
    BY <2>1, <2>2 DEF LeftOK, LeftOnWire, LeftIn, Begun
<1>6. CASE DecideCrossed \/ DecideNothing \/ ResentOver
  <2>1. /\ UNCHANGED <<wire, sock, idx, Prev>> /\ pc' = "confirm" /\ pc \in {"decide", "resent"}
    BY <1>6 DEF DecideCrossed, DecideNothing, ResentOver, netVars, callVars, Prev
  <2>2. QED
    BY <2>1 DEF LeftOK, LeftOnWire, LeftIn, Begun
<1>7. CASE DecideTurned
  <2>1. /\ UNCHANGED <<sock, idx, Prev>> /\ pc' = "resent" /\ pc = "decide"
        /\ \A f \in wire' : f \in wire \/ f.idx = idx
    BY <1>7 DEF DecideTurned, Prev
  <2>2. QED
    BY <2>1 DEF LeftOK, LeftOnWire, LeftIn, Begun
<1>8. CASE Confirm
  <2>1. UNCHANGED <<wire, sock, idx, Prev, try>> /\ pc = "confirm" /\ pc' \in {"send", "idle"}
    BY <1>8 DEF Confirm, netVars, callVars, Prev
  <2>2. \A c \in Card : Only(sock[c], {idx, Prev})
    BY <2>1 DEF LeftOK, LeftIn, Begun
  <2>3. \A c \in Card : Ahead(sock[c], idx, Prev)
    BY <2>2 DEF Only, Ahead
  <2>4. QED
    BY <2>1, <2>2, <2>3 DEF LeftOK, LeftOnWire, LeftIn
<1>9. ASSUME NEW f \in wire, Travel(f) PROVE LeftOK'
  <2>1. /\ Passed(f) \in Frame /\ wire' = wire \ {f} /\ Passed(f).idx \in {idx, Prev}
        /\ \A c \in Card : sock'[c] = IF c \in Arrival(f) THEN Append(sock[c], Passed(f))
                                       ELSE sock[c]
        /\ \A c \in Card : sock[c] \in Seq(Frame)
    BY <1>9, Travels, PassedIs DEF LeftOK, LeftOnWire
  <2>2. UNCHANGED <<idx, Prev, Begun, pc, wkc>>
    BY <1>9 DEF Travel, callVars, recvVars, Prev, Begun
  <2>3. ASSUME NEW c \in Card PROVE LeftIn(c)'
    <3>1. /\ Ahead(sock[c], idx, Prev) => Ahead(sock'[c], idx, Prev)
          /\ Only(sock[c], {idx, Prev}) => Only(sock'[c], {idx, Prev})
      <4>1. CASE c \in Arrival(f)
        <5>1. sock'[c] = Append(sock[c], Passed(f))
          BY <2>1, <4>1
        <5>2. QED
          BY <2>1, <5>1, AheadIn
      <4>2. CASE c \notin Arrival(f)
        BY <2>1, <4>2
      <4>3. QED
        BY <4>1, <4>2
    <3>2. QED
      BY <2>2, <3>1 DEF LeftOK, LeftIn, Got
  <2>4. QED
    BY <2>1, <2>2, <2>3 DEF LeftOK, LeftOnWire
<1>10. ASSUME NEW f \in wire, Lose(f) PROVE LeftOK'
  BY <1>10 DEF Lose, LeftOK, LeftOnWire, LeftIn, Begun, Got, Prev, callVars, recvVars
<1>11. CASE CableChanges \/ UNCHANGED vars
  BY <1>11 DEF CableChanges, LeftOK, LeftOnWire, LeftIn, Begun, Got, Prev, vars, netVars, callVars, recvVars
<1>12. QED
  BY <1>1, <1>2, <1>3, <1>4, <1>5, <1>6, <1>7, <1>8, <1>9, <1>10, <1>11 DEF Next, Driver

-----------------------------------------------------------------------------
(* The first attempt.                                                      *)
LEMMA MoreDone ==
  ASSUME NEW d \in [Slave -> Nat], NEW e \in [Slave -> Nat], \A s \in Slave : e[s] >= d[s],
         NEW l \in BOOLEAN, NEW m \in BOOLEAN, m => l
  PROVE  /\ \A f \in Frame : Executors(f, d) => Executors(f, e)
         /\ \A f \in Frame, c \in Card : Arrived(f, c, d, l) => Arrived(f, c, e, m)
         /\ \A q \in Seq(Frame), c \in Card, i \in Idx :
              AllArrived(q, c, i, d, l) => AllArrived(q, c, i, e, m)
<1>1. ASSUME NEW f \in Frame, Executors(f, d) PROVE Executors(f, e)
  <2>1. f.by \in Seq(Slave)
    BY DEF Frame
  <2>2. \A k \in 1..Len(f.by) : f.by[k] \in Slave
    BY <2>1, LenProperties
  <2>3. \A s \in Slave : e[s] \in Nat /\ d[s] \in Nat
    OBVIOUS
  <2>4. QED
    BY <1>1, <2>2, <2>3 DEF Executors
<1>2. \A f \in Frame, c \in Card : Arrived(f, c, d, l) => Arrived(f, c, e, m)
  BY <1>1 DEF Arrived
<1>3. ASSUME NEW q \in Seq(Frame), NEW c \in Card, NEW i \in Idx, AllArrived(q, c, i, d, l)
      PROVE  AllArrived(q, c, i, e, m)
  <2>1. \A k \in DOMAIN q : q[k] \in Frame
    BY LenProperties
  <2>2. QED
    BY <1>2, <1>3, <2>1 DEF AllArrived
<1>4. QED
  BY <1>1, <1>2, <1>3

LEMMA ArrivedIn ==
  ASSUME NEW q \in Seq(Frame), NEW c, NEW i, NEW d, NEW l, AllArrived(q, c, i, d, l)
  PROVE  /\ q # <<>> => /\ AllArrived(Tail(q), c, i, d, l)
                        /\ Head(q).idx = i => Arrived(Head(q), c, d, l)
         /\ \A g \in Frame : (g.idx = i => Arrived(g, c, d, l)) =>
              AllArrived(Append(q, g), c, i, d, l)
<1>1. q # <<>> => /\ AllArrived(Tail(q), c, i, d, l)
                  /\ Head(q).idx = i => Arrived(Head(q), c, d, l)
  BY Tails DEF AllArrived
<1>2. ASSUME NEW g \in Frame, g.idx = i => Arrived(g, c, d, l)
      PROVE  AllArrived(Append(q, g), c, i, d, l)
  <2>1. PICK n \in Nat :
          /\ DOMAIN q = 1..n /\ DOMAIN Append(q, g) = 1..(n + 1)
          /\ \A k \in 1..n : Append(q, g)[k] = q[k]
          /\ Append(q, g)[n + 1] = g
    BY Appended
  <2>2. QED
    BY <1>2, <2>1 DEF AllArrived
<1>3. QED
  BY <1>1, <1>2

LEMMA NoneArrived ==
  ASSUME NEW q, NEW c, NEW i, NEW d, NEW l, NoneOf(q, i)
  PROVE  AllArrived(q, c, i, d, l) /\ NoDummy(q, i) /\ OneDummy(q, i)
BY DEF NoneOf, AllArrived, NoDummy, OneDummy

(* Where a frame of the first attempt arrives, and as what.                *)
LEMMA Arrives ==
  ASSUME TypeOK, NEW f \in wire, Travel(f), Own(f), Underway(f)
  PROVE  \A c \in Arrival(f) : Arrived(Passed(f), c, done', Listening)
<1>1. /\ f \in Frame /\ Executed(f, Path(f)) /\ f.by \in Seq(Slave)
      /\ Passed(f).by = f.by \o Path(f)
      /\ Passed(f).sa = f.sa /\ Passed(f).dummy = f.dummy
  BY Travels, PassedIs DEF Frame
<1>2. /\ Path(f) \in Seq(Slave) /\ Reached \in 0..NSlave
      /\ f.from = "prim" => Path(f) = Upto(Reached)
      /\ f.from # "prim" /\ cut = Whole => Path(f) = <<>>
      /\ f.from # "prim" /\ cut # Whole => Path(f) = Beyond(cut) /\ cut \in 0..NSlave
  BY Paths
<1>3. /\ done' \in [Slave -> Nat] /\ \A s \in Slave : done'[s] >= done[s]
      /\ ~f.dummy => \A s \in Slave : done'[s] = done[s] + Count(Path(f), s)
      /\ done \in [Slave -> Nat]
  BY <1>1, <1>2, Executions DEF TypeOK
<1>4. NSlave \in 0..NSlave /\ NSlave \in Nat /\ 0 \in 0..NSlave
  BY RedConstants
<1>5. CASE f = Request
  <2>1. Passed(f).by = Upto(Reached)
    BY <1>1, <1>2, <1>5, ConcatEmptySeq DEF Request
  <2>2. Executors(Passed(f), done')
    <3>1. ASSUME NEW k \in 1..Len(Passed(f).by) PROVE done'[Passed(f).by[k]] >= 1
      <4>1. Passed(f).by[k] = k /\ k \in Slave /\ k <= Reached
        <5>1. k \in 1..Reached /\ Upto(Reached)[k] = k
          BY <1>2, <2>1, Uptos
        <5>2. QED
          BY <1>2, <1>4, <2>1, <5>1 DEF Slave
      <4>2. done'[k] = done[k] + 1
        <5>1. ~f.dummy /\ Path(f) = Upto(Reached)
          BY <1>2, <1>5 DEF Request
        <5>2. Count(Upto(Reached), k) = 1
          BY <1>2, <4>1, Counts
        <5>3. QED
          BY <1>3, <4>1, <5>1, <5>2
      <4>3. QED
        BY <1>3, <4>1, <4>2
    <3>2. QED
      BY <3>1 DEF Executors
  <2>3. Outward(Passed(f))
    BY <1>2, <2>1 DEF Outward
  <2>4. Parts(Passed(f))
    <3>1. Upto(Reached) \o Beyond(NSlave) = Upto(Reached)
      BY <1>2, Uptos, Lines, ConcatEmptySeq
    <3>2. QED
      BY <1>2, <1>4, <2>1, <3>1 DEF Parts
  <2>5. QED
    BY <1>1, <1>5, <2>2, <2>3, <2>4 DEF Arrived, Request
<1>6. CASE f = Dummy
  <2>1. ASSUME NEW c \in Arrival(f), c = "prim" PROVE Passed(f).by = <<>>
    <3>1. cut = Whole
      BY <1>6, <2>1 DEF Arrival, Dummy
    <3>2. QED
      BY <1>1, <1>2, <1>6, <3>1, EmptySeq, ConcatEmptySeq DEF Dummy
  <2>2. QED
    BY <1>1, <1>6, <2>1 DEF Arrived, Dummy
<1>7. CASE f # Request /\ f # Dummy
  <2>1. /\ f.from = "sec" /\ f.sa = "prim" /\ ~f.dummy /\ ~Listening
        /\ Executors(f, done) /\ Outward(f)
    BY <1>7 DEF Underway, Listening
  <2>2. PICK n \in 0..NSlave : f.by = Upto(n)
    BY <2>1 DEF Outward
  <2>3. /\ Upto(n) \in Seq(Slave) /\ Len(Upto(n)) = n
        /\ \A k \in 1..n : Upto(n)[k] = k
    BY Uptos
  <2>4. \A k \in 1..n : k \in Slave /\ done'[k] >= 1
    <3>1. \A k \in 1..n : k \in Slave /\ done[k] >= 1
      BY <1>4, <2>1, <2>2, <2>3 DEF Executors, Slave
    <3>2. QED
      BY <1>3, <3>1
  <2>5. CASE cut = Whole
    <3>1. Passed(f).by = Upto(n)
      BY <1>1, <1>2, <2>1, <2>2, <2>3, <2>5, ConcatEmptySeq
    <3>2. Executors(Passed(f), done')
      BY <2>3, <2>4, <3>1 DEF Executors
    <3>3. Parts(Passed(f))
      <4>1. Upto(n) \o Beyond(NSlave) = Upto(n)
        BY <2>3, Lines, ConcatEmptySeq
      <4>2. QED
        BY <1>4, <3>1, <4>1 DEF Parts
    <3>4. QED
      BY <1>1, <2>1, <3>2, <3>3 DEF Arrived
  <2>6. CASE cut # Whole
    <3>1. Path(f) = Beyond(cut) /\ cut \in 0..NSlave
      BY <1>2, <2>1, <2>6
    <3>2. /\ Beyond(cut) \in Seq(Slave) /\ Len(Beyond(cut)) = NSlave - cut
          /\ \A k \in 1..(NSlave - cut) : Beyond(cut)[k] = cut + k
      BY <3>1, Beyonds
    <3>3. Passed(f).by = Upto(n) \o Beyond(cut)
      BY <1>1, <2>2, <3>1
    <3> DEFINE u == Upto(n) \o Beyond(cut)
    <3>4. /\ Len(u) = Len(Upto(n)) + Len(Beyond(cut))
          /\ \A i \in 1..(Len(Upto(n)) + Len(Beyond(cut))) :
               u[i] = IF i <= Len(Upto(n)) THEN Upto(n)[i] ELSE Beyond(cut)[i - Len(Upto(n))]
      BY <2>3, <3>2, ConcatProperties
    <3> HIDE DEF u
    <3>5. /\ Len(u) = n + (NSlave - cut)
          /\ \A i \in 1..(n + (NSlave - cut)) :
               u[i] = IF i <= n THEN Upto(n)[i] ELSE Beyond(cut)[i - n]
      BY <2>3, <3>2, <3>4
    <3>6. ASSUME NEW i \in 1..Len(u) PROVE done'[u[i]] >= 1
      <4>1. i \in 1..(n + (NSlave - cut)) /\ n \in Nat /\ cut \in Nat /\ i \in Nat
        BY <1>4, <3>1, <3>5
      <4>2. CASE i <= n
        <5>1. u[i] = i /\ i \in 1..n
          BY <2>3, <3>5, <4>1, <4>2
        <5>2. QED
          BY <2>4, <5>1
      <4>3. CASE i > n
        <5>1. i - n \in 1..(NSlave - cut)
          BY <1>4, <4>1, <4>3
        <5>2. u[i] = cut + (i - n)
          BY <3>2, <3>5, <4>1, <4>3, <5>1
        <5>3. u[i] \in Slave /\ ~(u[i] <= cut)
          BY <1>4, <4>1, <5>1, <5>2 DEF Slave
        <5>4. Count(Beyond(cut), u[i]) = 1
          BY <3>1, <5>3, Counts
        <5>5. QED
          BY <1>3, <2>1, <3>1, <5>3, <5>4
      <4>4. QED
        BY <4>1, <4>2, <4>3
    <3>7. Executors(Passed(f), done')
      BY <3>3, <3>6 DEF Executors, u
    <3>8. Parts(Passed(f))
      BY <3>1, <3>3 DEF Parts
    <3>9. QED
      BY <1>1, <2>1, <3>7, <3>8 DEF Arrived
  <2>7. QED
    BY <2>5, <2>6
<1>8. QED
  BY <1>5, <1>6, <1>7

(* A frame read by the call.                                               *)
LEMMA FirstReads ==
  ASSUME TypeOK, FirstSent, NEW c \in Card, Inframe(c), pc' = pc, pc # "send"
  PROVE  /\ FirstSent'
         /\ Own(Head(sock[c])) => Arrived(Head(sock[c]), c, done, Listening)
<1>1. /\ sock[c] # <<>> /\ sock[c] \in Seq(Frame) /\ Head(sock[c]) \in Frame
      /\ sock'[c] = Tail(sock[c])
      /\ \A d \in Card \ {c} : sock'[d] = sock[d]
  BY Reads
<1>2. UNCHANGED <<wire, idx, done, Listening, Request, Dummy>>
  BY DEF Inframe, callVars, histVars, Listening, Request, Dummy
<1>3. /\ AllArrived(Tail(sock[c]), c, idx, done, Listening)
      /\ Own(Head(sock[c])) => Arrived(Head(sock[c]), c, done, Listening)
  BY <1>1, ArrivedIn DEF FirstSent, Own
<1>4. \A f \in wire' : Own(f)' => pc' # "send" /\ Underway(f)'
  BY <1>2 DEF FirstSent, Underway, Own
<1>5. \A d \in Card : AllArrived(sock'[d], d, idx, done, Listening)
  BY <1>1, <1>3 DEF FirstSent
<1>6. QED
  BY <1>2, <1>3, <1>4, <1>5 DEF FirstSent

LEMMA ReadBoth ==
  ASSUME TypeOK, FirstCall, NEW c \in Card, WaitBoth(c)
  PROVE  FirstCall'
<1>1. /\ sock[c] # <<>> /\ sock[c] \in Seq(Frame) /\ Head(sock[c]) \in Frame
      /\ sock'[c] = Tail(sock[c])
      /\ \A d \in Card \ {c} : sock'[d] = sock[d]
      /\ ~Own(Head(sock[c])) => UNCHANGED recvVars
      /\ Own(Head(sock[c])) =>
           /\ rxbuf' = [rxbuf EXCEPT ![c] = Head(sock[c])]
           /\ rxsa' = [rxsa EXCEPT ![c] = Head(sock[c]).sa]
           /\ wkc' = [wkc EXCEPT ![c] = Len(Head(sock[c]).by)]
      /\ Len(Head(sock[c]).by) \in Nat
      /\ \A d \in Card \ {c} : rxbuf'[d] = rxbuf[d] /\ rxsa'[d] = rxsa[d] /\ wkc'[d] = wkc[d]
  BY Reads DEF WaitBoth
<1>2. /\ UNCHANGED <<wire, idx, done, txbuf, pc, Listening, Dummy>> /\ pc = "wait" /\ Listening
      /\ Inframe(c) /\ ~Got(c)
  BY DEF WaitBoth, Inframe, callVars, histVars, Listening, Dummy, Got, TypeOK, NOFRAME
<1>3. /\ FirstSent' /\ FirstSent /\ OneDummyAtAll /\ \A d \in Card : FirstGot(d)
      /\ Own(Head(sock[c])) => Arrived(Head(sock[c]), c, done, Listening)
  BY <1>2, FirstReads DEF FirstCall
<1>4. ASSUME NEW d \in Card PROVE FirstGot(d)'
  <2>1. CASE d # c \/ ~Own(Head(sock[c]))
    <3>1. rxbuf'[d] = rxbuf[d] /\ rxsa'[d] = rxsa[d] /\ wkc'[d] = wkc[d]
      BY <1>1, <2>1 DEF recvVars
    <3>2. QED
      BY <1>2, <1>3, <3>1 DEF FirstGot, Got, Own
  <2>2. CASE d = c /\ Own(Head(sock[c]))
    <3>1. /\ rxbuf'[d] = Head(sock[c]) /\ rxsa'[d] = Head(sock[c]).sa
          /\ wkc'[d] = Len(Head(sock[c]).by)
      BY <1>1, <2>2 DEF TypeOK
    <3>2. Got(d)' /\ idx' = idx /\ done' = done /\ Listening' = Listening
      BY <1>1, <1>2, <3>1 DEF Got, NOFRAME
    <3>3. Own(rxbuf'[d]) /\ Arrived(rxbuf'[d], d, done, Listening)
      BY <1>3, <2>2, <3>1
    <3>4. QED
      BY <3>1, <3>2, <3>3 DEF FirstGot, Own
  <2>3. QED
    BY <2>1, <2>2
<1>5. OneDummyAtAll'
  <2> DEFINE h == Head(sock[c])
  <2>1. /\ NoDummy(sock[c], idx) => NoDummy(sock'[c], idx) /\ ~(Own(h) /\ h.dummy)
        /\ OneDummy(sock[c], idx) => OneDummy(sock'[c], idx)
        /\ OneDummy(sock[c], idx) /\ Own(h) /\ h.dummy => NoDummy(sock'[c], idx)
    <3>1. DEFINE q == sock[c]
    <3>2. q \in Seq(Frame) /\ q # <<>> /\ h = Head(q) /\ sock'[c] = Tail(q)
      BY <1>1
    <3> HIDE DEF q, h
    <3>3. /\ NoDummy(q, idx) => NoDummy(Tail(q), idx) /\ ~(Own(h) /\ h.dummy)
          /\ OneDummy(q, idx) => OneDummy(Tail(q), idx)
          /\ OneDummy(q, idx) /\ Own(h) /\ h.dummy => NoDummy(Tail(q), idx)
      BY <3>2, DummyIn DEF Own
    <3>4. QED
      BY <3>2, <3>3 DEF q
  <2>2. /\ \A d \in Card : NoDummy(sock[d], idx) => NoDummy(sock'[d], idx)
        /\ \A d \in Card : OneDummy(sock[d], idx) => OneDummy(sock'[d], idx)
    BY <1>1, <2>1
  <2>3. CASE Own(h) /\ h.dummy
    <3>1. Dummy \notin wire /\ NoDummy(sock'[c], idx)
      BY <1>3, <2>1, <2>3 DEF OneDummyAtAll
    <3>2. \A d \in Card \ {c} : NoDummy(sock'[d], idx)
      BY <1>3, <2>1, <2>2, <2>3 DEF OneDummyAtAll, Card
    <3>3. QED
      BY <1>2, <1>3, <2>2, <3>1, <3>2 DEF OneDummyAtAll, Card
  <2>4. CASE ~(Own(h) /\ h.dummy)
    <3>1. \A d \in Card : DummyGot(d)' => DummyGot(d)
      <4>1. ASSUME NEW d \in Card, DummyGot(d)' PROVE DummyGot(d)
        <5>1. CASE d # c \/ ~Own(h)
          <6>1. rxsa'[d] = rxsa[d] /\ wkc'[d] = wkc[d]
            BY <1>1, <5>1 DEF recvVars
          <6>2. QED
            BY <4>1, <6>1 DEF DummyGot, Got
        <5>2. CASE d = c /\ Own(h)
          <6>1. rxsa'[d] = h.sa
            BY <1>1, <5>2 DEF TypeOK
          <6>2. h.sa # "sec"
            BY <1>3, <2>4, <5>2 DEF Arrived
          <6>3. QED
            BY <4>1, <6>1, <6>2 DEF DummyGot
        <5>3. QED
          BY <5>1, <5>2
      <4>2. QED
        BY <4>1
    <3>2. QED
      BY <1>2, <1>3, <2>2, <3>1 DEF OneDummyAtAll, Card
  <2>5. QED
    BY <2>3, <2>4
<1>6. QED
  BY <1>2, <1>3, <1>4, <1>5 DEF FirstCall

(* The dummy is on the wire, in a socket or received, but not in two of    *)
(* these places.                                                           *)
LEMMA DummyTravels ==
  ASSUME TypeOK, FirstSent, NEW f \in wire, Travel(f)
  PROVE  /\ OneDummyAtAll => OneDummyAtAll'
         /\ Dummy \notin wire =>
              \A c \in Card : NoDummy(sock[c], idx) => NoDummy(sock'[c], idx)
<1>1. /\ f \in Frame /\ Passed(f) \in Frame /\ wire' = wire \ {f}
      /\ \A c \in Card : sock'[c] = IF c \in Arrival(f) THEN Append(sock[c], Passed(f))
                                    ELSE sock[c]
      /\ \A c \in Card : sock[c] \in Seq(Frame)
      /\ Passed(f).idx = f.idx /\ Passed(f).dummy = f.dummy
  BY Travels, PassedIs
<1>2. /\ UNCHANGED <<idx, Dummy>> /\ \A c \in Card : DummyGot(c)' <=> DummyGot(c)
  BY DEF Travel, callVars, recvVars, Dummy, DummyGot, Got
<1>3. Own(f) /\ f.dummy => f = Dummy
  BY DEF FirstSent, Underway, Request
<1>4. ASSUME f # Dummy, NEW c \in Card
      PROVE  /\ NoDummy(sock[c], idx) => NoDummy(sock'[c], idx)
             /\ OneDummy(sock[c], idx) => OneDummy(sock'[c], idx)
  <2>1. ~(Passed(f).idx = idx /\ Passed(f).dummy)
    BY <1>1, <1>3, <1>4 DEF Own
  <2>2. CASE c \in Arrival(f)
    <3>1. sock'[c] = Append(sock[c], Passed(f))
      BY <1>1, <2>2
    <3>2. QED
      BY <1>1, <2>1, <3>1, DummyIn
  <2>3. CASE c \notin Arrival(f)
    BY <1>1, <2>3
  <2>4. QED
    BY <2>2, <2>3
<1>5. ASSUME f # Dummy, OneDummyAtAll PROVE OneDummyAtAll'
  BY <1>1, <1>2, <1>4, <1>5 DEF OneDummyAtAll, Card
<1>6. ASSUME f = Dummy, OneDummyAtAll PROVE OneDummyAtAll'
  <2>1. Dummy \notin wire' /\ \A c \in Card : ~DummyGot(c)' /\ NoDummy(sock[c], idx)
    BY <1>1, <1>2, <1>6 DEF OneDummyAtAll
  <2>2. \A c \in Card : OneDummy(sock'[c], idx)
    <3>1. ASSUME NEW c \in Card PROVE OneDummy(sock'[c], idx)
      <4>1. CASE c \in Arrival(f)
        <5>1. sock'[c] = Append(sock[c], Passed(f))
          BY <1>1, <4>1
        <5>2. QED
          BY <1>1, <2>1, <5>1, DummyIn
      <4>2. CASE c \notin Arrival(f)
        BY <1>1, <1>6, <4>2 DEF OneDummyAtAll
      <4>3. QED
        BY <4>1, <4>2
    <3>2. QED
      BY <3>1
  <2>3. NoDummy(sock'["prim"], idx) \/ NoDummy(sock'["sec"], idx)
    <3>1. "prim" \notin Arrival(f) \/ "sec" \notin Arrival(f)
      BY DEF Arrival, Other
    <3>2. QED
      BY <1>1, <2>1, <3>1 DEF Card
  <2>4. QED
    BY <1>2, <2>1, <2>2, <2>3 DEF OneDummyAtAll
<1>7. QED
  BY <1>4, <1>5, <1>6

LEMMA FirstTravels ==
  ASSUME TypeOK, FirstCall, NEW f \in wire, Travel(f)
  PROVE  FirstCall'
<1>1. /\ f \in Frame /\ Passed(f) \in Frame /\ wire' = wire \ {f}
      /\ \A c \in Card : sock'[c] = IF c \in Arrival(f) THEN Append(sock[c], Passed(f))
                                    ELSE sock[c]
      /\ \A c \in Card : sock[c] \in Seq(Frame)
      /\ Passed(f).idx = f.idx /\ Executed(f, Path(f))
  BY Travels, PassedIs
<1>2. /\ done' \in [Slave -> Nat] /\ done \in [Slave -> Nat]
      /\ \A s \in Slave : done'[s] >= done[s]
  BY <1>1, Paths, Executions DEF TypeOK
<1>3. /\ UNCHANGED <<pc, idx, txbuf, rxbuf, rxsa, wkc, Listening, Request, Dummy>>
      /\ Listening \in BOOLEAN /\ idx \in Idx
      /\ \A c \in Card : Got(c)' <=> Got(c)
  BY DEF Travel, callVars, recvVars, Listening, Request, Dummy, TypeOK, Got
<1>4. /\ \A g \in Frame : Executors(g, done) => Executors(g, done')
      /\ \A g \in Frame, c \in Card :
           /\ Arrived(g, c, done, Listening) => Arrived(g, c, done', Listening)
           /\ Arrived(g, c, done, FALSE) => Arrived(g, c, done', FALSE)
      /\ \A q \in Seq(Frame), c \in Card :
           AllArrived(q, c, idx, done, Listening) => AllArrived(q, c, idx, done', Listening)
  <2>1. /\ \A g \in Frame : Executors(g, done) => Executors(g, done')
        /\ \A g \in Frame, c \in Card :
             Arrived(g, c, done, FALSE) => Arrived(g, c, done', FALSE)
    BY <1>2, MoreDone
  <2>2. /\ \A g \in Frame, c \in Card :
             Arrived(g, c, done, Listening) => Arrived(g, c, done', Listening)
        /\ \A q \in Seq(Frame), c \in Card, i \in Idx :
             AllArrived(q, c, i, done, Listening) => AllArrived(q, c, i, done', Listening)
    BY <1>2, <1>3, MoreDone
  <2>3. QED
    BY <1>3, <2>1, <2>2
<1>5. FirstSent
  BY DEF FirstCall
<1>6. FirstSent'
  <2>1. \A g \in wire' : Own(g)' => pc' # "send" /\ Underway(g)'
    BY <1>1, <1>3, <1>4, <1>5 DEF FirstSent, Underway, Own, TypeOK
  <2>2. ASSUME NEW c \in Card PROVE AllArrived(sock'[c], c, idx, done', Listening)
    <3>1. AllArrived(sock[c], c, idx, done', Listening)
      BY <1>1, <1>4, <1>5 DEF FirstSent
    <3>2. CASE c \in Arrival(f)
      <4>1. Own(f) => Arrived(Passed(f), c, done', Listening)
        BY <1>5, <3>2, Arrives DEF FirstSent
      <4>2. sock'[c] = Append(sock[c], Passed(f))
        BY <1>1, <3>2
      <4>3. QED
        BY <1>1, <3>1, <4>1, <4>2, ArrivedIn DEF Own
    <3>3. CASE c \notin Arrival(f)
      BY <1>1, <3>1, <3>3
    <3>4. QED
      BY <3>2, <3>3
  <2>3. ASSUME NEW c \in Card, pc = "send" PROVE NoneOf(sock'[c], idx)
    <3>1. NoneOf(sock[c], idx) /\ Passed(f).idx # idx
      BY <1>1, <1>5, <2>3 DEF FirstSent, Own
    <3>2. NoneOf(Append(sock[c], Passed(f)), idx)
      BY <1>1, <3>1, NoneIn
    <3>3. QED
      BY <1>1, <3>1, <3>2
  <2>4. QED
    BY <1>3, <2>1, <2>2, <2>3 DEF FirstSent
<1>7. ASSUME NEW c \in Card, FirstGot(c) PROVE FirstGot(c)'
  BY <1>3, <1>4, <1>7 DEF FirstGot, TypeOK, Own
<1>8. FirstResent => FirstResent'
  <2>1. ASSUME FirstResent PROVE Dummy' \notin wire' /\ NoDummy(sock'["sec"], idx)
    BY <1>1, <1>3, <1>5, <2>1, DummyTravels DEF FirstResent, Card
  <2>2. QED
    BY <1>3, <1>4, <2>1 DEF FirstResent, TypeOK, Card
<1>9. FirstResult => FirstResult'
  BY <1>3, <1>4 DEF FirstResult, TypeOK, Card
<1>10. QED
  BY <1>3, <1>5, <1>6, <1>7, <1>8, <1>9, DummyTravels DEF FirstCall

LEMMA CallBegins ==
  ASSUME TypeOK, LeftOK, Call
  PROVE  /\ \A f \in wire' : ~Own(f)'
         /\ \A c \in Card : sock' = sock /\ NoneOf(sock[c], idx')
         /\ pc' = "send" /\ try' = 0 /\ txbuf' = <<>>
<1>1. idx' = (idx + 1) % NIdx /\ idx' \notin {idx, Prev}
  BY NextIndex DEF Call
<1>2. \A f \in wire : f.idx = idx
  BY DEF Call
<1>3. \A c \in Card : Only(sock[c], {idx, Prev})
  BY DEF Call, LeftOK, LeftIn, Begun
<1>4. \A c \in Card : NoneOf(sock[c], idx')
  BY <1>1, <1>3 DEF Only, NoneOf
<1>5. QED
  BY <1>1, <1>2, <1>4 DEF Call, Own, netVars

LEMMA StepFirst ==
  ASSUME TypeOK, LeftOK, pc \notin {"idle", "send"} => try > 0,
         FirstAttempt => FirstCall, [Next]_vars, FirstAttempt'
  PROVE  FirstCall'
<1>1. CASE Call
  BY <1>1, CallBegins, NoneArrived DEF FirstCall, FirstSent, Listening
<1>2. CASE OutframeRed
  <2>1. /\ pc = "send" /\ pc' = "wait" /\ try = 0 /\ txbuf' = txbuf /\ sock' = sock
        /\ ~Listening /\ Listening' /\ idx' = idx
    BY <1>2 DEF OutframeRed, FirstAttempt, callVars, Listening, TypeOK
  <2>2. /\ FirstSent /\ txbuf = <<>>
    BY <2>1 DEF FirstAttempt, FirstCall
  <2>3. wire' = wire \cup {Request, Dummy} /\ Request' = Request /\ Dummy' = Dummy
    BY <1>2, <2>1, <2>2 DEF OutframeRed, Request, Dummy
  <2>4. (\A c \in Card : NoneOf(sock[c], idx)) /\ (\A f \in wire : ~Own(f))
    BY <2>1, <2>2 DEF FirstSent
  <2>5. FirstSent'
    <3>1. \A f \in wire' : Own(f)' => pc' # "send" /\ Underway(f)'
      BY <2>1, <2>3, <2>4 DEF Own, Underway
    <3>2. \A c \in Card : AllArrived(sock'[c], c, idx', done', Listening')
      BY <2>1, <2>4, NoneArrived
    <3>3. QED
      BY <2>1, <3>1, <3>2 DEF FirstSent
  <2>6. \A c \in Card : ~Got(c)' /\ rxsa'[c] = "none"
    BY <1>2 DEF OutframeRed, NothingReceived, Got, NOFRAME
  <2>7. OneDummyAtAll'
    <3>1. \A c \in Card : NoDummy(sock[c], idx) /\ OneDummy(sock[c], idx)
      BY <2>4, NoneArrived
    <3>2. QED
      BY <2>1, <2>6, <3>1 DEF OneDummyAtAll, DummyGot, Card
  <2>8. QED
    BY <2>1, <2>2, <2>5, <2>6, <2>7 DEF FirstCall, FirstGot
<1>3. ASSUME NEW c \in Card, WaitBoth(c) PROVE FirstCall'
  <2>1. FirstAttempt
    BY <1>3 DEF WaitBoth, Inframe, FirstAttempt
  <2>2. QED
    BY <1>3, <2>1, ReadBoth
<1>4. CASE WaitOver
  <2>1. /\ UNCHANGED <<wire, sock, idx, done, txbuf, rxbuf, rxsa, wkc, Request, Dummy>>
        /\ pc = "wait" /\ pc' = "decide" /\ FirstAttempt /\ Listening /\ Listening'
    BY <1>4 DEF WaitOver, netVars, callVars, recvVars, histVars, FirstAttempt, Request, Dummy,
       Listening
  <2>2. FirstSent'
    BY <2>1 DEF FirstCall, FirstSent, Underway, Own
  <2>3. OneDummyAtAll' /\ \A c \in Card : FirstGot(c)'
    BY <2>1 DEF FirstCall, OneDummyAtAll, FirstGot, Got, DummyGot, Own
  <2>4. QED
    BY <2>1, <2>2, <2>3 DEF FirstCall
<1>5. ASSUME pc = "decide", pc' \in {"confirm", "resent"}, sock' = sock, try' = try,
             idx' = idx, done' = done
      PROVE  /\ FirstCall /\ Listening /\ Listening' = FALSE
             /\ Dummy' = Dummy /\ Request' = Request
             /\ \A c \in Card : FirstGot(c) /\ AllArrived(sock[c], c, idx, done, FALSE)
             /\ \A c \in Card : Got(c) => rxbuf[c] \in Frame /\ Arrived(rxbuf[c], c, done, FALSE)
             /\ \A f \in wire : Own(f) => Underway(f)'
  <2>1. FirstCall /\ Listening /\ Listening' = FALSE /\ Dummy' = Dummy /\ Request' = Request
    BY <1>5 DEF FirstAttempt, Listening, Dummy, Request
  <2>2. \A c \in Card : FirstGot(c) /\ AllArrived(sock[c], c, idx, done, TRUE)
    BY <2>1 DEF FirstCall, FirstSent
  <2>3. /\ \A q \in Seq(Frame), c \in Card, i \in Idx :
              AllArrived(q, c, i, done, TRUE) => AllArrived(q, c, i, done, FALSE)
        /\ \A f \in Frame, c \in Card : Arrived(f, c, done, TRUE) => Arrived(f, c, done, FALSE)
    <3>1. done \in [Slave -> Nat] /\ \A s \in Slave : done[s] >= done[s]
      BY DEF TypeOK
    <3>2. QED
      BY <3>1, MoreDone
  <2>4. \A c \in Card : AllArrived(sock[c], c, idx, done, FALSE)
    BY <2>2, <2>3 DEF TypeOK
  <2>5. \A c \in Card : Got(c) => rxbuf[c] \in Frame /\ Arrived(rxbuf[c], c, done, FALSE)
    BY <2>1, <2>2, <2>3 DEF FirstGot, TypeOK
  <2>6. \A f \in wire : Own(f) => Underway(f)'
    BY <1>5, <2>1 DEF FirstCall, FirstSent, Underway
  <2>7. QED
    BY <2>1, <2>2, <2>4, <2>5, <2>6
<1>6. CASE DecideCrossed
  <2>1. /\ pc = "decide" /\ pc' = "confirm" /\ sock' = sock /\ try' = try /\ idx' = idx
        /\ done' = done /\ rxsa' = rxsa /\ wire' = wire
        /\ rxbuf' = [rxbuf EXCEPT !["prim"] = rxbuf["sec"]]
        /\ wkc' = [wkc EXCEPT !["prim"] = wkc["sec"]] /\ rxsa["sec"] = "prim"
    BY <1>6 DEF DecideCrossed, Crossed, netVars, callVars, histVars
  <2>2. /\ \A c \in Card : FirstGot(c) /\ AllArrived(sock[c], c, idx, done, FALSE)
        /\ \A c \in Card : Got(c) => rxbuf[c] \in Frame /\ Arrived(rxbuf[c], c, done, FALSE)
        /\ \A f \in wire : Own(f) => Underway(f)'
        /\ Listening' = FALSE
    BY <1>5, <2>1
  <2>3. FirstSent'
    BY <2>1, <2>2 DEF FirstSent, Own
  <2>4. Got("sec") /\ ~rxbuf["sec"].dummy
    BY <2>1, <2>2 DEF FirstGot, Card, Arrived
  <2>5. Arrived(rxbuf["sec"], "prim", done, FALSE) /\ wkc["sec"] = Len(rxbuf["sec"].by)
    BY <2>2, <2>4 DEF FirstGot, Card, Arrived
  <2>6. rxbuf'["prim"] = rxbuf["sec"] /\ wkc'["prim"] = wkc["sec"]
    BY <2>1 DEF TypeOK, Card
  <2>7. FirstResult'
    BY <2>1, <2>5, <2>6 DEF FirstResult
  <2>8. QED
    BY <2>1, <2>2, <2>3, <2>7 DEF FirstCall
<1>7. CASE DecideNothing
  <2>1. /\ pc = "decide" /\ pc' = "confirm" /\ sock' = sock /\ try' = try /\ idx' = idx
        /\ done' = done /\ rxsa' = rxsa /\ wire' = wire /\ rxbuf' = rxbuf /\ wkc' = wkc
    BY <1>7 DEF DecideNothing, netVars, callVars, histVars, recvVars
  <2>2. /\ \A c \in Card : FirstGot(c) /\ AllArrived(sock[c], c, idx, done, FALSE)
        /\ \A c \in Card : Got(c) => rxbuf[c] \in Frame /\ Arrived(rxbuf[c], c, done, FALSE)
        /\ \A f \in wire : Own(f) => Underway(f)'
        /\ Listening' = FALSE
    BY <1>5, <2>1
  <2>3. FirstSent'
    BY <2>1, <2>2 DEF FirstSent, Own
  <2>4. FirstResult'
    BY <2>1, <2>2 DEF FirstResult, FirstGot, Got, Card
  <2>5. QED
    BY <2>1, <2>2, <2>3, <2>4 DEF FirstCall
<1>8. CASE DecideTurned
  <2>0. PICK new :
          new = [idx |-> idx, from |-> "sec", sa |-> "prim", dummy |-> FALSE, by |-> Resent]
    OBVIOUS
  <2>1. /\ pc = "decide" /\ pc' = "resent" /\ sock' = sock /\ try' = try /\ idx' = idx
        /\ done' = done /\ rxsa' = rxsa /\ wire' = wire \cup {new} /\ rxbuf' = rxbuf
        /\ wkc' = [wkc EXCEPT !["sec"] = NOFRAME] /\ rxsa["sec"] = "sec"
    BY <1>8, <2>0 DEF DecideTurned, Turned, histVars
  <2>2. /\ FirstCall /\ Listening /\ Listening' = FALSE
        /\ Dummy' = Dummy /\ Request' = Request
        /\ \A c \in Card : FirstGot(c) /\ AllArrived(sock[c], c, idx, done, FALSE)
        /\ \A c \in Card : Got(c) => rxbuf[c] \in Frame /\ Arrived(rxbuf[c], c, done, FALSE)
        /\ \A f \in wire : Own(f) => Underway(f)'
    BY <1>5, <2>1
  <2>3. OneDummyAtAll /\ txbuf = <<>>
    BY <2>1, <2>2 DEF FirstCall
  <2>4. Executors(new, done) /\ Outward(new)
    <3>1. new.by = Resent
      BY <2>0
    <3>2. CASE rxsa["prim"] = "prim"
      <4>1. Resent = rxbuf["prim"].by
        BY <3>2 DEF Resent
      <4>2. Got("prim") /\ ~rxbuf["prim"].dummy
        BY <2>2, <3>2 DEF FirstGot, Card, Arrived
      <4>3. Executors(rxbuf["prim"], done) /\ Outward(rxbuf["prim"])
        BY <2>1, <2>2, <4>2 DEF FirstGot, Card, Arrived, Listening
      <4>4. QED
        BY <3>1, <4>1, <4>3 DEF Executors, Outward
    <3>3. CASE rxsa["prim"] # "prim"
      <4>1. Resent = <<>>
        BY <2>3, <3>3 DEF Resent
      <4>2. Len(<<>>) = 0 /\ Upto(0) = <<>> /\ 0 \in 0..NSlave
        BY EmptySeq, Lines, RedConstants
      <4>3. QED
        BY <3>1, <4>1, <4>2 DEF Executors, Outward
    <3>4. QED
      BY <3>2, <3>3
  <2>5. /\ new.from = "sec" /\ new.sa = "prim" /\ ~new.dummy /\ new # Dummy
    BY <2>0 DEF Dummy
  <2>6. Underway(new)'
    BY <2>1, <2>4, <2>5 DEF Underway
  <2>7. FirstSent'
    BY <2>1, <2>2, <2>6 DEF FirstSent, Own
  <2>8. FirstResent'
    <3>1. Got("sec") /\ DummyGot("sec")
      BY <2>1, <2>2 DEF FirstGot, Card, DummyGot
    <3>2. Dummy \notin wire' /\ NoDummy(sock["sec"], idx)
      BY <2>1, <2>3, <2>5, <3>1 DEF OneDummyAtAll, Card
    <3>3. ~Got("sec")'
      BY <2>1 DEF Got, TypeOK, Card, NOFRAME
    <3>4. QED
      BY <2>1, <2>2, <3>2, <3>3 DEF FirstResent
  <2>9. FirstResult'
    <3>1. wkc'["prim"] = wkc["prim"]
      BY <2>1 DEF TypeOK, Card
    <3>2. QED
      BY <2>1, <2>2, <3>1 DEF FirstResult, FirstGot, Got, Card
  <2>10. QED
    BY <2>1, <2>2, <2>7, <2>8, <2>9 DEF FirstCall
<1>9. CASE WaitResent
  <2>1. /\ pc = "resent" /\ pc' = pc /\ Inframe("sec") /\ "sec" \in Card
        /\ FirstAttempt /\ ~Got("sec")
    BY <1>9 DEF WaitResent, Card, Inframe, FirstAttempt, Got, NOFRAME, TypeOK
  <2>2. /\ FirstCall /\ FirstSent /\ FirstResent /\ FirstResult
        /\ Listening = FALSE /\ Listening' = FALSE
    BY <2>1 DEF FirstCall, Listening
  <2>0. PICK h : h = Head(sock["sec"])
    OBVIOUS
  <2>3. /\ FirstSent' /\ (Own(h) => Arrived(h, "sec", done, FALSE))
    BY <2>1, <2>2, <2>0, FirstReads
  <2>4. /\ sock["sec"] # <<>> /\ sock["sec"] \in Seq(Frame) /\ h \in Frame
        /\ sock'["sec"] = Tail(sock["sec"])
        /\ ~Own(h) => UNCHANGED recvVars
        /\ Own(h) => /\ rxbuf' = [rxbuf EXCEPT !["sec"] = h]
                     /\ wkc' = [wkc EXCEPT !["sec"] = Len(h.by)]
        /\ rxbuf'["prim"] = rxbuf["prim"] /\ wkc'["prim"] = wkc["prim"]
    BY <2>1, <2>0, Reads DEF Card
  <2>5. UNCHANGED <<wire, idx, done, Dummy>>
    BY <2>1 DEF Inframe, callVars, histVars, Dummy
  <2>6. NoDummy(sock'["sec"], idx) /\ ~(h.idx = idx /\ h.dummy)
    BY <2>2, <2>4, <2>0, DummyIn DEF FirstResent
  <2>7. FirstResent'
    <3>1. CASE Own(h)
      <4>1. rxbuf'["sec"] = h /\ wkc'["sec"] = Len(h.by) /\ ~h.dummy
        BY <2>4, <2>6, <3>1 DEF Own, TypeOK, Card
      <4>2. QED
        BY <2>2, <2>3, <2>5, <2>6, <3>1, <4>1 DEF FirstResent
    <3>2. CASE ~Own(h)
      <4>1. rxbuf' = rxbuf /\ wkc' = wkc
        BY <2>4, <3>2 DEF recvVars
      <4>2. QED
        BY <2>2, <2>5, <2>6, <4>1 DEF FirstResent, Got
    <3>3. QED
      BY <3>1, <3>2
  <2>8. FirstResult'
    BY <2>2, <2>4, <2>5 DEF FirstResult, Got
  <2>9. QED
    BY <2>1, <2>2, <2>3, <2>7, <2>8 DEF FirstCall
<1>10. CASE ResentOver
  <2>1. /\ pc = "resent" /\ pc' = "confirm" /\ FirstAttempt
        /\ Listening = FALSE /\ Listening' = FALSE
        /\ UNCHANGED <<wire, sock, idx, done, Dummy, Request>>
    BY <1>10 DEF ResentOver, netVars, callVars, histVars, FirstAttempt, Listening, Dummy, Request
  <2>2. FirstSent /\ FirstResent /\ FirstResult
    BY <2>1 DEF FirstCall
  <2>3. FirstSent'
    BY <2>1, <2>2 DEF FirstSent, Underway, Own
  <2>4. FirstResult'
    <3>1. CASE Got("sec")
      <4>1. rxbuf'["prim"] = rxbuf["sec"] /\ wkc'["prim"] = wkc["sec"]
        BY <1>10, <3>1 DEF ResentOver, Got, TypeOK, Card
      <4>2. Arrived(rxbuf["sec"], "prim", done, FALSE) /\ wkc["sec"] = Len(rxbuf["sec"].by)
        BY <2>2, <3>1 DEF FirstResent, Arrived
      <4>3. QED
        BY <2>1, <4>1, <4>2 DEF FirstResult
    <3>2. CASE ~Got("sec")
      <4>1. rxbuf' = rxbuf /\ wkc' = wkc
        BY <1>10, <3>2 DEF ResentOver, Got
      <4>2. QED
        BY <2>1, <2>2, <4>1 DEF FirstResult, Got
    <3>3. QED
      BY <3>1, <3>2
  <2>5. QED
    BY <2>1, <2>3, <2>4 DEF FirstCall
<1>11. CASE Confirm
  <2>1. /\ pc = "confirm" /\ pc' = "idle" /\ FirstAttempt
        /\ Listening = FALSE /\ Listening' = FALSE
        /\ UNCHANGED <<wire, sock, idx, done, rxbuf, wkc, Dummy, Request>>
    BY <1>11 DEF Confirm, netVars, callVars, recvVars, histVars, FirstAttempt, Listening, Dummy,
       Request, TypeOK
  <2>2. FirstSent /\ FirstResult
    BY <2>1 DEF FirstCall
  <2>3. FirstSent'
    BY <2>1, <2>2 DEF FirstSent, Underway, Own
  <2>4. QED
    BY <2>1, <2>2, <2>3 DEF FirstCall, FirstResult, Got
<1>12. ASSUME NEW f \in wire, Travel(f) PROVE FirstCall'
  <2>1. FirstAttempt
    BY <1>12 DEF Travel, FirstAttempt
  <2>2. QED
    BY <1>12, <2>1, FirstTravels
<1>13. ASSUME NEW f \in wire, Lose(f) PROVE FirstCall'
  <2>1. /\ UNCHANGED <<pc, sock, try, idx, txbuf, rxbuf, rxsa, wkc, Listening, Request, Dummy>>
        /\ wire' \subseteq wire /\ FirstAttempt
    BY <1>13 DEF Lose, FirstAttempt, callVars, recvVars, Listening, Request, Dummy
  <2>2. PICK n \in 0..Len(Path(f)) : Executed(f, SubSeq(Path(f), 1, n))
    BY <1>13 DEF Lose
  <2>3. /\ done' \in [Slave -> Nat] /\ \A s \in Slave : done'[s] >= done[s]
        /\ done \in [Slave -> Nat]
    BY <2>2, Paths, Partial, Executions DEF TypeOK
  <2>4. /\ \A g \in Frame : Executors(g, done) => Executors(g, done')
        /\ \A g \in Frame, c \in Card :
             Arrived(g, c, done, FALSE) => Arrived(g, c, done', FALSE)
    BY <2>3, MoreDone
  <2>5. /\ \A g \in Frame, c \in Card :
             Arrived(g, c, done, Listening) => Arrived(g, c, done', Listening)
        /\ \A q \in Seq(Frame), c \in Card, i \in Idx :
             AllArrived(q, c, i, done, Listening) => AllArrived(q, c, i, done', Listening)
    <3>1. Listening \in BOOLEAN
      BY DEF Listening
    <3>2. QED
      BY <2>3, <3>1, MoreDone
  <2>6. FirstSent'
    BY <2>1, <2>4, <2>5 DEF FirstCall, FirstSent, Underway, Own, TypeOK
  <2>7. \A c \in Card : FirstGot(c) => FirstGot(c)'
    BY <2>1, <2>5 DEF FirstGot, Got, Own, TypeOK
  <2>8. OneDummyAtAll => OneDummyAtAll'
    BY <2>1 DEF OneDummyAtAll, DummyGot, Got
  <2>9. FirstResent => FirstResent'
    BY <2>1, <2>4 DEF FirstResent, Got, TypeOK, Card
  <2>10. FirstResult => FirstResult'
    BY <2>1, <2>4 DEF FirstResult, Got, TypeOK, Card
  <2>11. QED
    BY <2>1, <2>6, <2>7, <2>8, <2>9, <2>10 DEF FirstCall
<1>14. CASE CableChanges \/ UNCHANGED vars
  <2>1. /\ UNCHANGED <<pc, wire, sock, try, idx, txbuf, rxbuf, rxsa, wkc, done>> /\ FirstAttempt
    BY <1>14 DEF CableChanges, vars, netVars, callVars, recvVars, histVars, FirstAttempt
  <2>2. UNCHANGED <<Listening, Request, Dummy, FirstSent, OneDummyAtAll, FirstResent, FirstResult>>
    BY <2>1 DEF Listening, Request, Dummy, FirstSent, OneDummyAtAll, FirstResent, FirstResult,
       DummyGot, Got, Underway, Own
  <2>3. \A c \in Card : FirstGot(c) => FirstGot(c)'
    BY <2>1, <2>2 DEF FirstGot, Got, Own
  <2>4. QED
    BY <2>1, <2>2, <2>3 DEF FirstCall
<1>15. QED
  BY <1>1, <1>2, <1>3, <1>4, <1>6, <1>7, <1>8, <1>9, <1>10, <1>11, <1>12, <1>13, <1>14
     DEF Next, Driver

-----------------------------------------------------------------------------
(* A call during which nothing changes.                                    *)
LEMMA ExecutedBy ==
  ASSUME TypeOK, NEW f \in wire, Travel(f), NEW n \in 0..NSlave, DoneUpto(n)
  PROVE  /\ f.dummy \/ ~Own(f) => DoneUpto(n)'
         /\ ~f.dummy /\ Own(f) /\ n = 0 /\ Path(f) = Upto(Reached) => DoneUpto(Reached)'
         /\ ~f.dummy /\ Own(f) /\ Path(f) = Beyond(n) => DoneUpto(NSlave)'
<1>1. Executed(f, Path(f)) /\ Path(f) \in Seq(Slave) /\ Reached \in 0..NSlave
  BY Travels, Paths
<1>2. /\ done' \in [Slave -> Nat]
      /\ f.dummy \/ ~Own(f) => done' = done
      /\ ~f.dummy /\ Own(f) => \A s \in Slave : done'[s] = done[s] + Count(Path(f), s)
  BY <1>1, Executions
<1>3. \A s \in Slave : done[s] = IF s <= n THEN 1 ELSE 0
  BY DEF DoneUpto
<1>4. f.dummy \/ ~Own(f) => DoneUpto(n)'
  BY <1>2 DEF DoneUpto
<1>5. ASSUME ~f.dummy, Own(f), n = 0, Path(f) = Upto(Reached) PROVE DoneUpto(Reached)'
  <2>1. Reached' = Reached
    BY DEF Reached, Travel
  <2>2. \A s \in Slave : done'[s] = IF s <= Reached THEN 1 ELSE 0
    <3>1. ASSUME NEW s \in Slave PROVE done'[s] = IF s <= Reached THEN 1 ELSE 0
      <4>1. done'[s] = done[s] + Count(Upto(Reached), s)
        BY <1>2, <1>5
      <4>2. Count(Upto(Reached), s) = IF s <= Reached THEN 1 ELSE 0
        BY <1>1, Counts
      <4>3. done[s] = 0
        BY <1>3, <1>5 DEF Slave
      <4>4. QED
        BY <4>1, <4>2, <4>3
    <3>2. QED
      BY <3>1
  <2>3. QED
    BY <1>2, <2>1, <2>2 DEF DoneUpto
<1>6. ASSUME ~f.dummy, Own(f), Path(f) = Beyond(n) PROVE DoneUpto(NSlave)'
  <2>1. \A s \in Slave : done'[s] = IF s <= NSlave THEN 1 ELSE 0
    <3>1. ASSUME NEW s \in Slave PROVE done'[s] = IF s <= NSlave THEN 1 ELSE 0
      <4>1. done'[s] = done[s] + Count(Beyond(n), s)
        BY <1>2, <1>6
      <4>2. Count(Beyond(n), s) = IF s <= n THEN 0 ELSE 1
        BY Counts
      <4>3. done[s] = IF s <= n THEN 1 ELSE 0
        BY <1>3
      <4>4. s <= NSlave
        BY RedConstants DEF Slave
      <4>5. QED
        BY <4>1, <4>2, <4>3, <4>4
    <3>2. QED
      BY <3>1
  <2>2. QED
    BY <1>2, <2>1 DEF DoneUpto
<1>7. QED
  BY <1>4, <1>5, <1>6

(* A frame in flight: it travels, another one does, it or a frame left     *)
(* behind is read.                                                         *)
LEMMA FlightTravels ==
  ASSUME TypeOK, NEW f \in wire, Travel(f), NEW h \in Frame, NEW g \in Frame, NEW c \in Card,
         g.idx = idx, Flight(h, g, c),
         f = h => Passed(f) = g /\ c \in Arrival(f),
         f # h /\ c \in Arrival(f) => ~Own(f)
  PROVE  Flight(h, g, c)'
<1>1. /\ f \in Frame /\ Passed(f) \in Frame /\ wire' = wire \ {f}
      /\ sock'[c] = IF c \in Arrival(f) THEN Append(sock[c], Passed(f)) ELSE sock[c]
      /\ sock[c] \in Seq(Frame) /\ Passed(f).idx = f.idx
  BY Travels, PassedIs
<1>2. UNCHANGED <<idx, rxbuf, rxsa, wkc>> /\ (Got(c)' <=> Got(c))
  BY DEF Travel, callVars, recvVars, Got
<1>3. CASE f = h
  <2>1. sock'[c] = Append(sock[c], g) /\ f \notin wire'
    BY <1>1, <1>3
  <2>2. NoneOf(sock[c], idx) /\ ~Got(c)
    BY <1>3 DEF Flight
  <2>3. Sole(Append(sock[c], g), idx, g)
    BY <1>1, <2>2, NoneIn
  <2>4. QED
    BY <1>2, <1>3, <2>1, <2>2, <2>3 DEF Flight
<1>4. CASE f # h
  <2>1. h \in wire' <=> h \in wire
    BY <1>1, <1>4
  <2>2. /\ NoneOf(sock[c], idx) => NoneOf(sock'[c], idx)
        /\ Sole(sock[c], idx, g) => Sole(sock'[c], idx, g)
    <3>1. CASE c \in Arrival(f)
      <4>1. sock'[c] = Append(sock[c], Passed(f)) /\ Passed(f).idx # idx
        BY <1>1, <1>4, <3>1 DEF Own
      <4>2. NoneOf(sock[c], idx) => NoneOf(Append(sock[c], Passed(f)), idx)
        BY <1>1, <4>1, NoneIn
      <4>3. Sole(sock[c], idx, g) => Sole(Append(sock[c], Passed(f)), idx, g)
        BY <1>1, <4>1, SoleIn
      <4>4. QED
        BY <4>1, <4>2, <4>3
    <3>2. CASE c \notin Arrival(f)
      BY <1>1, <3>2
    <3>3. QED
      BY <3>1, <3>2
  <2>3. QED
    BY <1>2, <2>1, <2>2 DEF Flight
<1>5. QED
  BY <1>3, <1>4

LEMMA SilentTravels ==
  ASSUME TypeOK, NEW f \in wire, Travel(f), NEW c \in Card, NoneOf(sock[c], idx),
         c \in Arrival(f) => ~Own(f)
  PROVE  NoneOf(sock'[c], idx)
<1>1. /\ Passed(f) \in Frame /\ Passed(f).idx = f.idx
      /\ sock'[c] = IF c \in Arrival(f) THEN Append(sock[c], Passed(f)) ELSE sock[c]
      /\ sock[c] \in Seq(Frame)
  BY Travels, PassedIs
<1>2. CASE c \in Arrival(f)
  <2>1. NoneOf(Append(sock[c], Passed(f)), idx)
    BY <1>1, <1>2, NoneIn DEF Own
  <2>2. QED
    BY <1>1, <1>2, <2>1
<1>3. CASE c \notin Arrival(f)
  BY <1>1, <1>3
<1>4. QED
  BY <1>2, <1>3

LEMMA FlightRead ==
  ASSUME TypeOK, NEW d \in Card, Inframe(d), ~Got(d), NEW h \in Frame, NEW g \in Frame,
         NEW c \in Card, g.idx = idx, Flight(h, g, c)
  PROVE  /\ Flight(h, g, c)'
         /\ d = c /\ Own(Head(sock[c])) => Got(c)'
<1>1. UNCHANGED <<wire, idx>>
  BY DEF Inframe, callVars
<1>2. CASE d # c
  <2>1. sock'[c] = sock[c] /\ rxbuf'[c] = rxbuf[c] /\ rxsa'[c] = rxsa[c] /\ wkc'[c] = wkc[c]
    BY <1>2, Reads
  <2>2. QED
    BY <1>1, <1>2, <2>1 DEF Flight, Got
<1>3. CASE d = c
  <2>1. PICK q \in Seq(Frame) : q = sock[c] /\ q # <<>> /\ sock'[c] = Tail(q)
    BY <1>3, Reads
  <2>2. CASE Head(q).idx = idx
    <3>0. ~NoneOf(q, idx)
      BY <2>1, <2>2, NoneIn
    <3>1. Sole(q, idx, g) /\ h \notin wire
      BY <1>3, <2>1, <3>0 DEF Flight
    <3>2. Head(q) = g /\ NoneOf(Tail(q), idx) /\ h \notin wire
      BY <2>2, <3>1, SoleIn
    <3>3. /\ rxbuf' = [rxbuf EXCEPT ![c] = g] /\ rxsa' = [rxsa EXCEPT ![c] = g.sa]
          /\ wkc' = [wkc EXCEPT ![c] = Len(g.by)] /\ Len(g.by) \in Nat
      BY <1>3, <2>1, <2>2, <3>2, Reads DEF Own
    <3>4. rxbuf'[c] = g /\ rxsa'[c] = g.sa /\ wkc'[c] = Len(g.by) /\ Got(c)'
      BY <3>3 DEF TypeOK, Got, NOFRAME
    <3>5. QED
      BY <1>1, <2>1, <3>2, <3>4 DEF Flight
  <2>3. CASE Head(q).idx # idx
    <3>1. rxbuf' = rxbuf /\ rxsa' = rxsa /\ wkc' = wkc
      BY <1>3, <2>1, <2>3, Reads DEF Own, recvVars
    <3>2. NoneOf(q, idx) => NoneOf(Tail(q), idx)
      BY <2>1, NoneIn
    <3>3. Sole(q, idx, g) => Sole(Tail(q), idx, g)
      BY <2>1, <2>3, SoleIn
    <3>4. QED
      BY <1>1, <1>3, <2>1, <2>3, <3>1, <3>2, <3>3 DEF Flight, Got, Own
  <2>4. QED
    BY <2>2, <2>3
<1>4. QED
  BY <1>2, <1>3

LEMMA SilentRead ==
  ASSUME TypeOK, NEW d \in Card, Inframe(d), NEW c \in Card, NoneOf(sock[c], idx)
  PROVE  /\ NoneOf(sock'[c], idx) /\ wkc'[c] = wkc[c] /\ rxbuf'[c] = rxbuf[c]
         /\ rxsa'[c] = rxsa[c]
<1>1. CASE d # c
  BY <1>1, Reads
<1>2. CASE d = c
  <2>1. PICK q \in Seq(Frame) : q = sock[c] /\ q # <<>> /\ sock'[c] = Tail(q)
    BY <1>2, Reads
  <2>2. Head(q).idx # idx /\ NoneOf(Tail(q), idx)
    BY <2>1, NoneIn
  <2>3. QED
    BY <1>2, <2>1, <2>2, Reads DEF Own, recvVars
<1>3. QED
  BY <1>1, <1>2

(* Both frames are back, or are not heard of.                              *)
LEMMA FlightOver ==
  ASSUME NEW c \in Card, Got(c) \/ (wire = {} /\ sock[c] = <<>>)
  PROVE  \A f, g : Flight(f, g, c) =>
           /\ f \notin wire /\ NoneOf(sock[c], idx) /\ Got(c)
           /\ rxbuf[c] = g /\ rxsa[c] = g.sa /\ wkc[c] = Len(g.by)
<1>1. ASSUME NEW f, NEW g, Sole(sock[c], idx, g), sock[c] = <<>> PROVE FALSE
  BY <1>1 DEF Sole
<1>2. QED
  BY <1>1 DEF Flight

LEMMA Journeys ==
  ASSUME TypeOK
  PROVE  /\ ByRequest \in Frame /\ ByRequest.idx = idx /\ ByRequest.sa = "prim"
         /\ ByRequest.by = Upto(Reached) /\ Len(ByRequest.by) = Reached
         /\ ByDummy \in Frame /\ ByDummy.idx = idx /\ ByDummy.sa = "sec"
         /\ Request # Dummy /\ Reached \in 0..NSlave
         /\ \A f \in wire : f = Request => Passed(f) = ByRequest
         /\ \A f \in wire : f = Dummy => Passed(f) = ByDummy
         /\ cut # Whole => /\ cut \in 0..NSlave /\ Reached = cut
                           /\ Again \in Frame /\ ByAgain \in Frame /\ ByAgain.idx = idx
                           /\ ByAgain.by = Everyone /\ ByAgain.sa = "prim"
                           /\ \A f \in wire : f = Again => Passed(f) = ByAgain
<1>1. /\ Request \in Frame /\ Dummy \in Frame /\ (cut # Whole => Again \in Frame)
  BY SentFrames
<1>2. Reached \in 0..NSlave /\ (cut # Whole => cut \in 0..NSlave /\ Reached = cut)
  BY Paths DEF TypeOK, Cable, Reached
<1>3. Upto(Reached) \in Seq(Slave) /\ Len(Upto(Reached)) = Reached
  BY <1>2, Uptos
<1>4. cut # Whole => Beyond(cut) \in Seq(Slave)
  BY <1>2, Beyonds
<1>5. <<>> \in Seq(Slave) /\ Everyone \in Seq(Slave)
  BY EmptySeq, Lines
<1>6. /\ ByRequest \in Frame /\ ByRequest.idx = idx /\ ByRequest.sa = "prim"
      /\ ByRequest.by = Upto(Reached)
  BY <1>1, <1>3 DEF ByRequest, Request, Frame
<1>7. ByDummy \in Frame /\ ByDummy.idx = idx /\ ByDummy.sa = "sec"
  BY <1>1, <1>4, <1>5 DEF ByDummy, Dummy, Frame
<1>8. Request # Dummy
  BY DEF Request, Dummy
<1>9. ASSUME NEW f \in wire, f = Request PROVE Passed(f) = ByRequest
  <2>1. f.by \o Path(f) = Upto(Reached)
    BY <1>1, <1>3, <1>9, Paths, ConcatEmptySeq DEF Request
  <2>2. QED
    BY <1>9, <2>1 DEF Passed, ByRequest
<1>10. ASSUME NEW f \in wire, f = Dummy PROVE Passed(f) = ByDummy
  <2>1. f.from # "prim" /\ f.by = <<>>
    BY <1>10 DEF Dummy
  <2>2. Path(f) = IF cut = Whole THEN <<>> ELSE Beyond(cut)
    BY <2>1, Paths
  <2>3. f.by \o Path(f) = Path(f)
    BY <2>1, Paths, ConcatEmptySeq
  <2>4. QED
    BY <1>10, <2>2, <2>3 DEF Passed, ByDummy
<1>11. ASSUME cut # Whole
       PROVE  /\ ByAgain \in Frame /\ ByAgain.idx = idx /\ ByAgain.by = Everyone
              /\ ByAgain.sa = "prim"
              /\ \A f \in wire : f = Again => Passed(f) = ByAgain
  <2>1. ByAgain \in Frame /\ ByAgain.idx = idx /\ ByAgain.by = Everyone /\ ByAgain.sa = "prim"
    BY <1>1, <1>5, <1>11 DEF ByAgain, Again, Frame
  <2>2. ASSUME NEW f \in wire, f = Again PROVE Passed(f) = ByAgain
    <3>1. f.from # "prim" /\ f.by = Upto(cut)
      BY <2>2 DEF Again
    <3>2. Path(f) = Beyond(cut)
      BY <1>11, <3>1, Paths
    <3>3. f.by \o Path(f) = Everyone
      BY <1>2, <1>11, <3>1, <3>2, Lines
    <3>4. QED
      BY <2>2, <3>3 DEF Passed, ByAgain
  <2>3. QED
    BY <2>1, <2>2
<1>12. QED
  BY <1>1, <1>2, <1>3, <1>6, <1>7, <1>8, <1>9, <1>10, <1>11

LEMMA SteadyTravels ==
  ASSUME TypeOK, SteadyCall, NEW f \in wire, Travel(f)
  PROVE  SteadyCall'
<1>1. /\ UNCHANGED <<pc, try, idx, txbuf, rxbuf, rxsa, wkc, cut>> /\ wire' = wire \ {f}
      /\ f \in Frame /\ Passed(f) \in Frame
      /\ UNCHANGED <<FirstAttempt, Reached, Request, Dummy, Again, ByRequest, ByDummy, ByAgain>>
      /\ \A c \in Card : Got(c)' <=> Got(c)
  BY Travels DEF Travel, callVars, recvVars, FirstAttempt, Reached, Request, Dummy, Again,
     ByRequest, ByDummy, ByAgain, Got
<1>2. /\ 0 \in 0..NSlave /\ NSlave \in 0..NSlave /\ Card = {"prim", "sec"}
      /\ NSlave \in Nat \ {0}
  BY RedConstants DEF Card
<1>3. NoOwn => NoOwn'
  BY <1>1 DEF NoOwn, Own
<1>4. ASSUME NEW c \in Card, NoneOf(sock[c], idx), NoOwn PROVE NoneOf(sock[c], idx)'
  BY <1>1, <1>4, SilentTravels DEF NoOwn
<1>5. ASSUME NEW n \in 0..NSlave, DoneUpto(n), ~Own(f) \/ f.dummy PROVE DoneUpto(n)'
  BY <1>5, ExecutedBy
<1>6. ASSUME pc = "send" PROVE NoOwn' /\ DoneUpto(0)' /\ \A c \in Card : NoneOf(sock[c], idx)'
  BY <1>2, <1>3, <1>4, <1>5, <1>6 DEF SteadyCall, NoOwn
<1>7. ASSUME pc = "decide" PROVE NoOwn' /\ \A c \in Card : Got(c)' \/ NoneOf(sock[c], idx)'
  BY <1>1, <1>3, <1>4, <1>7 DEF SteadyCall
<1>8. ASSUME Finished PROVE Finished'
  BY <1>1, <1>2, <1>3, <1>5, <1>8 DEF Finished, NoOwn
<1>9. ASSUME Resending PROVE Resending'
  <2>1. /\ cut # Whole /\ cut # NSlave /\ (Own(f) => f = Again) /\ cut \in 0..NSlave
        /\ Again \in Frame /\ ByAgain \in Frame /\ ByAgain.idx = idx
        /\ (f = Again => Passed(f) = ByAgain)
    BY <1>9, Journeys DEF Resending
  <2>2. f = Again => "sec" \in Arrival(f) /\ ~f.dummy /\ Own(f) /\ f.from # "prim"
    BY <2>1 DEF Arrival, Again, CableOf, Own
  <2>3. Flight(Again, ByAgain, "sec")'
    <3>1. PICK h \in Frame, g \in Frame : h = Again /\ g = ByAgain
      BY <2>1
    <3>2. Flight(h, g, "sec")
      BY <1>9, <3>1 DEF Resending
    <3>3. Flight(h, g, "sec")'
      BY <1>2, <2>1, <2>2, <3>1, <3>2, FlightTravels
    <3>4. QED
      BY <1>1, <3>1, <3>3 DEF Flight
  <2>4. DoneUpto(IF Again \in wire THEN cut ELSE NSlave)'
    <3>1. CASE f = Again
      <4>1. DoneUpto(cut) /\ Path(f) = Beyond(cut)
        BY <1>9, <2>1, <2>2, <3>1, Paths DEF Resending
      <4>2. DoneUpto(NSlave)'
        BY <2>1, <2>2, <3>1, <4>1, ExecutedBy
      <4>3. Again \notin wire' /\ Again' = Again
        BY <1>1, <3>1
      <4>4. QED
        BY <4>2, <4>3 DEF DoneUpto
    <3>2. CASE f # Again
      <4>1. (Again' \in wire' <=> Again \in wire) /\ ~Own(f)
        BY <1>1, <2>1, <3>2
      <4>2. CASE Again \in wire
        <5>1. PICK n \in 0..NSlave : n = cut
          BY <2>1
        <5>2. DoneUpto(n)
          BY <1>9, <4>2, <5>1 DEF Resending
        <5>3. DoneUpto(n)'
          BY <1>5, <4>1, <5>2
        <5>4. QED
          BY <1>1, <4>1, <4>2, <5>1, <5>3 DEF DoneUpto
      <4>3. CASE Again \notin wire
        <5>1. DoneUpto(NSlave)'
          BY <1>2, <1>5, <1>9, <4>1, <4>3 DEF Resending
        <5>2. QED
          BY <4>1, <4>3, <5>1 DEF DoneUpto
      <4>4. QED
        BY <4>2, <4>3
    <3>3. QED
      BY <3>1, <3>2
  <2>5. QED
    BY <1>1, <1>9, <2>3, <2>4 DEF Resending, Own
<1>10. ASSUME Outbound PROVE Outbound'
  <2>1. /\ (Own(f) => f \in {Request, Dummy}) /\ Request # Dummy /\ Reached \in 0..NSlave
        /\ ByRequest \in Frame /\ ByRequest.idx = idx /\ ByDummy \in Frame /\ ByDummy.idx = idx
        /\ (f = Request => Passed(f) = ByRequest) /\ (f = Dummy => Passed(f) = ByDummy)
        /\ (cut # Whole => cut \in 0..NSlave)
    BY <1>10, Journeys DEF Outbound
  <2>2. PICK r \in Frame, d \in Frame : r = Request /\ d = Dummy
    BY SentFrames
  <2>3. PICK p \in Frame, q \in Frame : p = ByRequest /\ q = ByDummy
    BY <2>1
  <2>4. /\ r.from = "prim" /\ ~r.dummy /\ r.idx = idx /\ d.from = "sec" /\ d.dummy
        /\ d.idx = idx
    BY <2>2 DEF Request, Dummy
  <2>5. /\ (cut = Whole => Arrival(r) = {"sec"} /\ Arrival(d) = {"prim"})
        /\ (cut # Whole /\ cut # 0 => Arrival(r) = {"prim"})
        /\ (cut # Whole /\ cut # NSlave => Arrival(d) = {"sec"})
        /\ (cut # Whole /\ cut = 0 => Arrival(r) = {})
        /\ (cut # Whole /\ cut = NSlave => Arrival(d) = {})
    BY <1>2, <2>4 DEF Arrival, Other, CableOf
  <2>6. f = r \/ f = d \/ ~Own(f)
    BY <2>1, <2>2
  <2>7. r # d /\ (f = r => Passed(f) = p) /\ (f = d => Passed(f) = q)
    BY <2>1, <2>2, <2>3
  <2>8. ASSUME cut = Whole PROVE Flight(r, p, "sec")' /\ Flight(d, q, "prim")'
    <3>1. Flight(r, p, "sec") /\ Flight(d, q, "prim")
      BY <1>10, <2>2, <2>3, <2>8 DEF Outbound
    <3>2. Flight(r, p, "sec")'
      <4>1. /\ (f = r => Passed(f) = p /\ "sec" \in Arrival(f))
            /\ (f # r /\ "sec" \in Arrival(f) => ~Own(f))
        BY <2>5, <2>6, <2>7, <2>8
      <4>2. QED
        BY <1>2, <2>1, <2>3, <3>1, <4>1, FlightTravels
    <3>3. Flight(d, q, "prim")'
      <4>1. /\ (f = d => Passed(f) = q /\ "prim" \in Arrival(f))
            /\ (f # d /\ "prim" \in Arrival(f) => ~Own(f))
        BY <2>5, <2>6, <2>7, <2>8
      <4>2. QED
        BY <1>2, <2>1, <2>3, <3>1, <4>1, FlightTravels
    <3>4. QED
      BY <3>2, <3>3
  <2>9. ASSUME cut # Whole, cut # 0 PROVE Flight(r, p, "prim")'
    <3>1. Flight(r, p, "prim")
      BY <1>10, <2>2, <2>3, <2>9 DEF Outbound
    <3>2. /\ (f = r => Passed(f) = p /\ "prim" \in Arrival(f))
          /\ (f # r /\ "prim" \in Arrival(f) => ~Own(f))
      BY <2>5, <2>6, <2>7, <2>9
    <3>3. QED
      BY <1>2, <2>1, <2>3, <3>1, <3>2, FlightTravels
  <2>10. ASSUME cut # Whole, cut # NSlave PROVE Flight(d, q, "sec")'
    <3>1. Flight(d, q, "sec")
      BY <1>10, <2>2, <2>3, <2>10 DEF Outbound
    <3>2. /\ (f = d => Passed(f) = q /\ "sec" \in Arrival(f))
          /\ (f # d /\ "sec" \in Arrival(f) => ~Own(f))
      BY <2>5, <2>6, <2>7, <2>10
    <3>3. QED
      BY <1>2, <2>1, <2>3, <3>1, <3>2, FlightTravels
  <2>11. ASSUME cut # Whole, cut = 0 PROVE Silent("prim")'
    <3>1. Silent("prim")
      BY <1>10, <2>11 DEF Outbound
    <3>2. "prim" \in Arrival(f) => ~Own(f)
      BY <1>2, <2>5, <2>6, <2>11
    <3>3. NoneOf(sock'["prim"], idx)
      BY <1>2, <3>1, <3>2, SilentTravels DEF Silent
    <3>4. QED
      BY <1>1, <1>2, <3>1, <3>3 DEF Silent
  <2>12. ASSUME cut # Whole, cut = NSlave PROVE Silent("sec")'
    <3>1. Silent("sec")
      BY <1>10, <2>12 DEF Outbound
    <3>2. "sec" \in Arrival(f) => ~Own(f)
      BY <1>2, <2>5, <2>6, <2>12
    <3>3. NoneOf(sock'["sec"], idx)
      BY <1>2, <3>1, <3>2, SilentTravels DEF Silent
    <3>4. QED
      BY <1>1, <1>2, <3>1, <3>3 DEF Silent
  <2>13. DoneUpto(IF Request \in wire THEN 0 ELSE Reached)'
    <3>1. CASE f = r
      <4>1. DoneUpto(0) /\ Path(f) = Upto(Reached) /\ ~f.dummy /\ Own(f)
        BY <1>10, <2>2, <2>4, <3>1, Paths DEF Outbound, Own
      <4>2. DoneUpto(Reached)'
        BY <1>2, <4>1, ExecutedBy
      <4>3. Request' \notin wire'
        BY <1>1, <2>2, <3>1
      <4>4. QED
        BY <4>2, <4>3 DEF DoneUpto
    <3>2. CASE f # r
      <4>1. (Request' \in wire' <=> Request \in wire) /\ (~Own(f) \/ f.dummy)
        BY <1>1, <2>2, <2>4, <2>6, <3>2
      <4>2. CASE Request \in wire
        <5>1. DoneUpto(0)'
          BY <1>2, <1>5, <1>10, <4>1, <4>2 DEF Outbound
        <5>2. QED
          BY <4>1, <4>2, <5>1 DEF DoneUpto
      <4>3. CASE Request \notin wire
        <5>1. PICK n \in 0..NSlave : n = Reached
          BY <2>1
        <5>2. DoneUpto(n)
          BY <1>10, <4>3, <5>1 DEF Outbound
        <5>3. DoneUpto(n)'
          BY <1>5, <4>1, <5>2
        <5>4. QED
          BY <1>1, <4>1, <4>3, <5>1, <5>3 DEF DoneUpto
      <4>4. QED
        BY <4>2, <4>3
    <3>3. QED
      BY <3>1, <3>2
  <2>14. /\ \A g \in wire' : Own(g)' => g \in {Request', Dummy'}
         /\ \A c \in Card : ~Got(c)' => rxsa'[c] = "none"
    BY <1>1, <1>10 DEF Outbound, Own
  <2>15. /\ r = Request' /\ d = Dummy' /\ p = ByRequest' /\ q = ByDummy' /\ cut' = cut
    BY <1>1, <2>2, <2>3
  <2>16. /\ cut' = Whole => Flight(Request, ByRequest, "sec")' /\ Flight(Dummy, ByDummy, "prim")'
         /\ cut' # Whole => IF cut' = 0 THEN Silent("prim")' ELSE Flight(Request, ByRequest, "prim")'
         /\ cut' # Whole => IF cut' = NSlave THEN Silent("sec")' ELSE Flight(Dummy, ByDummy, "sec")'
    BY <2>8, <2>9, <2>10, <2>11, <2>12, <2>15 DEF Flight
  <2>17. QED
    BY <2>13, <2>14, <2>16 DEF Outbound
<1>11. QED
  BY <1>1, <1>6, <1>7, <1>8, <1>9, <1>10 DEF SteadyCall

LEMMA StepSteady ==
  ASSUME TypeOK, LeftOK, steady => SteadyCall, [Next]_vars, steady'
  PROVE  SteadyCall'
<1>0. /\ 0 \in 0..NSlave /\ NSlave \in 0..NSlave /\ Card = {"prim", "sec"}
      /\ NSlave \in Nat \ {0}
  BY RedConstants DEF Card
<1>1. CASE Call
  <2>1. /\ NoOwn' /\ \A c \in Card : NoneOf(sock[c], idx)'
        /\ pc' = "send" /\ try' = 0 /\ txbuf' = <<>>
    BY <1>1, CallBegins DEF NoOwn
  <2>2. DoneUpto(0)'
    BY <1>1 DEF Call, DoneUpto, Slave
  <2>3. QED
    BY <2>1, <2>2 DEF SteadyCall, FirstAttempt
<1>2. CASE OutframeRed
  <2>1. /\ pc = "send" /\ pc' = "wait" /\ SteadyCall /\ try' = try + 1
        /\ UNCHANGED <<cut, sock, idx, txbuf, rxbuf, done, Reached, Request, Dummy, ByRequest,
                       ByDummy>>
    BY <1>2 DEF OutframeRed, callVars, histVars, Reached, Request, Dummy, ByRequest, ByDummy
  <2>2. /\ txbuf = <<>> /\ NoOwn /\ DoneUpto(0) /\ \A c \in Card : NoneOf(sock[c], idx)
        /\ try = 0
    BY <2>1 DEF SteadyCall, FirstAttempt
  <2>3. wire' = wire \cup {Request, Dummy}
    BY <1>2, <2>2 DEF OutframeRed, Request, Dummy
  <2>4. /\ \A f \in wire' : Own(f)' => f \in {Request', Dummy'}
    BY <2>1, <2>2, <2>3 DEF NoOwn, Own
  <2>5. \A c \in Card : ~Got(c)' /\ rxsa'[c] = "none" /\ NoneOf(sock'[c], idx')
    BY <1>2, <2>1, <2>2 DEF OutframeRed, NothingReceived, Got, NOFRAME
  <2>6. /\ DoneUpto(IF Request \in wire THEN 0 ELSE Reached)'
    BY <2>1, <2>2, <2>3 DEF DoneUpto
  <2>7. /\ Flight(Request, ByRequest, "sec")' /\ Flight(Request, ByRequest, "prim")'
        /\ Flight(Dummy, ByDummy, "sec")' /\ Flight(Dummy, ByDummy, "prim")'
        /\ Silent("prim")' /\ Silent("sec")'
    BY <1>0, <2>1, <2>3, <2>5 DEF Flight, Silent
  <2>8. Outbound'
    BY <2>4, <2>5, <2>6, <2>7 DEF Outbound
  <2>9. QED
    BY <2>1, <2>2, <2>8 DEF SteadyCall, FirstAttempt
<1>3. ASSUME NEW e \in Card, WaitBoth(e) PROVE SteadyCall'
  <2>1. /\ pc = "wait" /\ pc' = pc /\ Inframe(e) /\ ~Got(e)
        /\ UNCHANGED <<cut, wire, try, idx, txbuf, done, steady>>
    <3>1. pc = "wait" /\ pc' = pc /\ Inframe(e) /\ wkc[e] <= NOFRAME /\ wkc[e] \in Int
      BY <1>3 DEF WaitBoth, TypeOK
    <3>2. UNCHANGED <<cut, wire, try, idx, txbuf, done, steady>>
      BY <3>1 DEF Inframe, callVars, histVars
    <3>3. ~Got(e)
      BY <3>1 DEF Got, NOFRAME
    <3>4. QED
      BY <3>1, <3>2, <3>3
  <2>2. /\ Outbound /\ txbuf = <<>> /\ FirstAttempt
    BY <2>1 DEF SteadyCall
  <2>3. UNCHANGED <<Reached, Request, Dummy, ByRequest, ByDummy, FirstAttempt>>
    BY <2>1 DEF Reached, Request, Dummy, ByRequest, ByDummy, FirstAttempt
  <2>4. PICK r \in Frame, d \in Frame, p \in Frame, q \in Frame :
          r = Request /\ d = Dummy /\ p = ByRequest /\ q = ByDummy
    BY SentFrames, Journeys
  <2>5. p.idx = idx /\ q.idx = idx
    BY <2>4, Journeys
  <2>6. \A c \in Card : /\ Flight(r, p, c) => Flight(r, p, c)'
                        /\ Flight(d, q, c) => Flight(d, q, c)'
    BY <2>1, <2>5, FlightRead
  <2>7. \A c \in Card : Silent(c) => Silent(c)'
    BY <2>1, SilentRead DEF Silent, Got
  <2>8. \A c \in Card : ~Got(c)' => rxsa'[c] = "none"
    <3>1. ASSUME NEW c \in Card, ~Got(c)' PROVE rxsa'[c] = rxsa[c] /\ ~Got(c)
      <4>1. CASE c # e \/ ~Own(Head(sock[e]))
        <5>1. rxsa'[c] = rxsa[c] /\ wkc'[c] = wkc[c]
          BY <2>1, <4>1, Reads DEF recvVars
        <5>2. QED
          BY <3>1, <5>1 DEF Got
      <4>2. CASE c = e /\ Own(Head(sock[e]))
        <5>1. wkc' = [wkc EXCEPT ![e] = Len(Head(sock[e]).by)] /\ Len(Head(sock[e]).by) \in Nat
          BY <2>1, <4>2, Reads
        <5>2. QED
          BY <3>1, <4>2, <5>1 DEF TypeOK, Got, NOFRAME
      <4>3. QED
        BY <4>1, <4>2
    <3>2. QED
      BY <2>2, <3>1 DEF Outbound
  <2>9. /\ cut = Whole => Flight(r, p, "sec") /\ Flight(d, q, "prim")
        /\ cut # Whole => IF cut = 0 THEN Silent("prim") ELSE Flight(r, p, "prim")
        /\ cut # Whole => IF cut = NSlave THEN Silent("sec") ELSE Flight(d, q, "sec")
    BY <2>2, <2>4 DEF Outbound
  <2>10. /\ cut = Whole => Flight(r, p, "sec")' /\ Flight(d, q, "prim")'
         /\ cut # Whole => IF cut = 0 THEN Silent("prim")' ELSE Flight(r, p, "prim")'
         /\ cut # Whole => IF cut = NSlave THEN Silent("sec")' ELSE Flight(d, q, "sec")'
    BY <1>0, <2>6, <2>7, <2>9
  <2>11. /\ cut' = Whole => Flight(Request, ByRequest, "sec")' /\ Flight(Dummy, ByDummy, "prim")'
         /\ cut' # Whole => IF cut' = 0 THEN Silent("prim")' ELSE Flight(Request, ByRequest, "prim")'
         /\ cut' # Whole => IF cut' = NSlave THEN Silent("sec")' ELSE Flight(Dummy, ByDummy, "sec")'
    BY <2>1, <2>3, <2>4, <2>10 DEF Flight
  <2>12. /\ \A f \in wire' : Own(f)' => f \in {Request', Dummy'}
         /\ DoneUpto(IF Request \in wire THEN 0 ELSE Reached)'
    BY <2>1, <2>2, <2>3 DEF Outbound, Own, DoneUpto
  <2>13. Outbound'
    BY <2>8, <2>11, <2>12 DEF Outbound
  <2>14. QED
    BY <2>1, <2>2, <2>3, <2>13 DEF SteadyCall
<1>4. CASE WaitOver
  <2>1. /\ pc = "wait" /\ pc' = "decide"
        /\ UNCHANGED <<cut, wire, sock, try, idx, txbuf, rxbuf, rxsa, wkc, done, steady>>
    BY <1>4 DEF WaitOver, netVars, callVars, recvVars, histVars
  <2>2. SteadyCall /\ Outbound /\ FirstAttempt /\ txbuf = <<>>
    BY <2>1 DEF SteadyCall
  <2>3. \A c \in Card : Got(c) \/ (wire = {} /\ sock[c] = <<>>)
    BY <1>4 DEF WaitOver, Got, Expired, TypeOK, NOFRAME
  <2>4. \A c \in Card : \A f, g : Flight(f, g, c) => f \notin wire /\ NoneOf(sock[c], idx)
    BY <2>3, FlightOver
  <2>5. \A c \in Card : NoneOf(sock[c], idx)
    BY <1>0, <2>2, <2>4 DEF Outbound, Silent
  <2>6. Request \notin wire /\ Dummy \notin wire
    <3>1. CASE cut = Whole
      BY <1>0, <2>2, <2>4, <3>1 DEF Outbound
    <3>2. CASE cut = 0
      <4>1. ~Got("prim") /\ wire = {}
        BY <1>0, <2>2, <2>3, <3>2 DEF Outbound, Silent, Whole
      <4>2. QED
        BY <4>1
    <3>3. CASE cut = NSlave
      <4>1. ~Got("sec") /\ wire = {}
        BY <1>0, <2>2, <2>3, <3>3 DEF Outbound, Silent, Whole
      <4>2. QED
        BY <4>1
    <3>4. CASE cut # Whole /\ cut # 0 /\ cut # NSlave
      BY <1>0, <2>2, <2>4, <3>4 DEF Outbound
    <3>5. QED
      BY <3>1, <3>2, <3>3, <3>4
  <2>7. NoOwn
    BY <2>2, <2>6 DEF Outbound, NoOwn
  <2>8. UNCHANGED <<Outbound, NoOwn, Reached, Request, Dummy, ByRequest, ByDummy>>
        /\ \A c \in Card : NoneOf(sock[c], idx)'
    BY <2>1, <2>5 DEF Outbound, NoOwn, Own, Reached, Request, Dummy, ByRequest, ByDummy, Flight, Silent,
      Got, DoneUpto
  <2>9. FirstAttempt'
    BY <2>1, <2>2 DEF FirstAttempt
  <2>10. QED
    BY <2>1, <2>2, <2>7, <2>8, <2>9 DEF SteadyCall
<1>5. ASSUME pc = "decide", SteadyCall
      PROVE  /\ cut = Whole => /\ rxsa["sec"] = "prim" /\ rxsa["prim"] = "sec" /\ Got("sec")
                               /\ rxbuf["sec"].by = Everyone /\ wkc["sec"] = NSlave
             /\ cut # Whole /\ cut # NSlave => rxsa["sec"] = "sec"
             /\ cut = NSlave => /\ rxsa["sec"] = "none"
                                /\ rxbuf["prim"].by = Everyone /\ wkc["prim"] = NSlave
             /\ cut # Whole /\ cut # 0 => rxsa["prim"] = "prim" /\ rxbuf["prim"].by = Upto(cut)
             /\ cut = 0 => rxsa["prim"] = "none"
             /\ NoOwn /\ DoneUpto(Reached) /\ \A c \in Card : NoneOf(sock[c], idx)
             /\ FirstAttempt /\ txbuf = <<>>
  <2>1. Outbound /\ NoOwn /\ FirstAttempt /\ txbuf = <<>>
    BY <1>5 DEF SteadyCall
  <2>2. Request \notin wire /\ Dummy \notin wire
    BY <2>1 DEF NoOwn, Own, Request, Dummy
  <2>3. \A c \in Card : Got(c) \/ NoneOf(sock[c], idx)
    BY <1>5 DEF SteadyCall
  <2>4. ASSUME NEW c \in Card, NEW f, f \notin wire, NEW g, g.idx = idx, Flight(f, g, c)
        PROVE  /\ Got(c) /\ NoneOf(sock[c], idx)
               /\ rxbuf[c] = g /\ rxsa[c] = g.sa /\ wkc[c] = Len(g.by)
    <3>1. ASSUME Sole(sock[c], idx, g), NoneOf(sock[c], idx), g.idx = idx PROVE FALSE
      BY <3>1 DEF Sole, NoneOf
    <3>2. QED
      BY <2>3, <2>4, <3>1 DEF Flight
  <2>5. /\ ByRequest.idx = idx /\ ByDummy.idx = idx /\ ByRequest.sa = "prim"
        /\ ByDummy.sa = "sec" /\ ByRequest.by = Upto(Reached) /\ Len(ByRequest.by) = Reached
        /\ (cut # Whole => cut \in 0..NSlave /\ Reached = cut)
        /\ (cut = Whole => Reached = NSlave)
    BY Journeys DEF Reached
  <2>6. DoneUpto(Reached) /\ \A c \in Card : ~Got(c) => rxsa[c] = "none"
    BY <2>1, <2>2 DEF Outbound
  <2>7. Everyone = Upto(NSlave) /\ Whole # 0 /\ Whole # NSlave
    BY <1>0, Lines DEF Whole
  <2>8. CASE cut = Whole
    <3>1. Flight(Request, ByRequest, "sec") /\ Flight(Dummy, ByDummy, "prim")
      BY <2>1, <2>8 DEF Outbound
    <3>2. /\ Got("sec") /\ NoneOf(sock["sec"], idx) /\ rxbuf["sec"] = ByRequest
          /\ rxsa["sec"] = ByRequest.sa /\ wkc["sec"] = Len(ByRequest.by)
      BY <1>0, <2>2, <2>4, <2>5, <3>1
    <3>3. NoneOf(sock["prim"], idx) /\ rxsa["prim"] = ByDummy.sa
      BY <1>0, <2>2, <2>4, <2>5, <3>1
    <3>4. QED
      BY <1>0, <2>1, <2>5, <2>6, <2>7, <2>8, <3>2, <3>3
  <2>9. CASE cut # Whole
    <3>1. /\ cut = 0 => Silent("prim") /\ rxsa["prim"] = "none"
          /\ cut = NSlave => Silent("sec") /\ rxsa["sec"] = "none"
      BY <1>0, <2>1, <2>6, <2>9 DEF Outbound, Silent
    <3>2. cut # 0 => Flight(Request, ByRequest, "prim")
      BY <2>1, <2>9 DEF Outbound
    <3>3. cut # NSlave => Flight(Dummy, ByDummy, "sec")
      BY <2>1, <2>9 DEF Outbound
    <3>4. cut # 0 => /\ NoneOf(sock["prim"], idx) /\ rxbuf["prim"] = ByRequest
                     /\ rxsa["prim"] = ByRequest.sa /\ wkc["prim"] = Len(ByRequest.by)
      BY <1>0, <2>2, <2>4, <2>5, <3>2
    <3>5. cut # NSlave => NoneOf(sock["sec"], idx) /\ rxsa["sec"] = ByDummy.sa
      BY <1>0, <2>2, <2>4, <2>5, <3>3
    <3>6. \A c \in Card : NoneOf(sock[c], idx)
      BY <1>0, <3>1, <3>4, <3>5 DEF Silent
    <3>7. QED
      BY <1>0, <2>1, <2>5, <2>6, <2>7, <2>9, <3>1, <3>4, <3>5, <3>6
  <2>10. QED
    BY <2>8, <2>9
<1>6. CASE DecideCrossed
  <2>1. /\ pc = "decide" /\ pc' = "confirm" /\ SteadyCall
        /\ UNCHANGED <<cut, wire, try, idx, done, Reached>>
        /\ rxbuf' = [rxbuf EXCEPT !["prim"] = rxbuf["sec"]]
        /\ wkc' = [wkc EXCEPT !["prim"] = wkc["sec"]]
        /\ rxsa["prim"] = "sec" /\ rxsa["sec"] = "prim"
    BY <1>6 DEF DecideCrossed, Crossed, netVars, callVars, histVars, Reached
  <2>2. cut = Whole
    BY <1>0, <1>5, <2>1
  <2>3. /\ rxbuf["sec"].by = Everyone /\ wkc["sec"] = NSlave /\ NoOwn /\ DoneUpto(NSlave)
        /\ FirstAttempt
    BY <1>5, <2>1, <2>2 DEF Reached
  <2>4. rxbuf'["prim"] = rxbuf["sec"] /\ wkc'["prim"] = wkc["sec"]
    BY <1>0, <2>1 DEF TypeOK
  <2>5. Finished'
    BY <2>1, <2>3, <2>4 DEF Finished, NoOwn, Own, DoneUpto
  <2>6. QED
    BY <2>1, <2>3, <2>5 DEF SteadyCall, FirstAttempt
<1>7. CASE DecideNothing
  <2>1. /\ pc = "decide" /\ pc' = "confirm" /\ SteadyCall
        /\ UNCHANGED <<cut, wire, try, idx, done, rxbuf, wkc>>
        /\ ~Crossed /\ ~Turned
    BY <1>7 DEF DecideNothing, netVars, callVars, recvVars, histVars
  <2>2. cut = NSlave
    <3>1. cut # Whole
      BY <1>5, <2>1 DEF Crossed
    <3>2. ASSUME cut # NSlave PROVE FALSE
      <4>1. rxsa["sec"] = "sec"
        BY <1>5, <2>1, <3>1, <3>2
      <4>2. rxsa["prim"] \in {"none", "prim"}
        BY <1>5, <2>1, <3>1
      <4>3. QED
        BY <2>1, <4>1, <4>2 DEF Turned
    <3>3. QED
      BY <3>2
  <2>3. /\ rxbuf["prim"].by = Everyone /\ wkc["prim"] = NSlave /\ NoOwn /\ DoneUpto(NSlave)
        /\ FirstAttempt
    <3>1. Reached = NSlave
      BY <2>2 DEF Reached
    <3>2. QED
      BY <1>5, <2>1, <2>2, <3>1
  <2>4. Finished'
    BY <2>1, <2>3 DEF Finished, NoOwn, Own, DoneUpto
  <2>5. QED
    BY <2>1, <2>3, <2>4 DEF SteadyCall, FirstAttempt
<1>8. CASE DecideTurned
  <2>1. /\ pc = "decide" /\ pc' = "resent" /\ SteadyCall
        /\ UNCHANGED <<cut, sock, try, idx, done, rxbuf>>
        /\ wire' = wire \cup {[idx |-> idx, from |-> "sec", sa |-> "prim", dummy |-> FALSE,
                               by |-> Resent]}
        /\ wkc' = [wkc EXCEPT !["sec"] = NOFRAME]
        /\ rxsa["prim"] \in {"none", "prim"} /\ rxsa["sec"] = "sec"
    BY <1>8 DEF DecideTurned, Turned, histVars
  <2>2. cut # Whole /\ cut # NSlave
    BY <1>0, <1>5, <2>1
  <2>3. /\ NoOwn /\ DoneUpto(cut) /\ NoneOf(sock["sec"], idx) /\ FirstAttempt /\ txbuf = <<>>
    BY <1>0, <1>5, <2>1, <2>2 DEF Reached
  <2>4. Resent = Upto(cut)
    <3>1. CASE cut = 0
      <4>1. Resent = <<>>
        BY <1>5, <2>1, <2>3, <3>1 DEF Resent
      <4>2. QED
        BY <3>1, <4>1, Lines
    <3>2. CASE cut # 0
      BY <1>5, <2>1, <2>2, <3>2 DEF Resent
    <3>3. QED
      BY <3>1, <3>2
  <2>5. wire' = wire \cup {Again} /\ Again' = Again /\ ByAgain' = ByAgain
    BY <2>1, <2>4 DEF Again, ByAgain
  <2>6. ~Got("sec")' /\ NoneOf(sock["sec"], idx)'
    BY <1>0, <2>1, <2>3 DEF TypeOK, Got, NOFRAME
  <2>7. Flight(Again, ByAgain, "sec")'
    BY <2>5, <2>6 DEF Flight
  <2>8. DoneUpto(IF Again \in wire THEN cut ELSE NSlave)'
    BY <2>1, <2>3, <2>5 DEF DoneUpto
  <2>9. \A f \in wire' : Own(f)' => f = Again'
    BY <2>1, <2>3, <2>5 DEF NoOwn, Own
  <2>10. Resending'
    BY <2>1, <2>2, <2>7, <2>8, <2>9 DEF Resending
  <2>11. QED
    BY <2>1, <2>3, <2>10 DEF SteadyCall, FirstAttempt
<1>9. CASE WaitResent
  <2>1. /\ pc = "resent" /\ pc' = pc /\ Inframe("sec") /\ ~Got("sec")
        /\ UNCHANGED <<cut, wire, try, idx, done, steady>>
    <3>1. pc = "resent" /\ pc' = pc /\ Inframe("sec") /\ wkc["sec"] <= NOFRAME /\ wkc["sec"] \in Int
      BY <1>0, <1>9 DEF WaitResent, TypeOK
    <3>2. UNCHANGED <<cut, wire, try, idx, done, steady>>
      BY <3>1 DEF Inframe, callVars, histVars
    <3>3. ~Got("sec")
      BY <3>1 DEF Got, NOFRAME
    <3>4. QED
      BY <3>1, <3>2, <3>3
  <2>2. SteadyCall /\ Resending /\ FirstAttempt
    BY <2>1 DEF SteadyCall
  <2>3. PICK h \in Frame, g \in Frame : h = Again /\ g = ByAgain /\ g.idx = idx
    BY <2>2, Journeys DEF Resending
  <2>4. Flight(h, g, "sec")'
    BY <1>0, <2>1, <2>2, <2>3, FlightRead DEF Resending
  <2>5. Again' = Again /\ ByAgain' = ByAgain
    BY <2>1 DEF Again, ByAgain
  <2>6. Flight(Again, ByAgain, "sec")'
    BY <2>3, <2>4, <2>5 DEF Flight
  <2>7. DoneUpto(IF Again \in wire THEN cut ELSE NSlave)'
    BY <2>1, <2>2, <2>5 DEF DoneUpto, Resending
  <2>8. Resending'
    BY <2>1, <2>2, <2>5, <2>6, <2>7 DEF Resending, Own
  <2>9. QED
    BY <2>1, <2>2, <2>8 DEF SteadyCall, FirstAttempt
<1>10. CASE ResentOver
  <2>1. /\ pc = "resent" /\ pc' = "confirm" /\ SteadyCall
        /\ UNCHANGED <<wire, try, idx, done>>
    BY <1>10 DEF ResentOver, netVars, callVars, histVars
  <2>2. Resending /\ FirstAttempt
    BY <2>1 DEF SteadyCall
  <2>3. Got("sec") \/ (wire = {} /\ sock["sec"] = <<>>)
    BY <1>10 DEF ResentOver, Got, Expired
  <2>4. /\ Again \notin wire /\ Got("sec") /\ rxbuf["sec"] = ByAgain
        /\ wkc["sec"] = Len(ByAgain.by)
    <3>1. Flight(Again, ByAgain, "sec")
      BY <2>2 DEF Resending
    <3>2. QED
      BY <1>0, <2>3, <3>1, FlightOver
  <2>5. ByAgain.by = Everyone /\ Len(ByAgain.by) = NSlave
    BY <2>2, Journeys, Lines DEF Resending
  <2>6. rxbuf'["prim"] = rxbuf["sec"] /\ wkc'["prim"] = wkc["sec"]
    BY <1>0, <1>10, <2>4 DEF ResentOver, Got, TypeOK
  <2>7. NoOwn /\ DoneUpto(NSlave)
    BY <2>2, <2>4 DEF Resending, NoOwn, Own
  <2>8. Finished'
    BY <2>1, <2>4, <2>5, <2>6, <2>7 DEF Finished, NoOwn, Own, DoneUpto
  <2>9. QED
    BY <2>1, <2>2, <2>8 DEF SteadyCall, FirstAttempt
<1>11. CASE Confirm
  <2>1. /\ pc = "confirm" /\ SteadyCall
        /\ UNCHANGED <<wire, try, idx, done, rxbuf, wkc>>
    BY <1>11 DEF Confirm, netVars, callVars, recvVars, histVars
  <2>2. Finished /\ FirstAttempt
    BY <2>1 DEF SteadyCall
  <2>3. pc' = "idle"
    BY <1>0, <1>11, <2>2 DEF Confirm, Finished, NOFRAME
  <2>4. Finished'
    BY <2>1, <2>2 DEF Finished, NoOwn, Own, DoneUpto
  <2>5. QED
    BY <2>1, <2>2, <2>3, <2>4 DEF SteadyCall, FirstAttempt
<1>12. ASSUME NEW f \in wire, Travel(f) PROVE SteadyCall'
  <2>1. SteadyCall
    BY <1>12 DEF Travel
  <2>2. QED
    BY <1>12, <2>1, SteadyTravels
<1>13. ASSUME NEW f \in wire, Lose(f) PROVE FALSE
  BY <1>13 DEF Lose
<1>14. CASE CableChanges
  BY <1>14 DEF CableChanges
<1>15. CASE UNCHANGED vars
  <2>1. /\ UNCHANGED <<cut, wire, sock, pc, try, idx, txbuf, rxbuf, rxsa, wkc, done, steady>>
    BY <1>15 DEF vars, netVars, callVars, recvVars, histVars
  <2>2. UNCHANGED <<FirstAttempt, NoOwn, Outbound, Resending, Finished>>
    BY <2>1 DEF FirstAttempt, NoOwn, Outbound, Resending, Finished, Own, Flight, Silent, Got,
       DoneUpto, Reached, Request, Dummy, Again, ByRequest, ByDummy, ByAgain
  <2>3. QED
    BY <2>1, <2>2 DEF SteadyCall, DoneUpto, Got
<1>16. QED
  BY <1>1, <1>2, <1>3, <1>4, <1>6, <1>7, <1>8, <1>9, <1>10, <1>11, <1>12, <1>13, <1>14, <1>15
     DEF Next, Driver

-----------------------------------------------------------------------------
LEMMA StepAttempts ==
  ASSUME TypeOK, pc \notin {"idle", "send"} => try > 0, [Next]_vars
  PROVE  (pc \notin {"idle", "send"} => try > 0)'
<1>1. CASE Call
  BY <1>1 DEF Call
<1>2. CASE OutframeRed
  BY <1>2 DEF OutframeRed, TypeOK
<1>3. CASE WaitOver \/ DecideCrossed \/ DecideTurned \/ DecideNothing \/ ResentOver \/ Confirm
  BY <1>3 DEF WaitOver, DecideCrossed, DecideTurned, DecideNothing, ResentOver, Confirm
<1>4. CASE WaitResent \/ (\E c \in Card : WaitBoth(c))
  BY <1>4 DEF WaitResent, WaitBoth, Inframe
<1>5. CASE (\E f \in wire : Travel(f) \/ Lose(f)) \/ CableChanges \/ UNCHANGED vars
  BY <1>5 DEF Travel, Lose, CableChanges, vars
<1>6. QED
  BY <1>1, <1>2, <1>3, <1>4, <1>5 DEF Next, Driver

(* The inductive invariant holds in every reachable state of the redundant *)
(* driver: for a line of any length, any number of attempts, losses and    *)
(* changes of the cable.                                                   *)
THEOREM Inductive == Spec => []IInv
<1>1. Init => IInv
  <2>1. ASSUME Init PROVE IInv
    <3>1. TypeOK
      BY <2>1, InitTypes
    <3>2. LeftOK
      <4>1. \A c \in Card : sock[c] = <<>>
        BY <2>1 DEF Init
      <4>2. QED
        BY <2>1, <4>1 DEF Init, LeftOK, LeftOnWire, LeftIn, Only, Ahead
    <3>3. ~FirstAttempt /\ ~steady /\ pc = "idle"
      BY <2>1 DEF Init, FirstAttempt
    <3>4. QED
      BY <3>1, <3>2, <3>3 DEF IInv
  <2>2. QED
    BY <2>1
<1>2. IInv /\ [Next]_vars => IInv'
  <2>1. ASSUME IInv, [Next]_vars PROVE IInv'
    <3>1. /\ TypeOK /\ LeftOK /\ (pc \notin {"idle", "send"} => try > 0)
          /\ (FirstAttempt => FirstCall) /\ (steady => SteadyCall)
      BY <2>1 DEF IInv
    <3>2. TypeOK'
      BY <2>1, <3>1, StepTypes
    <3>3. LeftOK'
      BY <2>1, <3>1, StepLeft
    <3>4. (pc \notin {"idle", "send"} => try > 0)'
      BY <2>1, <3>1, StepAttempts
    <3>5. FirstAttempt' => FirstCall'
      BY <2>1, <3>1, StepFirst
    <3>6. steady' => SteadyCall'
      BY <2>1, <3>1, StepSteady
    <3>7. QED
      BY <3>2, <3>3, <3>4, <3>5, <3>6 DEF IInv
  <2>2. QED
    BY <2>1
<1>3. QED
  BY <1>1, <1>2, PTL DEF Spec

(* Every variable of the redundant driver keeps its type.                  *)
THEOREM TypeCorrect == Spec => []TypeOK
<1>1. IInv => TypeOK
  BY DEF IInv
<1>2. QED
  BY <1>1, Inductive, PTL

(* A call during which nothing changes brings back the frame that every    *)
(* slave has processed in order, and each has executed it once, wherever   *)
(* the cable is cut and whatever earlier calls left in the sockets         *)
(* (ecx_waitinframe_red).                                                  *)
THEOREM StillServiced == Spec => []Serviced
<1>1. IInv => Serviced
  <2>1. ASSUME IInv, pc = "idle", steady
        PROVE  /\ Result.by = Everyone /\ wkc["prim"] = NSlave
               /\ \A s \in Slave : done[s] = 1
    <3>1. Finished
      BY <2>1 DEF IInv, SteadyCall
    <3>2. \A s \in Slave : s <= NSlave
      BY RedConstants DEF Slave
    <3>3. QED
      BY <3>1, <3>2 DEF Finished, DoneUpto, Result
  <2>2. QED
    BY <2>1 DEF Serviced
<1>2. QED
  BY <1>1, Inductive, PTL

(* When the cable is cut or a frame lost in the middle of a call that      *)
(* needs one attempt, a full working counter means what it says: it is     *)
(* that of the request itself, executed by every slave.                    *)
THEOREM CounterTells == Spec => []FullIsFull
<1>1. IInv => FullIsFull
  <2>1. ASSUME IInv, pc = "idle", try = 1, wkc["prim"] = NSlave
        PROVE  ~Result.dummy /\ Result.by = Everyone /\ \A s \in Slave : done[s] >= 1
    <3>1. NSlave \in Nat \ {0}
      BY RedConstants
    <3>2. Arrived(Result, "prim", done, FALSE) /\ NSlave = Len(Result.by)
      <4>1. FirstCall /\ Got("prim")
        BY <2>1, <3>1 DEF IInv, FirstAttempt, Got, NOFRAME
      <4>2. QED
        BY <2>1, <4>1 DEF FirstCall, FirstResult, Result
    <3>3. ~Result.dummy
      BY <3>1, <3>2, EmptySeq DEF Arrived
    <3>4. PICK n \in 0..NSlave, m \in 0..NSlave : Result.by = Upto(n) \o Beyond(m)
      BY <3>2, <3>3 DEF Arrived, Parts
    <3>5. Len(Result.by) = n + (NSlave - m)
      <4>1. /\ Upto(n) \in Seq(Slave) /\ Beyond(m) \in Seq(Slave)
            /\ Len(Upto(n)) = n /\ Len(Beyond(m)) = NSlave - m
        BY Uptos, Beyonds
      <4>2. Len(Upto(n) \o Beyond(m)) = Len(Upto(n)) + Len(Beyond(m))
        BY <4>1, ConcatProperties
      <4>3. QED
        BY <3>4, <4>1, <4>2
    <3>6. n = m
      BY <3>1, <3>2, <3>5
    <3>7. Result.by = Everyone
      BY <3>4, <3>6, Lines
    <3>8. \A s \in Slave : done[s] >= 1
      BY <3>2, <3>3, <3>7, Lines DEF Arrived, Executors
    <3>9. QED
      BY <3>3, <3>7, <3>8
  <2>2. QED
    BY <2>1 DEF FullIsFull
<1>2. QED
  BY <1>1, Inductive, PTL
=============================================================================
