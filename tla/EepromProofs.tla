----------------------------- MODULE EepromProofs -----------------------------
(***************************************************************************)
(* What the functions on the EEPROM promise, for every EEPROM, number of   *)
(* retries, fault and word: a read delivers the words of the chip, a write *)
(* that reports a success is in the chip, what the tool reads and writes   *)
(* is what it says, and a chip that was borrowed from its slave is         *)
(* returned.                                                               *)
(*                                                                         *)
(* The argument follows an access.  While frames are lost no more often    *)
(* than a datagram is retried and the chip works (Fine), the chip is idle  *)
(* wherever no command is waited for, and works on the command of this     *)
(* access where one is (Commands); so a wait that ends without a refusal   *)
(* ends with the access done (Outcomes), and what is returned follows.     *)
(* The tool adds one word or chunk to what was right before (ToolData).    *)
(* The retry loops are left without success only when more frames were     *)
(* lost than there are retries (cnt <= loss).                              *)
(***************************************************************************)
EXTENDS EepromTool, SequenceTheorems, TLAPS

IsRow(r) == r = [i \in 1..Chunk |-> r[i]]

WalkFields == {"kind", "cat", "stage", "a", "got", "left", "c", "back"}
CallFields == {"kind", "val", "eectl", "n"}
ToolFields == {"kind", "next", "end", "step", "buf", "ret"}
WalkShape(w) == w = [f \in WalkFields |-> w[f]]

(* What the variables are: records with their fields, rows of words, and   *)
(* a memory that has the words below START.                                *)
Shapes ==
  /\ call = [f \in CallFields |-> call[f]] /\ WalkShape(walk)
  /\ tool = [f \in ToolFields |-> tool[f]]
  /\ cmd = NoCmd \/ (cmd = [op |-> cmd.op, adr |-> cmd.adr] /\ cmd.op \in {"read", "write"})
  /\ mem = [a \in DOMAIN mem |-> mem[a]] /\ 0..CrcWord \subseteq DOMAIN mem
  /\ IsRow(result) /\ IsRow(dat)

(* The values the proof needs the types of. *)
Types ==
  /\ owner \in {"master", "pdi"} /\ works \in {"yes", "hangs", "gone"}
  /\ eep_pdi \in {0, 1} /\ call.eectl \in {0, 1}
  /\ loss \in Nat /\ cnt \in Nat /\ nackcnt \in 0..3

(* Where a function may be, for which call. *)
InAccess == {"wait", "clear", "data", "command", "ready", "fetch"}
ToolPlaces == {"idle", "toolForce", "toolTake", "toolStatus", "tool"} \cup InAccess
Accessing == {"read", "write", "dump", "walk"}

IsRead == call.kind \in {"read", "readAP"}

Places ==
  /\ IF IsTool
     THEN /\ pc \in ToolPlaces
          /\ call.kind \in {"none", "tool", "readAP", "writeAP"}
          /\ pc \in {"toolForce", "toolTake", "toolStatus"} => call.kind = "tool"
          /\ pc \in InAccess => Pending
          /\ pc = "tool" => call.kind # "none"
     ELSE /\ pc \in {"idle", "force", "take", "give", "get", "dumped"} \cup InAccess
          /\ call.kind \in {"none", "toMaster", "toPdi"} \cup Accessing
          /\ pc \in InAccess => call.kind \in Accessing
          /\ pc = "get" => call.kind = "walk"
          /\ pc = "dumped" => call.kind = "dump"
          /\ pc \in {"force", "take"} => call.kind \in {"toMaster"} \cup Accessing
          /\ pc = "give" => call.kind \in {"toPdi", "dump", "walk"}
  /\ pc = "data" => IsWrite
  /\ pc = "fetch" => ~IsWrite
  /\ IsWrite => adr \in 0..CrcWord
  /\ IsRead => adr \in Nat

(* The counters of an access, and what it returns. *)
Counts ==
  /\ pc \in {"force", "take", "wait", "clear", "fetch"} => nackcnt = 0
  /\ pc \in {"data", "command", "ready"} => nackcnt # 3
  /\ pc \in {"force", "take"} \cup InAccess => result = Zeros
  /\ pc \in {"idle", "tool"} /\ IsWrite => result[1] \in {0, 1}
  /\ nackcnt = 3 => gaveUp
  /\ works # "gone" => cnt <= loss
  /\ works = "yes" => ~expired

(* The walks. *)
Sections == {"find", "string", "sms", "fmmu", "pdos"}
Stages == {"cat", "skip", "len", "count", "string", "char", "sm", "fmmu", "index",
           "head", "entry", "done"}
Walking ==
  ~IsTool =>
    CASE call.kind = "walk" ->
           /\ \/ walk.kind = "word" /\ walk.stage \in {"word", "done"}
              \/ walk.kind \in Sections /\ walk.stage \in Stages
           /\ walk.kind = "find" => walk.stage # "len"
           /\ pc \in {"get", "force", "take"} \cup InAccess => walk.stage # "done"
           /\ pc = "idle" => walk.stage = "done"
      [] call.kind = "dump" -> walk.kind = "dump" /\ walk.stage = "done"
      [] OTHER -> walk.kind = "none" /\ walk.stage = "done"

(* Whose the chip is. *)
Owned ==
  ~IsTool =>
    /\ pc \in {"force", "take"} => eep_pdi = 1
    /\ pc \in {"give"} \cup InAccess => eep_pdi = 0
    /\ loss <= Retries /\ works # "gone" =>
         /\ pc = "take" => owner = "master"
         /\ pc \notin {"force", "take", "give"} => (owner = "pdi") = (eep_pdi = 1)
    /\ pc = "idle" /\ walk.kind \notin {"none", "word"} /\ call.eectl = 1 => eep_pdi = 1

(* What the chip does, and what has come of it. *)
Fine == loss <= Retries /\ works = "yes"
Mine == [op |-> IF IsWrite THEN "write" ELSE "read", adr |-> adr]
Done ==
  /\ IsWrite => mem[adr] = call.val
  /\ IsRead => dat = Words(mem, adr, adr + Chunk)

Commands ==
  Fine =>
    /\ pc \notin {"command", "ready"} => cmd = NoCmd
    /\ pc \in {"command", "ready"} => cmd \in {NoCmd, Mine}

Outcomes ==
  Covered =>
    /\ pc \in {"command", "ready"} /\ IsWrite => dat[1] = call.val
    /\ pc = "ready" /\ cmd = NoCmd /\ ~nack => Done
    /\ pc = "fetch" => Done
    /\ pc \in {"idle", "tool"} /\ IsWrite => IF result[1] = 1 THEN Done ELSE nackcnt = 3
    /\ pc \in {"idle", "tool"} /\ IsRead =>
         result = IF nackcnt < 3 THEN Words(mem, adr, adr + Chunk) ELSE Zeros

(* The tool. *)
Reading ==
  /\ ToolReads /\ pc # "idle" =>
       /\ tool.buf = Words(mem, 0, tool.next)
       /\ call.kind = "readAP" => adr = tool.next
  /\ pc = "idle" /\ tool.kind = "read" /\ tool.ret = 1 =>
       SubSeq(tool.buf, 1, ToolWords) = Words(mem, 0, ToolWords)

WithAlias(s) == [s EXCEPT ![Alias + 1] = NewAlias]

WritingAlias ==
  tool.kind = "writeAlias" =>
    /\ WithAlias(SubSeq(tool.buf, 1, CrcWord)) = WithAlias(Words(mem, 0, CrcWord))
    /\ pc # "idle" /\ call.kind = "writeAP" =>
         \/ adr = Alias /\ call.val = NewAlias
         \/ adr = CrcWord /\ call.val = NewCrc(tool.buf) /\ mem[Alias] = NewAlias
    /\ pc = "idle" /\ tool.ret = 1 =>
         mem[Alias] = NewAlias /\ mem[CrcWord] = Crc(Words(mem, 0, CrcWord))

FileWord(a) == File.words[a - File.first + 1]
FileEnd == File.first + Len(File.words)

WritingFile ==
  tool.kind = "write" =>
    /\ pc # "idle" /\ call.kind = "writeAP" => call.val = FileWord(adr)
    /\ \A a \in File.first..(tool.next - 1) : mem[a] = FileWord(a)
    /\ pc = "idle" /\ tool.ret = 1 =>
         \A a \in File.first..(FileEnd - 1) : mem[a] = FileWord(a)

ToolRuns ==
  IsTool =>
    /\ tool.kind \in {"new", "read", "alias", "writeAlias", "write"}
    /\ tool.step \in {2, Chunk} /\ tool.next \in Nat
    /\ pc # "idle" => tool.kind # "new" /\ tool.ret = 0
    /\ pc = "toolStatus" => ToolReads
    /\ tool.kind = "new" => tool.ret = 0
    /\ tool.kind = "read" => tool.end = ToolWords
    /\ tool.kind = "alias" => tool.end = CrcWord
    /\ ToolReads /\ pc # "idle" => call.kind # "writeAP"
    /\ tool.kind \in {"writeAlias", "write"} /\ pc # "idle" => call.kind # "readAP"
    /\ tool.kind = "write" /\ pc # "idle" =>
         /\ tool.end = FileEnd /\ tool.next \in File.first..FileEnd
         /\ call.kind = "writeAP" => adr = tool.next /\ tool.next < FileEnd
         /\ call.kind # "writeAP" => tool.next = File.first

ToolData ==
  IsTool /\ Fine /\ ~gaveUp =>
    /\ pc \notin {"idle", "toolForce", "toolTake"} => owner = "master"
    /\ Reading /\ WritingAlias /\ WritingFile

(* The inductive invariant. *)
IInv ==
  /\ Shapes /\ Types /\ Places /\ Counts /\ Walking
  /\ Owned /\ Commands /\ Outcomes /\ ToolRuns /\ ToolData

-----------------------------------------------------------------------------
(* What the assumptions on the constants say of the words below START. *)
LEMMA Numbers ==
  /\ Chunk \in Nat /\ 1 \in 1..Chunk /\ 2 \in 1..Chunk
  /\ CrcWord \in Nat /\ Alias \in 1..(CrcWord - 1) /\ CrcWord >= 3
  BY EepromConstants, SiiConstants DEF CrcWord

(* The words that can be read. *)
WordsOf(m) == {Word(m, i) : i \in Nat}

(* Words from a on are a sequence of the words of the memory. *)
LEMMA WordsShape ==
  ASSUME NEW m, NEW a \in Nat, NEW b \in Nat, NEW k \in Nat, b = a + k
  PROVE  /\ Words(m, a, b) \in Seq(WordsOf(m))
         /\ Len(Words(m, a, b)) = k
         /\ \A i \in 1..k : Words(m, a, b)[i] = Word(m, a + i - 1)
<1> DEFINE S == WordsOf(m)
<1>1. b - a = k  OBVIOUS
<1>2. \A i \in 1..k : Word(m, a + i - 1) \in S
  <2>1. TAKE i \in 1..k
  <2>2. a + i - 1 \in Nat  OBVIOUS
  <2>3. QED  BY <2>2 DEF WordsOf
<1>3. Words(m, a, b) = [i \in 1..k |-> Word(m, a + i - 1)]
  BY <1>1 DEF Words
<1> HIDE DEF S
<1>4. Words(m, a, b) \in [1..k -> S]
  BY <1>2, <1>3
<1>5. Words(m, a, b) \in Seq(S)
  BY <1>4, SeqDef
<1>6. Len(Words(m, a, b)) = k
  <2>1. Words(m, a, b) \in [1..Len(Words(m, a, b)) -> S] /\ Len(Words(m, a, b)) \in Nat
    BY <1>5, LenProperties
  <2>2. QED  BY <2>1, <1>4
<1>7. QED  BY <1>3, <1>5, <1>6 DEF S

(* The same for the words from the beginning. *)
LEMMA WordsFromStart ==
  ASSUME NEW m, NEW k \in Nat
  PROVE  /\ Words(m, 0, k) \in Seq(WordsOf(m))
         /\ Len(Words(m, 0, k)) = k
         /\ \A i \in 1..k : Words(m, 0, k)[i] = Word(m, i - 1)
<1> DEFINE S == WordsOf(m)
<1>1. k - 0 = k  OBVIOUS
<1>2. \A i \in 1..k : Word(m, i - 1) \in S
  <2>1. TAKE i \in 1..k
  <2>2. i - 1 \in Nat  OBVIOUS
  <2>3. QED  BY <2>2 DEF WordsOf
<1>3. Words(m, 0, k) = [i \in 1..k |-> Word(m, i - 1)]
  BY <1>1 DEF Words
<1> HIDE DEF S
<1>4. Words(m, 0, k) \in [1..k -> S]
  BY <1>2, <1>3
<1>5. Words(m, 0, k) \in Seq(S)
  BY <1>4, SeqDef
<1>6. Len(Words(m, 0, k)) = k
  <2>1. Words(m, 0, k) \in [1..Len(Words(m, 0, k)) -> S] /\ Len(Words(m, 0, k)) \in Nat
    BY <1>5, LenProperties
  <2>2. QED  BY <2>1, <1>4
<1>7. QED  BY <1>3, <1>5, <1>6 DEF S

(* The words after those up to an address, by number. *)
LEMMA WordsAfter ==
  ASSUME NEW m, NEW a \in Nat, NEW k \in Nat
  PROVE  /\ Words(m, a, a + k) \in Seq(WordsOf(m))
         /\ Len(Words(m, a, a + k)) = k
         /\ \A i \in 1..k : Words(m, a, a + k)[i] = Word(m, a + i - 1)
<1>1. a + k \in Nat  OBVIOUS
<1>2. QED  BY <1>1, WordsShape

(* The first words of some words are the words from the same address. *)
LEMMA WordsBegin ==
  ASSUME NEW m, NEW a \in Nat, NEW n \in Nat, NEW k \in Nat, k <= n
  PROVE  SubSeq(Words(m, a, a + n), 1, k) = Words(m, a, a + k)
<1> DEFINE S == WordsOf(m)
           s == Words(m, a, a + n)
           t == SubSeq(s, 1, k)
           u == Words(m, a, a + k)
<1>0. a + n \in Nat /\ a + k \in Nat  OBVIOUS
<1>1. s \in Seq(S) /\ Len(s) = n /\ \A i \in 1..n : s[i] = Word(m, a + i - 1)
  BY <1>0, WordsShape
<1>2. u \in Seq(S) /\ Len(u) = k /\ \A i \in 1..k : u[i] = Word(m, a + i - 1)
  BY <1>0, WordsShape
<1> HIDE DEF s, u, S
<1>3. t \in Seq(S) /\ Len(t) = k /\ \A i \in 1..k : t[i] = s[i]
  BY <1>1, SubSeqProperties
<1> HIDE DEF t
<1>4. \A i \in 1..k : t[i] = u[i]
  <2>1. TAKE i \in 1..k
  <2>2. i \in 1..n  OBVIOUS
  <2>3. QED  BY <2>2, <1>1, <1>2, <1>3
<1>5. t = u
  BY <1>2, <1>3, <1>4, SeqEqual
<1>6. QED  BY <1>5 DEF t, s, u

(* Words, and those that follow them, are the words of both. *)
LEMMA WordsOn ==
  ASSUME NEW m, NEW n \in Nat, NEW k \in Nat
  PROVE  Words(m, 0, n) \o Words(m, n, n + k) = Words(m, 0, n + k)
<1> DEFINE S == WordsOf(m)
           s == Words(m, 0, n)
           t == Words(m, n, n + k)
           u == Words(m, 0, n + k)
           v == s \o t
<1>0. n + k \in Nat  OBVIOUS
<1>1. s \in Seq(S) /\ Len(s) = n /\ \A i \in 1..n : s[i] = Word(m, i - 1)
  BY WordsFromStart
<1>2. t \in Seq(S) /\ Len(t) = k /\ \A i \in 1..k : t[i] = Word(m, n + i - 1)
  BY WordsAfter
<1>3. u \in Seq(S) /\ Len(u) = n + k /\ \A i \in 1..(n + k) : u[i] = Word(m, i - 1)
  BY <1>0, WordsFromStart
<1> HIDE DEF s, t, u, S
<1>4. /\ v \in Seq(S) /\ Len(v) = n + k
      /\ \A i \in 1..(n + k) : v[i] = IF i <= n THEN s[i] ELSE t[i - n]
  BY <1>1, <1>2, ConcatProperties
<1> HIDE DEF v
<1>5. \A i \in 1..(n + k) : v[i] = u[i]
  <2>1. TAKE i \in 1..(n + k)
  <2>2. CASE i <= n  BY <2>2, <1>1, <1>3, <1>4
  <2>3. CASE ~(i <= n)
    <3>1. i - n \in 1..k /\ n + (i - n) - 1 = i - 1  BY <2>3
    <3>2. QED  BY <2>3, <3>1, <1>2, <1>3, <1>4
  <2>4. QED  BY <2>2, <2>3
<1>6. v = u
  BY <1>3, <1>4, <1>5, SeqEqual
<1>7. QED  BY <1>6 DEF v, s, t, u

(* With the alias put in its place, it does not matter which was there. *)
LEMMA AliasWords ==
  ASSUME NEW m, m = [a \in DOMAIN m |-> m[a]], NEW x
  PROVE  WithAlias(Words([m EXCEPT ![Alias] = x], 0, CrcWord)) =
           WithAlias(Words(m, 0, CrcWord))
<1> DEFINE n == [m EXCEPT ![Alias] = x]
<1>1. \A i \in 1..CrcWord : i # Alias + 1 => Word(n, i - 1) = Word(m, i - 1)
  BY Numbers DEF Word
<1>2. \A a : Words(a, 0, CrcWord) = [i \in 1..CrcWord |-> Word(a, i - 1)]
  BY Numbers DEF Words
<1>3. WithAlias(Words(n, 0, CrcWord)) =
        [i \in 1..CrcWord |-> IF i = Alias + 1 THEN NewAlias ELSE Word(n, i - 1)]
  BY <1>2 DEF WithAlias
<1>4. WithAlias(Words(m, 0, CrcWord)) =
        [i \in 1..CrcWord |-> IF i = Alias + 1 THEN NewAlias ELSE Word(m, i - 1)]
  BY <1>2 DEF WithAlias
<1>5. QED  BY <1>1, <1>3, <1>4

(* The checksum is not among the words it is made of. *)
LEMMA CrcWords ==
  ASSUME NEW m, m = [a \in DOMAIN m |-> m[a]], NEW x
  PROVE  Words([m EXCEPT ![CrcWord] = x], 0, CrcWord) = Words(m, 0, CrcWord)
  BY Numbers DEF Word, Words

(* Putting an alias where it is changes nothing. *)
LEMMA AliasThere ==
  ASSUME NEW m, 0..CrcWord \subseteq DOMAIN m, m[Alias] = NewAlias
  PROVE  WithAlias(Words(m, 0, CrcWord)) = Words(m, 0, CrcWord)
<1>1. Words(m, 0, CrcWord) = [i \in 1..CrcWord |-> Word(m, i - 1)]
  BY Numbers DEF Words
<1>2. Alias + 1 \in 1..CrcWord /\ Word(m, (Alias + 1) - 1) = NewAlias
  BY Numbers DEF Word
<1>3. QED  BY <1>1, <1>2 DEF WithAlias

-----------------------------------------------------------------------------
(* A step of a walk from w to v. *)
GoodStep(w, v) ==
  /\ WalkShape(v) /\ v.kind = w.kind
  /\ w.kind = "word" => v.stage = "done"
  /\ w.kind # "word" => v.stage \in Stages /\ (v.stage = "done" => v.back)
  /\ w.kind = "find" => v.stage # "len"

(* Going on to the next PDO is a good step of a walk. *)
LEMMA NextPdoSteps ==
  ASSUME NEW v, NEW a, NEW c, WalkShape(v), v.kind \in Sections
  PROVE  GoodStep(v, NextPdo(v, a, c))
  BY DEF GoodStep, NextPdo, Finish, WalkShape, WalkFields, Sections, Stages

(* Every step of a walk is good, whatever word was read: it stays the walk *)
(* it is, in a stage that comes with its kind, and gives the EEPROM back   *)
(* when it ends.                                                           *)
LEMMA WalkSteps ==
  ASSUME NEW w, NEW x, WalkShape(w),
         \/ w.kind = "word" /\ w.stage = "word"
         \/ w.kind \in Sections /\ w.stage \in Stages \ {"done"},
         w.kind = "find" => w.stage # "len"
  PROVE  GoodStep(w, WalkOn(w, x))
<1> DEFINE u == [w EXCEPT !.back = FALSE]
<1>1. WalkShape(u) /\ u.kind = w.kind /\ u.stage = w.stage
  BY DEF WalkShape, WalkFields
<1>2. CASE w.stage = "word"
  <2>1. WalkOn(w, x) = [u EXCEPT !.stage = "done", !.got = <<x>>]  BY <1>2 DEF WalkOn
  <2>2. QED  BY <2>1, <1>1, <1>2 DEF GoodStep, WalkShape, WalkFields, Sections, Stages
<1>3. CASE w.stage = "cat"
  <2>1. WalkOn(w, x) = AtCat(u, x)  BY <1>3 DEF WalkOn
  <2> HIDE DEF u
  <2>2. GoodStep(w, AtCat(u, x))
    BY <1>1, <1>3 DEF AtCat, GoodStep, WalkShape, WalkFields, Sections, Stages
  <2>3. QED  BY <2>1, <2>2
<1>4. CASE w.stage = "skip"
  <2>1. WalkOn(w, x) = AtSkip(u, x)  BY <1>4 DEF WalkOn
  <2> HIDE DEF u
  <2>2. GoodStep(w, AtSkip(u, x))
    BY <1>1, <1>4 DEF AtSkip, GoodStep, WalkShape, WalkFields, Sections, Stages
  <2>3. QED  BY <2>1, <2>2
<1>5. CASE w.stage = "len"
  <2>1. WalkOn(w, x) = AtLen(u, x)  BY <1>5 DEF WalkOn
  <2> HIDE DEF u
  <2>2. GoodStep(w, AtLen(u, x))
    BY <1>1, <1>5 DEF AtLen, Finish, GoodStep, WalkShape, WalkFields, Sections, Stages
  <2>3. QED  BY <2>1, <2>2
<1>6. CASE w.stage = "count"
  <2>1. WalkOn(w, x) = AtCount(u, x)  BY <1>6 DEF WalkOn
  <2> HIDE DEF u
  <2>2. GoodStep(w, AtCount(u, x))
    BY <1>1, <1>6 DEF AtCount, Finish, GoodStep, WalkShape, WalkFields, Sections, Stages
  <2>3. QED  BY <2>1, <2>2
<1>7. CASE w.stage = "string"
  <2>1. WalkOn(w, x) = AtString(u, x)  BY <1>7 DEF WalkOn
  <2> HIDE DEF u
  <2>2. GoodStep(w, AtString(u, x))
    <3>1. GoodStep(w, [u EXCEPT !.a = @ + 1 + x, !.c = @ - 1])
      BY <1>1, <1>7 DEF GoodStep, WalkShape, WalkFields, Sections, Stages
    <3>2. GoodStep(w, Finish(u))
      BY <1>1, <1>7 DEF Finish, GoodStep, WalkShape, WalkFields, Sections, Stages
    <3>3. \A n : GoodStep(w, [u EXCEPT !.stage = "char", !.a = @ + 1, !.left = n])
      BY <1>1, <1>7 DEF GoodStep, WalkShape, WalkFields, Sections, Stages
    <3>4. QED  BY <3>1, <3>2, <3>3 DEF AtString
  <2>3. QED  BY <2>1, <2>2
<1>8. CASE w.stage = "char"
  <2>1. WalkOn(w, x) = AtChar(u, x)  BY <1>8 DEF WalkOn
  <2> HIDE DEF u
  <2>2. GoodStep(w, AtChar(u, x))
    BY <1>1, <1>8 DEF AtChar, GoodStep, WalkShape, WalkFields, Sections, Stages
  <2>3. QED  BY <2>1, <2>2
<1>9. CASE w.stage = "sm"
  <2>1. WalkOn(w, x) = AtSm(u, x)  BY <1>9 DEF WalkOn
  <2> HIDE DEF u
  <2>2. GoodStep(w, AtSm(u, x))
    BY <1>1, <1>9 DEF AtSm, GoodStep, WalkShape, WalkFields, Sections, Stages
  <2>3. QED  BY <2>1, <2>2
<1>10. CASE w.stage = "fmmu"
  <2>1. WalkOn(w, x) = AtFmmu(u, x)  BY <1>10 DEF WalkOn
  <2> HIDE DEF u
  <2>2. GoodStep(w, AtFmmu(u, x))
    <3>1. \A g : GoodStep(w, [u EXCEPT !.got = g, !.a = @ + 1, !.left = @ - 1,
                                       !.back = u.left = 1,
                                       !.stage = IF u.left = 1 THEN "done" ELSE "fmmu"])
      BY <1>1, <1>10 DEF GoodStep, WalkShape, WalkFields, Sections, Stages
    <3>2. QED  BY <3>1 DEF AtFmmu
  <2>3. QED  BY <2>1, <2>2
<1>11. CASE w.stage = "index"
  <2>1. WalkOn(w, x) = AtIndex(u, x)  BY <1>11 DEF WalkOn
  <2> HIDE DEF u
  <2>2. GoodStep(w, AtIndex(u, x))
    BY <1>1, <1>11 DEF AtIndex, GoodStep, WalkShape, WalkFields, Sections, Stages
  <2>3. QED  BY <2>1, <2>2
<1>12. CASE w.stage = "head"
  <2>1. WalkOn(w, x) = AtHead(u, x)  BY <1>12 DEF WalkOn
  <2> HIDE DEF u
  <2>2. GoodStep(w, AtHead(u, x))
    <3> DEFINE v == [u EXCEPT !.got[Len(u.got)].sm = x \div 256,
                              !.got[Len(u.got)].todo = x % 256]
    <3>1. WalkShape(v) /\ v.kind = w.kind /\ v.kind \in Sections
      <4> DEFINE r == [u EXCEPT !.got[Len(u.got)].sm = x \div 256]
      <4>1. WalkShape(r) /\ r.kind = u.kind
        BY <1>1 DEF WalkShape, WalkFields
      <4>2. v = [r EXCEPT !.got[Len(u.got)].todo = x % 256]
        OBVIOUS
      <4> HIDE DEF r, v
      <4>3. WalkShape(v) /\ v.kind = r.kind
        BY <4>1, <4>2 DEF WalkShape, WalkFields
      <4>4. QED  BY <1>1, <1>12, <4>1, <4>3
    <3> HIDE DEF v
    <3>2. \A a, c : GoodStep(w, NextPdo(v, a, c))
      BY <3>1, <1>12, NextPdoSteps DEF GoodStep
    <3>3. GoodStep(w, [v EXCEPT !.stage = "entry", !.a = @ + 5, !.c = @ + 3])
      BY <3>1, <1>12 DEF GoodStep, WalkShape, WalkFields, Sections, Stages
    <3>4. QED  BY <3>2, <3>3 DEF AtHead, Inactive, v
  <2>3. QED  BY <2>1, <2>2
<1>13. CASE w.stage = "entry"
  <2>1. WalkOn(w, x) = AtEntry(u, x)  BY <1>13 DEF WalkOn
  <2> HIDE DEF u
  <2>2. GoodStep(w, AtEntry(u, x))
    <3> DEFINE p == u.got[Len(u.got)]
               v == [u EXCEPT !.got[Len(u.got)] =
                       [p EXCEPT !.size = @ + x \div 256, !.todo = @ - 1], !.c = @ + 4]
    <3>1. WalkShape(v) /\ v.kind = w.kind /\ v.kind \in Sections /\ v.stage = "entry"
      BY <1>1, <1>13 DEF WalkShape, WalkFields
    <3> HIDE DEF v
    <3>2. \A a, c : GoodStep(w, NextPdo(v, a, c))
      BY <3>1, <1>13, NextPdoSteps DEF GoodStep
    <3>3. GoodStep(w, [v EXCEPT !.a = @ + 4])
      BY <3>1, <1>13 DEF GoodStep, WalkShape, WalkFields, Sections, Stages
    <3>4. QED  BY <3>2, <3>3 DEF AtEntry, v
  <2>3. QED  BY <2>1, <2>2
<1>14. QED
  BY <1>2, <1>3, <1>4, <1>5, <1>6, <1>7, <1>8, <1>9, <1>10, <1>11, <1>12, <1>13
     DEF Stages

-----------------------------------------------------------------------------
(* A wait is over and the access with it. *)
Leaves == pc' \in {"get", "dumped", "tool", "idle"} /\ (pc' = "idle" => ~Pending)

(* The loop over refusals goes on, or is left. *)
Continues(n) ==
  IF n \in 1..2 THEN pc' = IF IsWrite THEN "data" ELSE "command" ELSE Leaves

(* What the tool knows stays true while an access of it goes on. *)
LEMMA ToolDataFrame ==
  ASSUME ToolData, UNCHANGED <<tool, mem, call, adr, owner>>, Fine' => Fine,
         gaveUp => gaveUp',
         IsTool => pc \notin {"idle", "toolForce", "toolTake"} /\ pc' # "idle"
  PROVE  ToolData'
<1>1. SUFFICES ASSUME IsTool, Fine, ~gaveUp  PROVE ToolData'
  BY DEF ToolData, IsTool
<1>2. pc \notin {"idle", "toolForce", "toolTake"} /\ pc' # "idle" /\ owner = "master"
  BY <1>1 DEF ToolData
<1>3. Reading'
  BY <1>1, <1>2 DEF ToolData, Reading, ToolReads
<1>4. WritingAlias'
  BY <1>1, <1>2 DEF ToolData, WritingAlias
<1>5. WritingFile'
  BY <1>1, <1>2 DEF ToolData, WritingFile
<1>6. QED  BY <1>2, <1>3, <1>4, <1>5 DEF ToolData

(* No words are the empty sequence. *)
LEMMA NoWords ==
  ASSUME NEW m
  PROVE  Words(m, 0, 0) = <<>>
<1>1. Words(m, 0, 0) \in Seq(WordsOf(m)) /\ Len(Words(m, 0, 0)) = 0
  BY WordsFromStart
<1>2. QED  BY <1>1, EmptySeq

-----------------------------------------------------------------------------
(* How a turn of the tool ends: an access begins, the tool takes the chip  *)
(* again, or it stops.                                                     *)
Begins(k, a, v) ==
  /\ pc' = "wait" /\ adr' = a
  /\ call' = [f \in CallFields |-> call'[f]]
  /\ call'.kind = k /\ call'.val = v /\ call'.eectl = call.eectl
  /\ cnt' = 0 /\ nackcnt' = 0 /\ ~expired' /\ result' = Zeros

Restarts ==
  /\ pc' = "toolForce"
  /\ call' = [f \in CallFields |-> call'[f]]
  /\ call'.kind = "tool" /\ call'.eectl = call.eectl
  /\ UNCHANGED <<adr, cnt, nackcnt, expired, result>>

Stops == pc' = "idle" /\ UNCHANGED <<call, adr, cnt, nackcnt, expired, result>>

(* The tool begins an access. *)
LEMMA AccessBegins ==
  ASSUME Shapes, NEW k, NEW a, NEW v, Access(k, a, v)
  PROVE  Begins(k, a, v)
  BY DEF Shapes, Access, StartAccess, Entry, Begins, CallFields

(* However a turn of the tool ends, types, places and counts stay right. *)
LEMMA ToolTurn ==
  ASSUME IInv, pc = "tool", IsTool, tool'.kind # "noTool",
         UNCHANGED <<chipVars, eep_pdi, walk, loss, gaveUp>>,
         \/ \E a \in Nat : \E v : Begins("readAP", a, v)
         \/ \E a \in 0..CrcWord : \E v : Begins("writeAP", a, v)
         \/ Restarts
         \/ Stops
  PROVE  Types' /\ Places' /\ Counts'
<1>1. Types'
  BY DEF IInv, Types, Begins, Restarts, Stops, chipVars
<1>2. /\ call'.kind \in {"none", "tool", "readAP", "writeAP"} /\ IsTool'
      /\ pc' \in {"idle", "toolForce"} \/ (pc' = "wait" /\ Pending')
      /\ pc' = "toolForce" => call'.kind = "tool"
      /\ IsWrite' => adr' \in 0..CrcWord
      /\ IsRead' => adr' \in Nat
  BY DEF IInv, Places, Begins, Restarts, Stops, Pending, IsWrite, IsRead, IsTool,
         NoTool, Tool
<1>3. Places'
  BY <1>2 DEF Places, ToolPlaces, InAccess
<1>4. Counts'
  <2>1. CASE pc' = "wait" /\ result' = Zeros /\ nackcnt' = 0 /\ cnt' = 0 /\ ~expired'
    BY <2>1 DEF IInv, Types, Counts, InAccess, chipVars
  <2>2. CASE Restarts
    BY <2>2 DEF IInv, Counts, InAccess, Restarts, chipVars
  <2>3. CASE Stops
    BY <2>3 DEF IInv, Counts, InAccess, IsWrite, Stops, chipVars
  <2>4. QED  BY <2>1, <2>2, <2>3 DEF Begins
<1>5. QED  BY <1>1, <1>3, <1>4

-----------------------------------------------------------------------------
(* The first wait: a chip that is left busy is left by the timer only. *)
LEMMA WaitFirstKeeps ==
  ASSUME IInv, WaitFirst, UNCHANGED tool
  PROVE  IInv'
<1>1. Shapes'
    BY DEF IInv, Shapes, WaitFirst, chipVars
<1>2. Types'
    BY DEF IInv, Types, WaitFirst, chipVars, Datagram
<1>3. Places'
    BY DEF IInv, Places, WaitFirst, Returned, IsWrite, InAccess, ToolPlaces,
       Accessing, IsRead, IsTool, Pending
<1>4. Counts'
  <2>1. /\ pc = "wait" /\ UNCHANGED <<works, call, cnt, nackcnt, result>>
        /\ \/ UNCHANGED <<pc, expired>>
           \/ ~expired' /\ (pc' \in {"clear", "data", "command"} \/ Leaves)
    BY DEF WaitFirst, Returned, Leaves, Pending, chipVars
  <2>2. nackcnt = 0 /\ result = Zeros /\ Zeros[1] = 0 /\ loss' \in {loss, loss + 1}
    BY <2>1, Numbers DEF IInv, Counts, InAccess, Zeros, WaitFirst, Datagram
  <2>3. QED  BY <2>1, <2>2 DEF IInv, Types, Counts, Leaves, InAccess, IsWrite
<1>5. Walking'
    BY DEF IInv, Walking, Places, WaitFirst, Returned, IsTool
<1>6. Owned'
    BY EepromConstants DEF IInv, Owned, Types, Walking, WaitFirst, Returned,
       chipVars, Datagram, InAccess, IsTool
<1>7. Commands'
    BY EepromConstants DEF IInv, Commands, Types, WaitFirst, chipVars, Datagram,
       Fine
<1>8. Outcomes'
    BY DEF IInv, Outcomes, Commands, WaitFirst, StillBusy, IsWrite, chipVars,
       Datagram, WkcOf, NOFRAME, Covered, Fine
<1>9. ToolRuns'
    BY DEF IInv, ToolRuns, WaitFirst, Returned, IsTool, ToolReads
<1>10. ToolData'
  <2>1. UNCHANGED <<tool, mem, call, adr, owner>> /\ (Fine' => Fine)
    BY EepromConstants DEF IInv, Types, WaitFirst, Datagram, Outcome, Fine, chipVars
  <2>4. gaveUp => gaveUp'
    BY Zenon DEF WaitFirst
  <2>2. IsTool => pc \notin {"idle", "toolForce", "toolTake"} /\ pc' # "idle"
    BY DEF IInv, Places, InAccess, Pending, WaitFirst, AgainOrReturn, Returned, chipVars
  <2>3. QED  BY <2>1, <2>2, <2>4, ToolDataFrame, Zenon DEF IInv
<1>11. QED  BY <1>1, <1>2, <1>3, <1>4, <1>5, <1>6, <1>7, <1>8, <1>9, <1>10 DEF IInv

(* The error bits are cleared with a command that does nothing. *)
LEMMA ClearErrorsKeeps ==
  ASSUME IInv, ClearErrors, UNCHANGED tool
  PROVE  IInv'
<1>1. Shapes'
    BY DEF IInv, Shapes, ClearErrors, Commanded
<1>2. Types'
    BY DEF IInv, Types, ClearErrors, Datagram
<1>3. Places'
    BY DEF IInv, Places, ClearErrors, IsWrite, InAccess, ToolPlaces, IsRead,
       IsTool, Pending
<1>4. Counts'
    BY DEF IInv, Counts, Types, ClearErrors, Datagram, InAccess
<1>5. Walking'
    BY DEF IInv, Walking, ClearErrors, InAccess, IsTool
<1>6. Owned'
    BY EepromConstants DEF IInv, Owned, Types, ClearErrors, Datagram, InAccess,
       IsTool
<1>7. Commands'
    BY EepromConstants DEF IInv, Commands, Types, ClearErrors, Commanded,
       Datagram, Fine
<1>8. Outcomes'
    BY DEF Outcomes, ClearErrors, IsWrite
<1>9. ToolRuns'
    BY DEF IInv, ToolRuns, ClearErrors, IsTool, ToolReads
<1>10. ToolData'
    BY EepromConstants DEF IInv, ToolData, Types, ClearErrors, Datagram,
       Reading, WritingAlias, WritingFile, Fine, IsTool, ToolReads
<1>11. QED  BY <1>1, <1>2, <1>3, <1>4, <1>5, <1>6, <1>7, <1>8, <1>9, <1>10 DEF IInv

(* The word is in the data register when the loop is left in time. *)
LEMMA WriteDataKeeps ==
  ASSUME IInv, WriteData, UNCHANGED tool
  PROVE  IInv'
<1>1. Shapes'
    BY DEF IInv, Shapes, WriteData, IsRow
<1>2. Types'
  BY DEF IInv, Types, WriteData, Retried, Datagram, Outcome
<1>3. Places'
    BY DEF IInv, Places, WriteData, Retried, InAccess, ToolPlaces, IsTool,
       IsWrite, Pending
<1>4. Counts'
    BY DEF IInv, Counts, Types, WriteData, Retried, Datagram, WkcOf, InAccess
<1>5. Walking'
    BY DEF IInv, Walking, Places, WriteData, IsTool, IsWrite
<1>6. Owned'
    BY EepromConstants DEF IInv, Owned, Places, Types, WriteData, Retried,
       Datagram, IsTool
<1>7. Commands'
    BY EepromConstants DEF IInv, Commands, Types, WriteData, Datagram, Fine
<1>8. Outcomes'
  <2>1. SUFFICES ASSUME Covered' PROVE Outcomes'
    BY DEF Outcomes
  <2>2. PICK o \in Outcome :
          /\ Datagram(o)
          /\ dat' = IF Reaches(o) /\ owner = "master" THEN [dat EXCEPT ![1] = call.val] ELSE dat
          /\ Retried(WkcOf(o), "data", "command")
    BY DEF WriteData
  <2>3. /\ pc = "data" /\ pc' \in {"data", "command"} /\ IsWrite
        /\ UNCHANGED <<owner, works, call, eep_pdi, tool>>
    BY <2>2 DEF IInv, Places, WriteData, Retried
  <2>4. owner = "master"
    <3>1. CASE IsTool
      BY <2>1, <2>3, <3>1 DEF Covered, IsTool
    <3>2. CASE ~IsTool
      <4>1. loss <= Retries /\ works = "yes"
        BY <2>1, <2>2, <2>3, EepromConstants DEF IInv, Types, Covered, Datagram
      <4>2. QED  BY <2>3, <3>2, <4>1 DEF IInv, Types, Owned, InAccess
    <3>3. QED  BY <3>1, <3>2
  <2>5. pc' = "command" => Reaches(o)
    BY <2>1, <2>2, <2>3, EepromConstants DEF IInv, Types, Counts, Covered,
       Datagram, Retried, Reaches, WkcOf, NOFRAME
  <2>6. pc' = "command" => dat'[1] = call.val
    BY <2>2, <2>4, <2>5, Numbers DEF IInv, Shapes, IsRow
  <2>7. QED  BY <2>3, <2>6 DEF Outcomes, IsWrite
<1>9. ToolRuns'
    BY DEF IInv, ToolRuns, WriteData, Retried, IsTool, ToolReads
<1>10. ToolData'
    BY EepromConstants DEF IInv, ToolData, Types, WriteData, Retried, Datagram,
       Reading, WritingAlias, WritingFile, Fine, IsTool, ToolReads
<1>11. QED  BY <1>1, <1>2, <1>3, <1>4, <1>5, <1>6, <1>7, <1>8, <1>9, <1>10 DEF IInv

(* The command of this access is what the chip works on. *)
LEMMA WriteCommandKeeps ==
  ASSUME IInv, WriteCommand, UNCHANGED tool
  PROVE  IInv'
<1>1. Shapes'
    BY DEF IInv, Shapes, WriteCommand, Commanded
<1>2. Types'
    BY DEF IInv, Types, WriteCommand, Datagram
<1>3. Places'
    BY EepromConstants, SiiConstants DEF IInv, Places, Types, Shapes, WriteCommand,
       Commanded, AgainOrReturn, Returned, IsWrite, Reaches, Datagram, WkcOf, NOFRAME,
       Outcome, InAccess, ToolPlaces, Accessing, IsRead, IsTool, Pending, NoTool, Tool,
       Zeros, CrcWord, WalkShape, CallFields, WalkFields, ToolFields, IsRow
<1>4. Counts'
  <2>1. /\ pc = "command" /\ ~expired'
        /\ UNCHANGED <<works, call, nackcnt, result, gaveUp>>
        /\ pc' \in {"command", "ready"} \/ Continues(nackcnt)
        /\ (works # "gone" => cnt' <= loss')
    <3>1. \A n, r : AgainOrReturn(n, r) => Continues(n)
      BY DEF AgainOrReturn, Returned, Continues, Leaves, Pending
    <3>2. PICK o \in Outcome :
            /\ Datagram(o)
            /\ IF WkcOf(o) <= 0 /\ cnt < Retries
               THEN cnt' = cnt + 1 /\ UNCHANGED <<pc, cache>>
               ELSE /\ cnt' = 0
                    /\ IF WkcOf(o) # 0 THEN pc' = "ready" /\ UNCHANGED cache
                       ELSE AgainOrReturn(nackcnt, result)
      BY DEF WriteCommand
    <3>3. works # "gone" => cnt' <= loss'
      BY <3>2 DEF IInv, Types, Counts, Datagram, WkcOf, NOFRAME, Outcome
    <3>4. QED  BY <3>1, <3>2, <3>3 DEF WriteCommand
  <2>2. QED
    BY <2>1, Numbers DEF IInv, Counts, Types, Zeros, Continues, Leaves, InAccess, IsWrite
<1>5. Walking'
    BY DEF IInv, Walking, Places, WriteCommand, AgainOrReturn, Returned, IsTool
<1>6. Owned'
    BY EepromConstants, SiiConstants DEF IInv, Owned, Places, Types, Shapes, Walking,
       WriteCommand, Commanded, AgainOrReturn, Returned, IsWrite, Reaches, Datagram,
       WkcOf, NOFRAME, Outcome, InAccess, IsTool, NoTool, Tool, ToolPlaces, Accessing,
       IsRead, Pending, Zeros, CrcWord, WalkShape, CallFields, WalkFields, ToolFields,
       IsRow, Sections, Stages
<1>7. Commands'
    BY EepromConstants, SiiConstants DEF IInv, Commands, Places, Counts, Types, Shapes,
       WriteCommand, Commanded, AgainOrReturn, Returned, IsWrite, Reaches, Datagram,
       WkcOf, NOFRAME, Outcome, Fine, Mine, NoCmd, InAccess, ToolPlaces, Accessing,
       IsRead, IsTool, Pending, NoTool, Tool, Zeros, CrcWord, WalkShape, CallFields,
       WalkFields, ToolFields, IsRow
<1>8. Outcomes'
    BY EepromConstants DEF IInv, Outcomes, Counts, Types, Owned, WriteCommand,
       Commanded, IsWrite, Reaches, Datagram, WkcOf, NOFRAME, Covered, NoCmd,
       IsTool, InAccess
<1>9. ToolRuns'
    BY EepromConstants, SiiConstants DEF IInv, ToolRuns, Places, Types, Shapes,
       WriteCommand, Commanded, AgainOrReturn, Returned, IsWrite, Reaches, Datagram,
       WkcOf, NOFRAME, Outcome, IsTool, ToolReads, InAccess, Pending, FileEnd, File,
       NoTool, Tool, ToolPlaces, Accessing, IsRead, Zeros, CrcWord, WalkShape,
       CallFields, WalkFields, ToolFields, IsRow
<1>10. ToolData'
    BY EepromConstants DEF IInv, ToolData, ToolRuns, Types, WriteCommand,
       Datagram, Reading, WritingAlias, WritingFile, Fine, IsTool, ToolReads
<1>11. QED  BY <1>1, <1>2, <1>3, <1>4, <1>5, <1>6, <1>7, <1>8, <1>9, <1>10 DEF IInv

(* The second wait: what the status says is true of the access. *)
LEMMA WaitReadyKeeps ==
  ASSUME IInv, WaitReady, UNCHANGED tool
  PROVE  IInv'
<1>0. /\ pc = "ready" /\ UNCHANGED <<chipVars, call, eep_pdi, walk, adr, cnt, refused>>
      /\ loss' \in {loss, loss + 1}
      /\ gaveUp' = (gaveUp \/ expired \/ nackcnt' = 3)
      /\ \/ pc' = "ready" /\ UNCHANGED <<expired, nackcnt, result>>
         \/ /\ expired /\ ~expired' /\ UNCHANGED <<nackcnt, result>>
            /\ Continues(nackcnt)
         \/ /\ ~expired' /\ nackcnt' = nackcnt + 1 /\ result' = result
            /\ Continues(nackcnt + 1)
         \/ /\ IsWrite /\ (expired \/ (cmd = NoCmd /\ ~nack)) /\ ~expired'
            /\ nackcnt' = 0 /\ result' = [Zeros EXCEPT ![1] = 1] /\ Leaves
         \/ /\ ~IsWrite /\ (expired \/ (cmd = NoCmd /\ ~nack)) /\ ~expired'
            /\ nackcnt' = 0 /\ result' = result /\ pc' = "fetch"
  <2>1. PICK o \in Outcome :
          /\ Datagram(o)
          /\ IF Waits(o)
             THEN UNCHANGED <<pc, expired, nackcnt, result, cache>>
             ELSE /\ expired' = FALSE
                  /\ CASE StillBusy(o) ->
                            /\ nackcnt' = nackcnt /\ result' = result
                            /\ AgainOrReturn(nackcnt, result)
                       [] ~StillBusy(o) /\ IsRefused(o) ->
                            /\ nackcnt' = nackcnt + 1 /\ result' = result
                            /\ AgainOrReturn(nackcnt + 1, result)
                       [] ~StillBusy(o) /\ ~IsRefused(o) /\ IsWrite ->
                            /\ nackcnt' = 0 /\ result' = [Zeros EXCEPT ![1] = 1]
                            /\ Returned(result')
                       [] OTHER ->
                            /\ nackcnt' = 0 /\ result' = result
                            /\ pc' = "fetch" /\ UNCHANGED cache
    BY DEF WaitReady
  <2>2. \A n, r : AgainOrReturn(n, r) => Continues(n)
    BY DEF AgainOrReturn, Returned, Continues, Leaves, Pending
  <2>3. \A r : Returned(r) => Leaves
    BY DEF Returned, Leaves, Pending
  <2>4. /\ pc = "ready" /\ UNCHANGED <<chipVars, call, eep_pdi, walk, adr, cnt, refused>>
        /\ loss' \in {loss, loss + 1}
        /\ gaveUp' = (gaveUp \/ expired \/ nackcnt' = 3)
    BY <2>1 DEF WaitReady, Datagram
  <2>5. CASE Waits(o)
    BY <2>1, <2>4, <2>5
  <2>6. CASE ~Waits(o) /\ StillBusy(o)
    BY <2>1, <2>2, <2>4, <2>6 DEF Waits, StillBusy
  <2>7. CASE ~Waits(o) /\ ~StillBusy(o) /\ IsRefused(o)
    BY <2>1, <2>2, <2>4, <2>7
  <2>8. CASE ~Waits(o) /\ ~StillBusy(o) /\ ~IsRefused(o) /\ IsWrite
    <3>1. expired \/ (cmd = NoCmd /\ ~nack)
      BY <2>1, <2>8 DEF Waits, StillBusy, IsRefused, WkcOf, NOFRAME, Outcome
    <3>2. QED  BY <2>1, <2>3, <2>4, <2>8, <3>1
  <2>9. CASE ~Waits(o) /\ ~StillBusy(o) /\ ~IsRefused(o) /\ ~IsWrite
    <3>1. expired \/ (cmd = NoCmd /\ ~nack)
      BY <2>1, <2>9 DEF Waits, StillBusy, IsRefused, WkcOf, NOFRAME, Outcome
    <3>2. QED  BY <2>1, <2>4, <2>9, <3>1
  <2>10. QED  BY <2>5, <2>6, <2>7, <2>8, <2>9
<1>1. Shapes'
    BY EepromConstants, SiiConstants DEF IInv, Shapes, Types, WaitReady, IsRefused,
       AgainOrReturn, Zeros, Waits, StillBusy, Returned, IsWrite, chipVars, Datagram,
       WkcOf, NOFRAME, Outcome, WalkShape, CallFields, WalkFields, ToolFields, IsRow
<1>2. Types'
    BY DEF IInv, Types, Counts, WaitReady, chipVars, Datagram
<1>3. Places'
    BY EepromConstants, SiiConstants DEF IInv, Places, Types, Shapes, WaitReady,
       IsRefused, AgainOrReturn, Zeros, Waits, StillBusy, Returned, IsWrite, chipVars,
       Datagram, WkcOf, NOFRAME, Outcome, InAccess, ToolPlaces, Accessing, IsRead,
       IsTool, Pending, NoTool, Tool, CrcWord, WalkShape, CallFields, WalkFields,
       ToolFields, IsRow
<1>4. Counts'
  <2>1. /\ result = Zeros /\ Zeros[1] = 0 /\ [Zeros EXCEPT ![1] = 1][1] = 1
        /\ nackcnt \in 0..2 /\ (works = "yes" => ~expired)
        /\ (works # "gone" => cnt <= loss) /\ cnt \in Nat /\ loss \in Nat
    BY <1>0, Numbers DEF IInv, Types, Counts, Zeros, InAccess
  <2>2. UNCHANGED <<works, cnt, call>> /\ (works' # "gone" => cnt' <= loss')
    BY <1>0, <2>1 DEF chipVars
  <2>3. nackcnt' = 3 => gaveUp'
    BY <1>0, Zenon
  <2>4. QED  BY <1>0, <2>1, <2>2, <2>3 DEF Counts, Continues, Leaves, InAccess, IsWrite
<1>5. Walking'
    BY EepromConstants, SiiConstants DEF IInv, Walking, Places, Shapes, WaitReady,
       IsRefused, AgainOrReturn, Zeros, Waits, StillBusy, Returned, IsWrite, chipVars,
       Datagram, WkcOf, NOFRAME, Outcome, InAccess, Accessing, Sections, Stages, IsTool,
       NoTool, Tool, ToolPlaces, IsRead, Pending, CrcWord, WalkShape, CallFields,
       WalkFields, ToolFields, IsRow
<1>6. Owned'
    BY EepromConstants DEF IInv, Owned, Places, Types, Walking, WaitReady,
       AgainOrReturn, Returned, chipVars, Datagram, IsTool
<1>7. Commands'
    BY EepromConstants, SiiConstants DEF IInv, Commands, Places, Counts, Types, Shapes,
       WaitReady, IsRefused, AgainOrReturn, Zeros, Waits, StillBusy, Returned, IsWrite,
       chipVars, Datagram, WkcOf, NOFRAME, Outcome, Fine, Mine, NoCmd, InAccess,
       ToolPlaces, Accessing, IsRead, IsTool, Pending, NoTool, Tool, CrcWord, WalkShape,
       CallFields, WalkFields, ToolFields, IsRow
<1>8. Outcomes'
  <2>1. SUFFICES ASSUME Covered' PROVE Outcomes'
    BY DEF Outcomes
  <2>2. Covered /\ ~expired
    BY <1>0, <2>1, EepromConstants DEF IInv, Types, Counts, Covered, IsTool, chipVars
  <2>3. /\ Done' <=> Done
        /\ IsWrite' <=> IsWrite
        /\ IsRead' <=> IsRead
        /\ IsWrite => ~IsRead
    BY <1>0 DEF Done, IsWrite, IsRead, chipVars
  <2>4. /\ result = Zeros /\ Zeros[1] = 0 /\ [Zeros EXCEPT ![1] = 1][1] = 1
        /\ nackcnt \in 0..2
    BY <1>0, Numbers DEF IInv, Types, Counts, Zeros, InAccess
  <2>5. CASE pc' = "ready" /\ UNCHANGED <<expired, nackcnt, result>>
    BY <1>0, <2>2, <2>3, <2>5 DEF IInv, Outcomes, chipVars
  <2>6. CASE nackcnt' = nackcnt + 1 /\ result' = result /\ Continues(nackcnt + 1)
    BY <1>0, <2>2, <2>3, <2>4, <2>6 DEF IInv, Outcomes, Continues, Leaves, chipVars
  <2>7. CASE /\ IsWrite /\ cmd = NoCmd /\ ~nack
             /\ nackcnt' = 0 /\ result' = [Zeros EXCEPT ![1] = 1] /\ Leaves
    BY <1>0, <2>2, <2>3, <2>4, <2>7 DEF IInv, Outcomes, Leaves, chipVars
  <2>8. CASE ~IsWrite /\ cmd = NoCmd /\ ~nack /\ pc' = "fetch"
    BY <1>0, <2>2, <2>3, <2>8 DEF IInv, Outcomes, chipVars
  <2>9. QED  BY <1>0, <2>2, <2>5, <2>6, <2>7, <2>8
<1>9. ToolRuns'
    BY EepromConstants, SiiConstants DEF IInv, ToolRuns, Places, Types, Shapes,
       WaitReady, IsRefused, AgainOrReturn, Zeros, Waits, StillBusy, Returned, IsWrite,
       chipVars, Datagram, WkcOf, NOFRAME, Outcome, IsTool, ToolReads, InAccess,
       Pending, FileEnd, File, NoTool, Tool, ToolPlaces, Accessing, IsRead, CrcWord,
       WalkShape, CallFields, WalkFields, ToolFields, IsRow
<1>10. ToolData'
  <2>1. UNCHANGED <<tool, mem, call, adr, owner>> /\ (Fine' => Fine)
    BY EepromConstants DEF IInv, Types, WaitReady, Datagram, Outcome, Fine, chipVars
  <2>4. gaveUp => gaveUp'
    BY Zenon DEF WaitReady
  <2>2. IsTool => pc \notin {"idle", "toolForce", "toolTake"} /\ pc' # "idle"
    BY DEF IInv, Places, InAccess, Pending, WaitReady, AgainOrReturn, Returned, chipVars
  <2>3. QED  BY <2>1, <2>2, <2>4, ToolDataFrame, Zenon DEF IInv
<1>11. QED  BY <1>1, <1>2, <1>3, <1>4, <1>5, <1>6, <1>7, <1>8, <1>9, <1>10 DEF IInv

(* The data register is delivered. *)
LEMMA FetchKeeps ==
  ASSUME IInv, Fetch, UNCHANGED tool
  PROVE  IInv'
<1>1. Shapes'
    BY EepromConstants, SiiConstants DEF IInv, Shapes, Types, Fetch, Returned, chipVars,
       Datagram, WkcOf, NOFRAME, Outcome, WalkShape, CallFields, WalkFields, ToolFields,
       IsRow, Zeros
<1>2. Types'
    BY DEF IInv, Types, Fetch, chipVars, Datagram
<1>3. Places'
    BY EepromConstants, SiiConstants DEF IInv, Places, Types, Shapes, Fetch, Returned,
       chipVars, Datagram, WkcOf, NOFRAME, Outcome, InAccess, ToolPlaces, Accessing,
       IsRead, IsTool, IsWrite, Pending, NoTool, Tool, Zeros, CrcWord, WalkShape,
       CallFields, WalkFields, ToolFields, IsRow
<1>4. Counts'
  <2>1. pc = "fetch" /\ ~IsWrite /\ nackcnt = 0 /\ result = Zeros
    BY DEF IInv, Fetch, Places, Counts, InAccess
  <2>2. UNCHANGED <<nackcnt, gaveUp, works, call, expired>>
        /\ pc' \in {"fetch", "get", "dumped", "tool", "idle"}
        /\ (pc' = "fetch" => result' = result)
    BY DEF Fetch, Returned, chipVars, WkcOf, NOFRAME
  <2>3. works # "gone" => cnt' <= loss'
    BY DEF IInv, Types, Counts, Fetch, Datagram, WkcOf, NOFRAME, Outcome, chipVars
  <2>4. QED  BY <2>1, <2>2, <2>3 DEF IInv, Counts, InAccess, IsWrite
<1>5. Walking'
    BY EepromConstants, SiiConstants DEF IInv, Walking, Places, Shapes, Fetch, Returned,
       chipVars, Datagram, WkcOf, NOFRAME, Outcome, InAccess, Accessing, Sections,
       Stages, IsTool, NoTool, Tool, ToolPlaces, IsRead, IsWrite, Pending, Zeros,
       CrcWord, WalkShape, CallFields, WalkFields, ToolFields, IsRow
<1>6. Owned'
    BY EepromConstants DEF IInv, Owned, Places, Types, Walking, Fetch, Returned,
       chipVars, Datagram, IsTool
<1>7. Commands'
    BY EepromConstants, SiiConstants DEF IInv, Commands, Places, Counts, Types, Shapes,
       Fetch, Returned, chipVars, Datagram, WkcOf, NOFRAME, Outcome, Fine, Mine,
       IsWrite, NoCmd, InAccess, ToolPlaces, Accessing, IsRead, IsTool, Pending, NoTool,
       Tool, Zeros, CrcWord, WalkShape, CallFields, WalkFields, ToolFields, IsRow
<1>8. Outcomes'
    BY EepromConstants, SiiConstants DEF IInv, Outcomes, Commands, Places, Counts,
       Types, Shapes, Owned, Fetch, Returned, chipVars, Datagram, WkcOf, NOFRAME,
       Outcome, Covered, Done, IsWrite, IsRead, Mine, NoCmd, IsTool, Zeros, Fine,
       InAccess, ToolPlaces, Accessing, Pending, NoTool, Tool, CrcWord, WalkShape,
       CallFields, WalkFields, ToolFields, IsRow
<1>9. ToolRuns'
    BY EepromConstants, SiiConstants DEF IInv, ToolRuns, Places, Types, Shapes, Fetch,
       Returned, chipVars, Datagram, WkcOf, NOFRAME, Outcome, IsTool, ToolReads,
       InAccess, IsWrite, Pending, FileEnd, File, NoTool, Tool, ToolPlaces, Accessing,
       IsRead, Zeros, CrcWord, WalkShape, CallFields, WalkFields, ToolFields, IsRow
<1>10. ToolData'
    BY EepromConstants, SiiConstants DEF IInv, ToolData, ToolRuns, Outcomes, Commands,
       Places, Counts, Types, Shapes, Fetch, Returned, chipVars, Datagram, WkcOf,
       NOFRAME, Outcome, Reading, WritingAlias, WritingFile, Fine, IsTool, ToolReads,
       InAccess, IsWrite, IsRead, Pending, FileWord, FileEnd, File, NoTool, Tool,
       Covered, Done, Mine, NoCmd, Zeros, ToolPlaces, Accessing, CrcWord, WalkShape,
       CallFields, WalkFields, ToolFields, IsRow
<1>11. QED  BY <1>1, <1>2, <1>3, <1>4, <1>5, <1>6, <1>7, <1>8, <1>9, <1>10 DEF IInv

(* Taking the chip from the slave. *)
LEMMA EepromForceKeeps ==
  ASSUME IInv, EepromForce, UNCHANGED tool
  PROVE  IInv'
<1>1. Shapes'
    BY EepromConstants, SiiConstants DEF IInv, Shapes, Types, EepromForce, Retried,
       Reaches, Datagram, WkcOf, NOFRAME, Outcome, WalkShape, CallFields, WalkFields,
       ToolFields, IsRow, Zeros
<1>2. Types'
    BY DEF IInv, Types, EepromForce, Retried, Datagram
<1>3. Places'
    BY EepromConstants, SiiConstants DEF IInv, Places, Types, Shapes, EepromForce,
       Retried, Reaches, Datagram, WkcOf, NOFRAME, Outcome, InAccess, ToolPlaces,
       Accessing, IsRead, IsTool, IsWrite, Pending, NoTool, Tool, Zeros, CrcWord,
       WalkShape, CallFields, WalkFields, ToolFields, IsRow
<1>4. Counts'
    BY DEF IInv, Counts, Types, EepromForce, Retried, Datagram, WkcOf
<1>5. Walking'
    BY EepromConstants, SiiConstants DEF IInv, Walking, Places, Shapes, EepromForce,
       Retried, Reaches, Datagram, WkcOf, NOFRAME, Outcome, InAccess, Accessing,
       Sections, Stages, IsTool, NoTool, Tool, ToolPlaces, IsRead, IsWrite, Pending,
       Zeros, CrcWord, WalkShape, CallFields, WalkFields, ToolFields, IsRow
<1>6. Owned'
  <2>1. PICK o \in Outcome :
          /\ Datagram(o)
          /\ owner' = IF Reaches(o) THEN "master" ELSE owner
          /\ Retried(WkcOf(o), "force", "take")
    BY DEF EepromForce
  <2>2. /\ pc = "force" /\ pc' \in {"force", "take"}
        /\ UNCHANGED <<works, call, eep_pdi, walk, tool>>
    BY <2>1 DEF EepromForce, Retried
  <2>3. pc' = "take" /\ loss' <= Retries /\ works # "gone" => owner' = "master"
    BY <2>1, EepromConstants
    DEF IInv, Types, Counts, Datagram, Retried, Reaches, WkcOf, NOFRAME, Outcome
  <2>4. QED  BY <2>2, <2>3 DEF IInv, Owned, IsTool, InAccess
<1>7. Commands'
    BY EepromConstants, SiiConstants DEF IInv, Commands, Places, Counts, Types, Shapes,
       EepromForce, Retried, Reaches, Datagram, WkcOf, NOFRAME, Outcome, Fine, Mine,
       IsWrite, NoCmd, InAccess, ToolPlaces, Accessing, IsRead, IsTool, Pending, NoTool,
       Tool, Zeros, CrcWord, WalkShape, CallFields, WalkFields, ToolFields, IsRow
<1>8. Outcomes'
    BY EepromConstants, SiiConstants DEF IInv, Outcomes, Commands, Places, Counts,
       Types, Shapes, Owned, EepromForce, Retried, Reaches, Datagram, WkcOf, NOFRAME,
       Outcome, Covered, Done, IsWrite, IsRead, Mine, NoCmd, IsTool, Zeros, Fine,
       InAccess, ToolPlaces, Accessing, Pending, NoTool, Tool, CrcWord, WalkShape,
       CallFields, WalkFields, ToolFields, IsRow
<1>9. ToolRuns'
    BY EepromConstants, SiiConstants DEF IInv, ToolRuns, Places, Types, Shapes,
       EepromForce, Retried, Reaches, Datagram, WkcOf, NOFRAME, Outcome, IsTool,
       ToolReads, InAccess, IsWrite, Pending, FileEnd, File, NoTool, Tool, ToolPlaces,
       Accessing, IsRead, Zeros, CrcWord, WalkShape, CallFields, WalkFields, ToolFields,
       IsRow
<1>10. ToolData'
    BY EepromConstants, SiiConstants DEF IInv, ToolData, ToolRuns, Outcomes, Commands,
       Places, Counts, Types, Shapes, EepromForce, Retried, Reaches, Datagram, WkcOf,
       NOFRAME, Outcome, Reading, WritingAlias, WritingFile, Fine, IsTool, ToolReads,
       InAccess, IsWrite, IsRead, Pending, FileWord, FileEnd, File, NoTool, Tool,
       Covered, Done, Mine, NoCmd, Zeros, ToolPlaces, Accessing, CrcWord, WalkShape,
       CallFields, WalkFields, ToolFields, IsRow
<1>11. QED  BY <1>1, <1>2, <1>3, <1>4, <1>5, <1>6, <1>7, <1>8, <1>9, <1>10 DEF IInv

(* Setting it to the master. *)
LEMMA EepromTakeKeeps ==
  ASSUME IInv, EepromTake, UNCHANGED tool
  PROVE  IInv'
<1>1. Shapes'
    BY EepromConstants, SiiConstants DEF IInv, Shapes, Types, EepromTake, Retried,
       Reaches, Datagram, WkcOf, NOFRAME, Outcome, WalkShape, CallFields, WalkFields,
       ToolFields, IsRow, Zeros
<1>2. Types'
    BY DEF IInv, Types, EepromTake, Retried, Datagram
<1>3. Places'
    BY EepromConstants, SiiConstants DEF IInv, Places, Types, Shapes, EepromTake,
       Retried, Reaches, Datagram, WkcOf, NOFRAME, Outcome, InAccess, ToolPlaces,
       Accessing, IsRead, IsTool, IsWrite, Pending, NoTool, Tool, Zeros, CrcWord,
       WalkShape, CallFields, WalkFields, ToolFields, IsRow
<1>4. Counts'
    BY EepromConstants, SiiConstants DEF IInv, Counts, Places, Types, Shapes,
       EepromTake, Retried, Reaches, Datagram, WkcOf, NOFRAME, Outcome, InAccess,
       IsWrite, Zeros, ToolPlaces, Accessing, IsRead, IsTool, Pending, NoTool, Tool,
       CrcWord, WalkShape, CallFields, WalkFields, ToolFields, IsRow
<1>5. Walking'
    BY EepromConstants, SiiConstants DEF IInv, Walking, Places, Shapes, EepromTake,
       Retried, Reaches, Datagram, WkcOf, NOFRAME, Outcome, InAccess, Accessing,
       Sections, Stages, IsTool, NoTool, Tool, ToolPlaces, IsRead, IsWrite, Pending,
       Zeros, CrcWord, WalkShape, CallFields, WalkFields, ToolFields, IsRow
<1>6. Owned'
    BY EepromConstants, SiiConstants DEF IInv, Owned, Places, Types, Shapes, Walking,
       EepromTake, Retried, Reaches, Datagram, WkcOf, NOFRAME, Outcome, InAccess,
       IsTool, NoTool, Tool, ToolPlaces, Accessing, IsRead, IsWrite, Pending, Zeros,
       CrcWord, WalkShape, CallFields, WalkFields, ToolFields, IsRow, Sections, Stages
<1>7. Commands'
    BY EepromConstants, SiiConstants DEF IInv, Commands, Places, Counts, Types, Shapes,
       EepromTake, Retried, Reaches, Datagram, WkcOf, NOFRAME, Outcome, Fine, Mine,
       IsWrite, NoCmd, InAccess, ToolPlaces, Accessing, IsRead, IsTool, Pending, NoTool,
       Tool, Zeros, CrcWord, WalkShape, CallFields, WalkFields, ToolFields, IsRow
<1>8. Outcomes'
    BY EepromConstants, SiiConstants DEF IInv, Outcomes, Commands, Places, Counts,
       Types, Shapes, Owned, EepromTake, Retried, Reaches, Datagram, WkcOf, NOFRAME,
       Outcome, Covered, Done, IsWrite, IsRead, Mine, NoCmd, IsTool, Zeros, Fine,
       InAccess, ToolPlaces, Accessing, Pending, NoTool, Tool, CrcWord, WalkShape,
       CallFields, WalkFields, ToolFields, IsRow
<1>9. ToolRuns'
    BY EepromConstants, SiiConstants DEF IInv, ToolRuns, Places, Types, Shapes,
       EepromTake, Retried, Reaches, Datagram, WkcOf, NOFRAME, Outcome, IsTool,
       ToolReads, InAccess, IsWrite, Pending, FileEnd, File, NoTool, Tool, ToolPlaces,
       Accessing, IsRead, Zeros, CrcWord, WalkShape, CallFields, WalkFields, ToolFields,
       IsRow
<1>10. ToolData'
    BY EepromConstants, SiiConstants DEF IInv, ToolData, ToolRuns, Outcomes, Commands,
       Places, Counts, Types, Shapes, EepromTake, Retried, Reaches, Datagram, WkcOf,
       NOFRAME, Outcome, Reading, WritingAlias, WritingFile, Fine, IsTool, ToolReads,
       InAccess, IsWrite, IsRead, Pending, FileWord, FileEnd, File, NoTool, Tool,
       Covered, Done, Mine, NoCmd, Zeros, ToolPlaces, Accessing, CrcWord, WalkShape,
       CallFields, WalkFields, ToolFields, IsRow
<1>11. QED  BY <1>1, <1>2, <1>3, <1>4, <1>5, <1>6, <1>7, <1>8, <1>9, <1>10 DEF IInv

(* Giving it back. *)
LEMMA EepromGiveKeeps ==
  ASSUME IInv, EepromGive, UNCHANGED tool
  PROVE  IInv'
<1>0. /\ pc = "give" /\ ~IsTool /\ UNCHANGED <<works, call, walk, tool>>
      /\ \/ pc' = "give" /\ eep_pdi' = eep_pdi
         \/ pc' = "idle" /\ walk.stage = "done" /\ eep_pdi' = 1
         \/ pc' = "get" /\ walk.stage # "done" /\ eep_pdi' = 1
      /\ pc' # "give" /\ loss' <= Retries /\ works # "gone" => owner' = "pdi"
  <2>1. PICK o \in Outcome :
          /\ Datagram(o)
          /\ owner' = IF Reaches(o) THEN "pdi" ELSE owner
          /\ Retried(WkcOf(o), "give", IF walk.stage = "done" THEN "idle" ELSE "get")
    BY DEF EepromGive
  <2>2. /\ pc = "give" /\ UNCHANGED <<works, call, walk, tool>>
        /\ eep_pdi' = IF cnt' = 0 THEN 1 ELSE eep_pdi
    BY DEF EepromGive
  <2>3. ~IsTool
    BY <2>2 DEF IInv, Places, ToolPlaces, InAccess
  <2>4. cnt \in Nat /\ (works # "gone" => cnt <= loss) /\ loss \in Nat
    BY DEF IInv, Types, Counts
  <2>5. pc' # "give" /\ loss' <= Retries /\ works # "gone" => owner' = "pdi"
    BY <2>1, <2>4, EepromConstants DEF Datagram, Retried, Reaches, WkcOf, NOFRAME, Outcome
  <2>6. \/ pc' = "give" /\ eep_pdi' = eep_pdi
        \/ pc' = "idle" /\ walk.stage = "done" /\ eep_pdi' = 1
        \/ pc' = "get" /\ walk.stage # "done" /\ eep_pdi' = 1
    BY <2>1, <2>2, <2>4 DEF Retried
  <2>7. QED  BY <2>2, <2>3, <2>5, <2>6
<1>1. Shapes'
    BY EepromConstants, SiiConstants DEF IInv, Shapes, Types, EepromGive, Retried,
       Reaches, Datagram, WkcOf, NOFRAME, Outcome, WalkShape, CallFields, WalkFields,
       ToolFields, IsRow, Zeros
<1>2. Types'
    BY DEF IInv, Types, EepromGive, Retried, Datagram
<1>3. Places'
  <2>1. pc' = "get" => call.kind = "walk"
    BY <1>0 DEF IInv, Places, Walking
  <2>2. UNCHANGED adr
    BY DEF EepromGive
  <2>3. QED
    BY <1>0, <2>1, <2>2 DEF IInv, Places, ToolPlaces, InAccess, Accessing, IsTool,
       IsRead, IsWrite, Pending
<1>4. Counts'
  <2>1. UNCHANGED <<nackcnt, gaveUp, result, expired>>
    BY DEF EepromGive
  <2>2. ~IsWrite
    BY <1>0 DEF IInv, Places, IsWrite
  <2>3. works # "gone" => cnt' <= loss'
    BY DEF IInv, Types, Counts, EepromGive, Retried, Datagram, WkcOf, NOFRAME, Outcome
  <2>4. QED  BY <1>0, <2>1, <2>2, <2>3 DEF IInv, Counts, InAccess, IsWrite
<1>5. Walking'
    BY EepromConstants, SiiConstants DEF IInv, Walking, Places, Shapes, EepromGive,
       Retried, Reaches, Datagram, WkcOf, NOFRAME, Outcome, InAccess, Accessing,
       Sections, Stages, IsTool, NoTool, Tool, ToolPlaces, IsRead, IsWrite, Pending,
       Zeros, CrcWord, WalkShape, CallFields, WalkFields, ToolFields, IsRow
<1>6. Owned'
  <2>1. owner' \in {"master", "pdi"}
    BY DEF IInv, Types, EepromGive
  <2>2. QED  BY <1>0, <2>1 DEF IInv, Types, Owned, IsTool, InAccess
<1>7. Commands'
    BY EepromConstants, SiiConstants DEF IInv, Commands, Places, Counts, Types, Shapes,
       EepromGive, Retried, Reaches, Datagram, WkcOf, NOFRAME, Outcome, Fine, Mine,
       IsWrite, NoCmd, InAccess, ToolPlaces, Accessing, IsRead, IsTool, Pending, NoTool,
       Tool, Zeros, CrcWord, WalkShape, CallFields, WalkFields, ToolFields, IsRow
<1>8. Outcomes'
    BY EepromConstants, SiiConstants DEF IInv, Outcomes, Commands, Places, Counts,
       Types, Shapes, Owned, EepromGive, Retried, Reaches, Datagram, WkcOf, NOFRAME,
       Outcome, Covered, Done, IsWrite, IsRead, Mine, NoCmd, IsTool, Zeros, Fine,
       InAccess, ToolPlaces, Accessing, Pending, NoTool, Tool, CrcWord, WalkShape,
       CallFields, WalkFields, ToolFields, IsRow
<1>9. ToolRuns'
    BY EepromConstants, SiiConstants DEF IInv, ToolRuns, Places, Types, Shapes,
       EepromGive, Retried, Reaches, Datagram, WkcOf, NOFRAME, Outcome, IsTool,
       ToolReads, InAccess, IsWrite, Pending, FileEnd, File, NoTool, Tool, ToolPlaces,
       Accessing, IsRead, Zeros, CrcWord, WalkShape, CallFields, WalkFields, ToolFields,
       IsRow
<1>10. ToolData'
    BY EepromConstants, SiiConstants DEF IInv, ToolData, ToolRuns, Outcomes, Commands,
       Places, Counts, Types, Shapes, EepromGive, Retried, Reaches, Datagram, WkcOf,
       NOFRAME, Outcome, Reading, WritingAlias, WritingFile, Fine, IsTool, ToolReads,
       InAccess, IsWrite, IsRead, Pending, FileWord, FileEnd, File, NoTool, Tool,
       Covered, Done, Mine, NoCmd, Zeros, ToolPlaces, Accessing, CrcWord, WalkShape,
       CallFields, WalkFields, ToolFields, IsRow
<1>11. QED  BY <1>1, <1>2, <1>3, <1>4, <1>5, <1>6, <1>7, <1>8, <1>9, <1>10 DEF IInv

(* A word of the cache: a step of the walk. *)
LEMMA GetHitKeeps ==
  ASSUME IInv, GetHit, UNCHANGED tool
  PROVE  IInv'
<1>0. GoodStep(walk, walk') /\ ~IsTool /\ call.kind = "walk"
  <2>1. PICK x : walk' = WalkOn(walk, x)
    BY DEF GetHit
  <2>2. /\ pc = "get" /\ ~IsTool /\ call.kind = "walk" /\ WalkShape(walk)
        /\ \/ walk.kind = "word" /\ walk.stage = "word"
           \/ walk.kind \in Sections /\ walk.stage \in Stages \ {"done"}
        /\ walk.kind = "find" => walk.stage # "len"
    BY DEF IInv, GetHit, Places, ToolPlaces, InAccess, Walking, Shapes, Sections
  <2>3. QED  BY <2>1, <2>2, WalkSteps
<1>1. Shapes'  BY <1>0 DEF IInv, GetHit, Shapes, GoodStep, chipVars, IsRow
<1>2. Types'
    BY EepromConstants, SiiConstants DEF IInv, Types, Shapes, Places, Counts, GetHit,
       GoesBack, chipVars, WalkShape, CallFields, WalkFields, ToolFields, IsRow, Zeros,
       InAccess, ToolPlaces, Accessing, IsRead, IsTool, IsWrite, Pending, NoTool, Tool,
       CrcWord
<1>3. Places'
    BY EepromConstants, SiiConstants DEF IInv, Places, Types, Shapes, GetHit, GoesBack,
       chipVars, InAccess, ToolPlaces, Accessing, IsRead, IsTool, IsWrite, Pending,
       NoTool, Tool, Zeros, CrcWord, WalkShape, CallFields, WalkFields, ToolFields,
       IsRow
<1>4. Counts'
    BY EepromConstants, SiiConstants DEF IInv, Counts, Places, Types, Shapes, GetHit,
       GoesBack, chipVars, InAccess, IsWrite, Zeros, ToolPlaces, Accessing, IsRead,
       IsTool, Pending, NoTool, Tool, CrcWord, WalkShape, CallFields, WalkFields,
       ToolFields, IsRow
<1>5. Walking'
  <2>1. pc' \in {"get", "give", "idle"} /\ (pc' = "get" => walk'.stage # "done")
        /\ (pc' = "idle" => walk'.stage = "done") /\ call' = call
    BY DEF GetHit
  <2>2. walk'.kind = walk.kind /\ (walk.kind = "word" => walk'.stage \in {"word", "done"})
        /\ (walk.kind # "word" => walk'.stage \in Stages)
        /\ (walk.kind = "find" => walk'.stage # "len")
    BY <1>0 DEF GoodStep
  <2>3. QED  BY <1>0, <2>1, <2>2 DEF IInv, Walking, IsTool, Sections, InAccess
<1>6. Owned'
  <2>1. pc = "get" /\ UNCHANGED <<owner, works, eep_pdi, call, loss, tool>>
        /\ pc' \in {"give", "get", "idle"}
        /\ (pc' = "give" => eep_pdi = 0)
        /\ (pc' = "idle" /\ walk'.back /\ call.eectl = 1 => eep_pdi # 0)
        /\ (pc' = "idle" => walk'.stage = "done")
    BY DEF GetHit, GoesBack, chipVars
  <2>2. walk'.kind = "word" \/ (walk'.stage = "done" => walk'.back)
    BY <1>0 DEF GoodStep
  <2>3. QED  BY <1>0, <2>1, <2>2 DEF IInv, Owned, Types, IsTool, InAccess
<1>7. Commands'
    BY EepromConstants, SiiConstants DEF IInv, Commands, Places, Counts, Types, Shapes,
       GetHit, GoesBack, chipVars, Fine, Mine, IsWrite, NoCmd, InAccess, ToolPlaces,
       Accessing, IsRead, IsTool, Pending, NoTool, Tool, Zeros, CrcWord, WalkShape,
       CallFields, WalkFields, ToolFields, IsRow
<1>8. Outcomes'
    BY EepromConstants, SiiConstants DEF IInv, Outcomes, Commands, Places, Counts,
       Types, Shapes, Owned, GetHit, GoesBack, chipVars, Covered, Done, IsWrite, IsRead,
       Mine, NoCmd, IsTool, Zeros, Fine, InAccess, ToolPlaces, Accessing, Pending,
       NoTool, Tool, CrcWord, WalkShape, CallFields, WalkFields, ToolFields, IsRow
<1>9. ToolRuns'
    BY EepromConstants, SiiConstants DEF IInv, ToolRuns, Places, Types, Shapes, GetHit,
       GoesBack, chipVars, IsTool, ToolReads, InAccess, IsWrite, Pending, FileEnd, File,
       NoTool, Tool, ToolPlaces, Accessing, IsRead, Zeros, CrcWord, WalkShape,
       CallFields, WalkFields, ToolFields, IsRow
<1>10. ToolData'
    BY EepromConstants, SiiConstants DEF IInv, ToolData, ToolRuns, Outcomes, Commands,
       Places, Counts, Types, Shapes, GetHit, GoesBack, chipVars, Reading, WritingAlias,
       WritingFile, Fine, IsTool, ToolReads, InAccess, IsWrite, IsRead, Pending,
       FileWord, FileEnd, File, NoTool, Tool, Covered, Done, Mine, NoCmd, Zeros,
       ToolPlaces, Accessing, CrcWord, WalkShape, CallFields, WalkFields, ToolFields,
       IsRow
<1>11. QED  BY <1>1, <1>2, <1>3, <1>4, <1>5, <1>6, <1>7, <1>8, <1>9, <1>10 DEF IInv

(* A word that is not in the cache: an access begins. *)
LEMMA GetMissKeeps ==
  ASSUME IInv, GetMiss, UNCHANGED tool
  PROVE  IInv'
<1>1. Shapes'
    BY EepromConstants, SiiConstants DEF IInv, Shapes, Types, GetMiss, StartCall,
       StartAccess, Entry, NoAccess, NoWalk, Walk, Zeros, chipVars, WalkShape,
       CallFields, WalkFields, ToolFields, IsRow
<1>2. Types'
    BY EepromConstants, SiiConstants DEF IInv, Types, Shapes, Places, Counts, GetMiss,
       StartCall, StartAccess, Entry, NoAccess, NoWalk, Walk, Zeros, chipVars,
       WalkShape, CallFields, WalkFields, ToolFields, IsRow, InAccess, ToolPlaces,
       Accessing, IsRead, IsTool, IsWrite, Pending, NoTool, Tool, CrcWord
<1>3. Places'
    BY EepromConstants, SiiConstants DEF IInv, Places, Types, Shapes, GetMiss,
       StartCall, StartAccess, Entry, NoAccess, NoWalk, Walk, Zeros, chipVars, InAccess,
       ToolPlaces, Accessing, IsRead, IsTool, IsWrite, Pending, NoTool, Tool, CrcWord,
       WalkShape, CallFields, WalkFields, ToolFields, IsRow
<1>4. Counts'
    BY EepromConstants, SiiConstants DEF IInv, Counts, Places, Types, Shapes, GetMiss,
       StartCall, StartAccess, Entry, NoAccess, NoWalk, Walk, Zeros, chipVars, InAccess,
       IsWrite, ToolPlaces, Accessing, IsRead, IsTool, Pending, NoTool, Tool, CrcWord,
       WalkShape, CallFields, WalkFields, ToolFields, IsRow
<1>5. Walking'
    BY EepromConstants, SiiConstants DEF IInv, Walking, Places, Shapes, GetMiss,
       StartCall, StartAccess, Entry, NoAccess, NoWalk, Walk, Zeros, chipVars, InAccess,
       Accessing, Sections, Stages, IsTool, NoTool, Tool, ToolPlaces, IsRead, IsWrite,
       Pending, CrcWord, WalkShape, CallFields, WalkFields, ToolFields, IsRow
<1>6. Owned'
    BY EepromConstants, SiiConstants DEF IInv, Owned, Places, Types, Shapes, Walking,
       GetMiss, StartCall, StartAccess, Entry, NoAccess, NoWalk, Walk, Zeros, chipVars,
       InAccess, IsTool, NoTool, Tool, ToolPlaces, Accessing, IsRead, IsWrite, Pending,
       CrcWord, WalkShape, CallFields, WalkFields, ToolFields, IsRow, Sections, Stages
<1>7. Commands'
    BY EepromConstants, SiiConstants DEF IInv, Commands, Places, Counts, Types, Shapes,
       GetMiss, StartCall, StartAccess, Entry, NoAccess, NoWalk, Walk, Zeros, chipVars,
       Fine, Mine, IsWrite, NoCmd, InAccess, ToolPlaces, Accessing, IsRead, IsTool,
       Pending, NoTool, Tool, CrcWord, WalkShape, CallFields, WalkFields, ToolFields,
       IsRow
<1>8. Outcomes'
    BY EepromConstants, SiiConstants DEF IInv, Outcomes, Commands, Places, Counts,
       Types, Shapes, Owned, GetMiss, StartCall, StartAccess, Entry, NoAccess, NoWalk,
       Walk, Zeros, chipVars, Covered, Done, IsWrite, IsRead, Mine, NoCmd, IsTool, Fine,
       InAccess, ToolPlaces, Accessing, Pending, NoTool, Tool, CrcWord, WalkShape,
       CallFields, WalkFields, ToolFields, IsRow
<1>9. ToolRuns'
    BY EepromConstants, SiiConstants DEF IInv, ToolRuns, Places, Types, Shapes, GetMiss,
       StartCall, StartAccess, Entry, NoAccess, NoWalk, Walk, Zeros, chipVars, IsTool,
       ToolReads, InAccess, IsWrite, Pending, FileEnd, File, NoTool, Tool, ToolPlaces,
       Accessing, IsRead, CrcWord, WalkShape, CallFields, WalkFields, ToolFields, IsRow
<1>10. ToolData'
    BY EepromConstants, SiiConstants DEF IInv, ToolData, ToolRuns, Outcomes, Commands,
       Places, Counts, Types, Shapes, GetMiss, StartCall, StartAccess, Entry, NoAccess,
       NoWalk, Walk, Zeros, chipVars, Reading, WritingAlias, WritingFile, Fine, IsTool,
       ToolReads, InAccess, IsWrite, IsRead, Pending, FileWord, FileEnd, File, NoTool,
       Tool, Covered, Done, Mine, NoCmd, ToolPlaces, Accessing, CrcWord, WalkShape,
       CallFields, WalkFields, ToolFields, IsRow
<1>11. QED  BY <1>1, <1>2, <1>3, <1>4, <1>5, <1>6, <1>7, <1>8, <1>9, <1>10 DEF IInv

(* A chunk of the dump. *)
LEMMA DumpedKeeps ==
  ASSUME IInv, Dumped, UNCHANGED tool
  PROVE  IInv'
<1>1. Shapes'
    BY EepromConstants, SiiConstants DEF IInv, Shapes, Types, Dumped, StartCall,
       StartAccess, Entry, NoAccess, NoWalk, Walk, Zeros, chipVars, WalkShape,
       CallFields, WalkFields, ToolFields, IsRow
<1>2. Types'
  <2>1. /\ UNCHANGED <<owner, works, eep_pdi, call, loss>>
        /\ UNCHANGED <<cnt, nackcnt>> \/ (cnt' = 0 /\ nackcnt' = 0)
    BY DEF Dumped, StartAccess, chipVars
  <2>2. QED  BY <2>1 DEF IInv, Types
<1>3. Places'
    BY EepromConstants, SiiConstants DEF IInv, Places, Types, Shapes, Dumped, StartCall,
       StartAccess, Entry, NoAccess, NoWalk, Walk, Zeros, chipVars, InAccess,
       ToolPlaces, Accessing, IsRead, IsTool, IsWrite, Pending, NoTool, Tool, CrcWord,
       WalkShape, CallFields, WalkFields, ToolFields, IsRow
<1>4. Counts'
  <2>1. /\ pc = "dumped" /\ call.kind = "dump" /\ UNCHANGED <<works, call, loss, gaveUp>>
        /\ \/ /\ cnt' = 0 /\ nackcnt' = 0 /\ ~expired' /\ result' = Zeros
              /\ pc' \in {"force", "wait"}
           \/ UNCHANGED <<cnt, nackcnt, expired, result>> /\ pc' \in {"give", "idle"}
    BY DEF IInv, Places, ToolPlaces, InAccess, Dumped, StartAccess, Entry, chipVars
  <2>2. QED  BY <2>1 DEF IInv, Types, Counts, InAccess, IsWrite
<1>5. Walking'
    BY EepromConstants, SiiConstants DEF IInv, Walking, Places, Shapes, Dumped,
       StartCall, StartAccess, Entry, NoAccess, NoWalk, Walk, Zeros, chipVars, InAccess,
       Accessing, Sections, Stages, IsTool, NoTool, Tool, ToolPlaces, IsRead, IsWrite,
       Pending, CrcWord, WalkShape, CallFields, WalkFields, ToolFields, IsRow
<1>6. Owned'
    BY EepromConstants, SiiConstants DEF IInv, Owned, Places, Types, Shapes, Walking,
       Dumped, StartCall, StartAccess, Entry, NoAccess, NoWalk, Walk, Zeros, chipVars,
       InAccess, IsTool, NoTool, Tool, ToolPlaces, Accessing, IsRead, IsWrite, Pending,
       CrcWord, WalkShape, CallFields, WalkFields, ToolFields, IsRow, Sections, Stages
<1>7. Commands'
    BY EepromConstants, SiiConstants DEF IInv, Commands, Places, Counts, Types, Shapes,
       Dumped, StartCall, StartAccess, Entry, NoAccess, NoWalk, Walk, Zeros, chipVars,
       Fine, Mine, IsWrite, NoCmd, InAccess, ToolPlaces, Accessing, IsRead, IsTool,
       Pending, NoTool, Tool, CrcWord, WalkShape, CallFields, WalkFields, ToolFields,
       IsRow
<1>8. Outcomes'
    BY EepromConstants, SiiConstants DEF IInv, Outcomes, Commands, Places, Counts,
       Types, Shapes, Owned, Dumped, StartCall, StartAccess, Entry, NoAccess, NoWalk,
       Walk, Zeros, chipVars, Covered, Done, IsWrite, IsRead, Mine, NoCmd, IsTool, Fine,
       InAccess, ToolPlaces, Accessing, Pending, NoTool, Tool, CrcWord, WalkShape,
       CallFields, WalkFields, ToolFields, IsRow
<1>9. ToolRuns'
    BY EepromConstants, SiiConstants DEF IInv, ToolRuns, Places, Types, Shapes, Dumped,
       StartCall, StartAccess, Entry, NoAccess, NoWalk, Walk, Zeros, chipVars, IsTool,
       ToolReads, InAccess, IsWrite, Pending, FileEnd, File, NoTool, Tool, ToolPlaces,
       Accessing, IsRead, CrcWord, WalkShape, CallFields, WalkFields, ToolFields, IsRow
<1>10. ToolData'
    BY EepromConstants, SiiConstants DEF IInv, ToolData, ToolRuns, Outcomes, Commands,
       Places, Counts, Types, Shapes, Dumped, StartCall, StartAccess, Entry, NoAccess,
       NoWalk, Walk, Zeros, chipVars, Reading, WritingAlias, WritingFile, Fine, IsTool,
       ToolReads, InAccess, IsWrite, IsRead, Pending, FileWord, FileEnd, File, NoTool,
       Tool, Covered, Done, Mine, NoCmd, ToolPlaces, Accessing, CrcWord, WalkShape,
       CallFields, WalkFields, ToolFields, IsRow
<1>11. QED  BY <1>1, <1>2, <1>3, <1>4, <1>5, <1>6, <1>7, <1>8, <1>9, <1>10 DEF IInv

(* The calls. *)
LEMMA CallReadKeeps ==
  ASSUME IInv, NEW a \in {Alias, START}, CallRead(a), ~IsTool, UNCHANGED tool
  PROVE  IInv'
<1>1. Shapes'
    BY EepromConstants, SiiConstants DEF IInv, Shapes, Types, CallRead, StartCall,
       StartAccess, Entry, NoAccess, NoWalk, Walk, Zeros, chipVars, WalkShape,
       CallFields, WalkFields, ToolFields, IsRow
<1>2. Types'
    BY EepromConstants, SiiConstants DEF IInv, Types, Shapes, Places, Counts, CallRead,
       StartCall, StartAccess, Entry, NoAccess, NoWalk, Walk, Zeros, chipVars,
       WalkShape, CallFields, WalkFields, ToolFields, IsRow, InAccess, ToolPlaces,
       Accessing, IsRead, IsTool, IsWrite, Pending, NoTool, Tool, CrcWord
<1>3. Places'
    BY EepromConstants, SiiConstants DEF IInv, Places, Types, Shapes, CallRead,
       StartCall, StartAccess, Entry, NoAccess, NoWalk, Walk, Zeros, chipVars, InAccess,
       ToolPlaces, Accessing, IsRead, IsTool, IsWrite, Pending, NoTool, Tool, CrcWord,
       WalkShape, CallFields, WalkFields, ToolFields, IsRow
<1>4. Counts'
    BY EepromConstants, SiiConstants DEF IInv, Counts, Places, Types, Shapes, CallRead,
       StartCall, StartAccess, Entry, NoAccess, NoWalk, Walk, Zeros, chipVars, InAccess,
       IsWrite, ToolPlaces, Accessing, IsRead, IsTool, Pending, NoTool, Tool, CrcWord,
       WalkShape, CallFields, WalkFields, ToolFields, IsRow
<1>5. Walking'
    BY EepromConstants, SiiConstants DEF IInv, Walking, Places, Shapes, CallRead,
       StartCall, StartAccess, Entry, NoAccess, NoWalk, Walk, Zeros, chipVars, InAccess,
       Accessing, Sections, Stages, IsTool, NoTool, Tool, ToolPlaces, IsRead, IsWrite,
       Pending, CrcWord, WalkShape, CallFields, WalkFields, ToolFields, IsRow
<1>6. Owned'
    BY EepromConstants, SiiConstants DEF IInv, Owned, Places, Types, Shapes, Walking,
       CallRead, StartCall, StartAccess, Entry, NoAccess, NoWalk, Walk, Zeros, chipVars,
       InAccess, IsTool, NoTool, Tool, ToolPlaces, Accessing, IsRead, IsWrite, Pending,
       CrcWord, WalkShape, CallFields, WalkFields, ToolFields, IsRow, Sections, Stages
<1>7. Commands'
    BY EepromConstants, SiiConstants DEF IInv, Commands, Places, Counts, Types, Shapes,
       CallRead, StartCall, StartAccess, Entry, NoAccess, NoWalk, Walk, Zeros, chipVars,
       Fine, Mine, IsWrite, NoCmd, InAccess, ToolPlaces, Accessing, IsRead, IsTool,
       Pending, NoTool, Tool, CrcWord, WalkShape, CallFields, WalkFields, ToolFields,
       IsRow
<1>8. Outcomes'
    BY EepromConstants, SiiConstants DEF IInv, Outcomes, Commands, Places, Counts,
       Types, Shapes, Owned, CallRead, StartCall, StartAccess, Entry, NoAccess, NoWalk,
       Walk, Zeros, chipVars, Covered, Done, IsWrite, IsRead, Mine, NoCmd, IsTool, Fine,
       InAccess, ToolPlaces, Accessing, Pending, NoTool, Tool, CrcWord, WalkShape,
       CallFields, WalkFields, ToolFields, IsRow
<1>9. ToolRuns'
    BY EepromConstants, SiiConstants DEF IInv, ToolRuns, Places, Types, Shapes,
       CallRead, StartCall, StartAccess, Entry, NoAccess, NoWalk, Walk, Zeros, chipVars,
       IsTool, ToolReads, InAccess, IsWrite, Pending, FileEnd, File, NoTool, Tool,
       ToolPlaces, Accessing, IsRead, CrcWord, WalkShape, CallFields, WalkFields,
       ToolFields, IsRow
<1>10. ToolData'
    BY EepromConstants, SiiConstants DEF IInv, ToolData, ToolRuns, Outcomes, Commands,
       Places, Counts, Types, Shapes, CallRead, StartCall, StartAccess, Entry, NoAccess,
       NoWalk, Walk, Zeros, chipVars, Reading, WritingAlias, WritingFile, Fine, IsTool,
       ToolReads, InAccess, IsWrite, IsRead, Pending, FileWord, FileEnd, File, NoTool,
       Tool, Covered, Done, Mine, NoCmd, ToolPlaces, Accessing, CrcWord, WalkShape,
       CallFields, WalkFields, ToolFields, IsRow
<1>11. QED  BY <1>1, <1>2, <1>3, <1>4, <1>5, <1>6, <1>7, <1>8, <1>9, <1>10 DEF IInv

LEMMA CallWriteKeeps ==
  ASSUME IInv, NEW v, CallWrite(v), ~IsTool, UNCHANGED tool
  PROVE  IInv'
<1>1. Shapes'
    BY EepromConstants, SiiConstants DEF IInv, Shapes, Types, CallWrite, StartCall,
       StartAccess, Entry, NoAccess, NoWalk, Walk, Zeros, chipVars, WalkShape,
       CallFields, WalkFields, ToolFields, IsRow
<1>2. Types'
    BY EepromConstants, SiiConstants DEF IInv, Types, Shapes, Places, Counts, CallWrite,
       StartCall, StartAccess, Entry, NoAccess, NoWalk, Walk, Zeros, chipVars,
       WalkShape, CallFields, WalkFields, ToolFields, IsRow, InAccess, ToolPlaces,
       Accessing, IsRead, IsTool, IsWrite, Pending, NoTool, Tool, CrcWord
<1>3. Places'
    BY EepromConstants, SiiConstants DEF IInv, Places, Types, Shapes, CallWrite,
       StartCall, StartAccess, Entry, NoAccess, NoWalk, Walk, Zeros, chipVars, InAccess,
       ToolPlaces, Accessing, IsRead, IsTool, IsWrite, Pending, NoTool, Tool, CrcWord,
       WalkShape, CallFields, WalkFields, ToolFields, IsRow
<1>4. Counts'
    BY EepromConstants, SiiConstants DEF IInv, Counts, Places, Types, Shapes, CallWrite,
       StartCall, StartAccess, Entry, NoAccess, NoWalk, Walk, Zeros, chipVars, InAccess,
       IsWrite, ToolPlaces, Accessing, IsRead, IsTool, Pending, NoTool, Tool, CrcWord,
       WalkShape, CallFields, WalkFields, ToolFields, IsRow
<1>5. Walking'
    BY EepromConstants, SiiConstants DEF IInv, Walking, Places, Shapes, CallWrite,
       StartCall, StartAccess, Entry, NoAccess, NoWalk, Walk, Zeros, chipVars, InAccess,
       Accessing, Sections, Stages, IsTool, NoTool, Tool, ToolPlaces, IsRead, IsWrite,
       Pending, CrcWord, WalkShape, CallFields, WalkFields, ToolFields, IsRow
<1>6. Owned'
    BY EepromConstants, SiiConstants DEF IInv, Owned, Places, Types, Shapes, Walking,
       CallWrite, StartCall, StartAccess, Entry, NoAccess, NoWalk, Walk, Zeros,
       chipVars, InAccess, IsTool, NoTool, Tool, ToolPlaces, Accessing, IsRead, IsWrite,
       Pending, CrcWord, WalkShape, CallFields, WalkFields, ToolFields, IsRow, Sections,
       Stages
<1>7. Commands'
    BY EepromConstants, SiiConstants DEF IInv, Commands, Places, Counts, Types, Shapes,
       CallWrite, StartCall, StartAccess, Entry, NoAccess, NoWalk, Walk, Zeros,
       chipVars, Fine, Mine, IsWrite, NoCmd, InAccess, ToolPlaces, Accessing, IsRead,
       IsTool, Pending, NoTool, Tool, CrcWord, WalkShape, CallFields, WalkFields,
       ToolFields, IsRow
<1>8. Outcomes'
    BY EepromConstants, SiiConstants DEF IInv, Outcomes, Commands, Places, Counts,
       Types, Shapes, Owned, CallWrite, StartCall, StartAccess, Entry, NoAccess, NoWalk,
       Walk, Zeros, chipVars, Covered, Done, IsWrite, IsRead, Mine, NoCmd, IsTool, Fine,
       InAccess, ToolPlaces, Accessing, Pending, NoTool, Tool, CrcWord, WalkShape,
       CallFields, WalkFields, ToolFields, IsRow
<1>9. ToolRuns'
    BY EepromConstants, SiiConstants DEF IInv, ToolRuns, Places, Types, Shapes,
       CallWrite, StartCall, StartAccess, Entry, NoAccess, NoWalk, Walk, Zeros,
       chipVars, IsTool, ToolReads, InAccess, IsWrite, Pending, FileEnd, File, NoTool,
       Tool, ToolPlaces, Accessing, IsRead, CrcWord, WalkShape, CallFields, WalkFields,
       ToolFields, IsRow
<1>10. ToolData'
    BY EepromConstants, SiiConstants DEF IInv, ToolData, ToolRuns, Outcomes, Commands,
       Places, Counts, Types, Shapes, CallWrite, StartCall, StartAccess, Entry,
       NoAccess, NoWalk, Walk, Zeros, chipVars, Reading, WritingAlias, WritingFile,
       Fine, IsTool, ToolReads, InAccess, IsWrite, IsRead, Pending, FileWord, FileEnd,
       File, NoTool, Tool, Covered, Done, Mine, NoCmd, ToolPlaces, Accessing, CrcWord,
       WalkShape, CallFields, WalkFields, ToolFields, IsRow
<1>11. QED  BY <1>1, <1>2, <1>3, <1>4, <1>5, <1>6, <1>7, <1>8, <1>9, <1>10 DEF IInv

LEMMA CallWalkKeeps ==
  ASSUME IInv, NEW w \in Walks, CallWalk(w), ~IsTool, UNCHANGED tool
  PROVE  IInv'
<1>1. Shapes'
    BY EepromConstants, SiiConstants DEF IInv, Shapes, Types, CallWalk, Walks, WalkWord,
       WalkFind, WalkString, StartCall, StartAccess, Entry, NoAccess, NoWalk, Walk,
       Zeros, chipVars, WalkShape, CallFields, WalkFields, ToolFields, IsRow
<1>2. Types'
    BY EepromConstants, SiiConstants DEF IInv, Types, Shapes, Places, Counts, CallWalk,
       Walks, WalkWord, WalkFind, WalkString, StartCall, StartAccess, Entry, NoAccess,
       NoWalk, Walk, Zeros, chipVars, WalkShape, CallFields, WalkFields, ToolFields,
       IsRow, InAccess, ToolPlaces, Accessing, IsRead, IsTool, IsWrite, Pending, NoTool,
       Tool, CrcWord
<1>3. Places'
    BY EepromConstants, SiiConstants DEF IInv, Places, Types, Shapes, CallWalk, Walks,
       WalkWord, WalkFind, WalkString, StartCall, StartAccess, Entry, NoAccess, NoWalk,
       Walk, Zeros, chipVars, InAccess, ToolPlaces, Accessing, IsRead, IsTool, IsWrite,
       Pending, NoTool, Tool, CrcWord, WalkShape, CallFields, WalkFields, ToolFields,
       IsRow
<1>4. Counts'
    BY EepromConstants, SiiConstants DEF IInv, Counts, Places, Types, Shapes, CallWalk,
       Walks, WalkWord, WalkFind, WalkString, StartCall, StartAccess, Entry, NoAccess,
       NoWalk, Walk, Zeros, chipVars, InAccess, IsWrite, ToolPlaces, Accessing, IsRead,
       IsTool, Pending, NoTool, Tool, CrcWord, WalkShape, CallFields, WalkFields,
       ToolFields, IsRow
<1>5. Walking'
    BY EepromConstants, SiiConstants DEF IInv, Walking, Places, Shapes, CallWalk, Walks,
       WalkWord, WalkFind, WalkString, StartCall, StartAccess, Entry, NoAccess, NoWalk,
       Walk, Zeros, chipVars, InAccess, Accessing, Sections, Stages, IsTool, NoTool,
       Tool, ToolPlaces, IsRead, IsWrite, Pending, CrcWord, WalkShape, CallFields,
       WalkFields, ToolFields, IsRow
<1>6. Owned'
    BY EepromConstants, SiiConstants DEF IInv, Owned, Places, Types, Shapes, Walking,
       CallWalk, Walks, WalkWord, WalkFind, WalkString, StartCall, StartAccess, Entry,
       NoAccess, NoWalk, Walk, Zeros, chipVars, InAccess, IsTool, NoTool, Tool,
       ToolPlaces, Accessing, IsRead, IsWrite, Pending, CrcWord, WalkShape, CallFields,
       WalkFields, ToolFields, IsRow, Sections, Stages
<1>7. Commands'
    BY EepromConstants, SiiConstants DEF IInv, Commands, Places, Counts, Types, Shapes,
       CallWalk, Walks, WalkWord, WalkFind, WalkString, StartCall, StartAccess, Entry,
       NoAccess, NoWalk, Walk, Zeros, chipVars, Fine, Mine, IsWrite, NoCmd, InAccess,
       ToolPlaces, Accessing, IsRead, IsTool, Pending, NoTool, Tool, CrcWord, WalkShape,
       CallFields, WalkFields, ToolFields, IsRow
<1>8. Outcomes'
    BY EepromConstants, SiiConstants DEF IInv, Outcomes, Commands, Places, Counts,
       Types, Shapes, Owned, CallWalk, Walks, WalkWord, WalkFind, WalkString, StartCall,
       StartAccess, Entry, NoAccess, NoWalk, Walk, Zeros, chipVars, Covered, Done,
       IsWrite, IsRead, Mine, NoCmd, IsTool, Fine, InAccess, ToolPlaces, Accessing,
       Pending, NoTool, Tool, CrcWord, WalkShape, CallFields, WalkFields, ToolFields,
       IsRow
<1>9. ToolRuns'
    BY EepromConstants, SiiConstants DEF IInv, ToolRuns, Places, Types, Shapes,
       CallWalk, Walks, WalkWord, WalkFind, WalkString, StartCall, StartAccess, Entry,
       NoAccess, NoWalk, Walk, Zeros, chipVars, IsTool, ToolReads, InAccess, IsWrite,
       Pending, FileEnd, File, NoTool, Tool, ToolPlaces, Accessing, IsRead, CrcWord,
       WalkShape, CallFields, WalkFields, ToolFields, IsRow
<1>10. ToolData'
    BY EepromConstants, SiiConstants DEF IInv, ToolData, ToolRuns, Outcomes, Commands,
       Places, Counts, Types, Shapes, CallWalk, Walks, WalkWord, WalkFind, WalkString,
       StartCall, StartAccess, Entry, NoAccess, NoWalk, Walk, Zeros, chipVars, Reading,
       WritingAlias, WritingFile, Fine, IsTool, ToolReads, InAccess, IsWrite, IsRead,
       Pending, FileWord, FileEnd, File, NoTool, Tool, Covered, Done, Mine, NoCmd,
       ToolPlaces, Accessing, CrcWord, WalkShape, CallFields, WalkFields, ToolFields,
       IsRow
<1>11. QED  BY <1>1, <1>2, <1>3, <1>4, <1>5, <1>6, <1>7, <1>8, <1>9, <1>10 DEF IInv

LEMMA CallDumpKeeps ==
  ASSUME IInv, CallDump, ~IsTool, UNCHANGED tool
  PROVE  IInv'
<1>1. Shapes'
    BY EepromConstants, SiiConstants DEF IInv, Shapes, Types, CallDump, StartCall,
       StartAccess, Entry, NoAccess, NoWalk, Walk, Zeros, chipVars, WalkShape,
       CallFields, WalkFields, ToolFields, IsRow
<1>2. Types'
    BY EepromConstants, SiiConstants DEF IInv, Types, Shapes, Places, Counts, CallDump,
       StartCall, StartAccess, Entry, NoAccess, NoWalk, Walk, Zeros, chipVars,
       WalkShape, CallFields, WalkFields, ToolFields, IsRow, InAccess, ToolPlaces,
       Accessing, IsRead, IsTool, IsWrite, Pending, NoTool, Tool, CrcWord
<1>3. Places'
    BY EepromConstants, SiiConstants DEF IInv, Places, Types, Shapes, CallDump,
       StartCall, StartAccess, Entry, NoAccess, NoWalk, Walk, Zeros, chipVars, InAccess,
       ToolPlaces, Accessing, IsRead, IsTool, IsWrite, Pending, NoTool, Tool, CrcWord,
       WalkShape, CallFields, WalkFields, ToolFields, IsRow
<1>4. Counts'
    BY EepromConstants, SiiConstants DEF IInv, Counts, Places, Types, Shapes, CallDump,
       StartCall, StartAccess, Entry, NoAccess, NoWalk, Walk, Zeros, chipVars, InAccess,
       IsWrite, ToolPlaces, Accessing, IsRead, IsTool, Pending, NoTool, Tool, CrcWord,
       WalkShape, CallFields, WalkFields, ToolFields, IsRow
<1>5. Walking'
    BY EepromConstants, SiiConstants DEF IInv, Walking, Places, Shapes, CallDump,
       StartCall, StartAccess, Entry, NoAccess, NoWalk, Walk, Zeros, chipVars, InAccess,
       Accessing, Sections, Stages, IsTool, NoTool, Tool, ToolPlaces, IsRead, IsWrite,
       Pending, CrcWord, WalkShape, CallFields, WalkFields, ToolFields, IsRow
<1>6. Owned'
    BY EepromConstants, SiiConstants DEF IInv, Owned, Places, Types, Shapes, Walking,
       CallDump, StartCall, StartAccess, Entry, NoAccess, NoWalk, Walk, Zeros, chipVars,
       InAccess, IsTool, NoTool, Tool, ToolPlaces, Accessing, IsRead, IsWrite, Pending,
       CrcWord, WalkShape, CallFields, WalkFields, ToolFields, IsRow, Sections, Stages
<1>7. Commands'
    BY EepromConstants, SiiConstants DEF IInv, Commands, Places, Counts, Types, Shapes,
       CallDump, StartCall, StartAccess, Entry, NoAccess, NoWalk, Walk, Zeros, chipVars,
       Fine, Mine, IsWrite, NoCmd, InAccess, ToolPlaces, Accessing, IsRead, IsTool,
       Pending, NoTool, Tool, CrcWord, WalkShape, CallFields, WalkFields, ToolFields,
       IsRow
<1>8. Outcomes'
    BY EepromConstants, SiiConstants DEF IInv, Outcomes, Commands, Places, Counts,
       Types, Shapes, Owned, CallDump, StartCall, StartAccess, Entry, NoAccess, NoWalk,
       Walk, Zeros, chipVars, Covered, Done, IsWrite, IsRead, Mine, NoCmd, IsTool, Fine,
       InAccess, ToolPlaces, Accessing, Pending, NoTool, Tool, CrcWord, WalkShape,
       CallFields, WalkFields, ToolFields, IsRow
<1>9. ToolRuns'
    BY EepromConstants, SiiConstants DEF IInv, ToolRuns, Places, Types, Shapes,
       CallDump, StartCall, StartAccess, Entry, NoAccess, NoWalk, Walk, Zeros, chipVars,
       IsTool, ToolReads, InAccess, IsWrite, Pending, FileEnd, File, NoTool, Tool,
       ToolPlaces, Accessing, IsRead, CrcWord, WalkShape, CallFields, WalkFields,
       ToolFields, IsRow
<1>10. ToolData'
    BY EepromConstants, SiiConstants DEF IInv, ToolData, ToolRuns, Outcomes, Commands,
       Places, Counts, Types, Shapes, CallDump, StartCall, StartAccess, Entry, NoAccess,
       NoWalk, Walk, Zeros, chipVars, Reading, WritingAlias, WritingFile, Fine, IsTool,
       ToolReads, InAccess, IsWrite, IsRead, Pending, FileWord, FileEnd, File, NoTool,
       Tool, Covered, Done, Mine, NoCmd, ToolPlaces, Accessing, CrcWord, WalkShape,
       CallFields, WalkFields, ToolFields, IsRow
<1>11. QED  BY <1>1, <1>2, <1>3, <1>4, <1>5, <1>6, <1>7, <1>8, <1>9, <1>10 DEF IInv

LEMMA CallMasterKeeps ==
  ASSUME IInv, CallMaster, ~IsTool, UNCHANGED tool
  PROVE  IInv'
<1>1. Shapes'
    BY EepromConstants, SiiConstants DEF IInv, Shapes, Types, CallMaster, StartCall,
       StartAccess, Entry, NoAccess, NoWalk, Walk, Zeros, chipVars, WalkShape,
       CallFields, WalkFields, ToolFields, IsRow
<1>2. Types'
    BY EepromConstants, SiiConstants DEF IInv, Types, Shapes, Places, Counts,
       CallMaster, StartCall, StartAccess, Entry, NoAccess, NoWalk, Walk, Zeros,
       chipVars, WalkShape, CallFields, WalkFields, ToolFields, IsRow, InAccess,
       ToolPlaces, Accessing, IsRead, IsTool, IsWrite, Pending, NoTool, Tool, CrcWord
<1>3. Places'
    BY EepromConstants, SiiConstants DEF IInv, Places, Types, Shapes, CallMaster,
       StartCall, StartAccess, Entry, NoAccess, NoWalk, Walk, Zeros, chipVars, InAccess,
       ToolPlaces, Accessing, IsRead, IsTool, IsWrite, Pending, NoTool, Tool, CrcWord,
       WalkShape, CallFields, WalkFields, ToolFields, IsRow
<1>4. Counts'
    BY EepromConstants, SiiConstants DEF IInv, Counts, Places, Types, Shapes,
       CallMaster, StartCall, StartAccess, Entry, NoAccess, NoWalk, Walk, Zeros,
       chipVars, InAccess, IsWrite, ToolPlaces, Accessing, IsRead, IsTool, Pending,
       NoTool, Tool, CrcWord, WalkShape, CallFields, WalkFields, ToolFields, IsRow
<1>5. Walking'
    BY EepromConstants, SiiConstants DEF IInv, Walking, Places, Shapes, CallMaster,
       StartCall, StartAccess, Entry, NoAccess, NoWalk, Walk, Zeros, chipVars, InAccess,
       Accessing, Sections, Stages, IsTool, NoTool, Tool, ToolPlaces, IsRead, IsWrite,
       Pending, CrcWord, WalkShape, CallFields, WalkFields, ToolFields, IsRow
<1>6. Owned'
    BY EepromConstants, SiiConstants DEF IInv, Owned, Places, Types, Shapes, Walking,
       CallMaster, StartCall, StartAccess, Entry, NoAccess, NoWalk, Walk, Zeros,
       chipVars, InAccess, IsTool, NoTool, Tool, ToolPlaces, Accessing, IsRead, IsWrite,
       Pending, CrcWord, WalkShape, CallFields, WalkFields, ToolFields, IsRow, Sections,
       Stages
<1>7. Commands'
    BY EepromConstants, SiiConstants DEF IInv, Commands, Places, Counts, Types, Shapes,
       CallMaster, StartCall, StartAccess, Entry, NoAccess, NoWalk, Walk, Zeros,
       chipVars, Fine, Mine, IsWrite, NoCmd, InAccess, ToolPlaces, Accessing, IsRead,
       IsTool, Pending, NoTool, Tool, CrcWord, WalkShape, CallFields, WalkFields,
       ToolFields, IsRow
<1>8. Outcomes'
    BY EepromConstants, SiiConstants DEF IInv, Outcomes, Commands, Places, Counts,
       Types, Shapes, Owned, CallMaster, StartCall, StartAccess, Entry, NoAccess,
       NoWalk, Walk, Zeros, chipVars, Covered, Done, IsWrite, IsRead, Mine, NoCmd,
       IsTool, Fine, InAccess, ToolPlaces, Accessing, Pending, NoTool, Tool, CrcWord,
       WalkShape, CallFields, WalkFields, ToolFields, IsRow
<1>9. ToolRuns'
    BY EepromConstants, SiiConstants DEF IInv, ToolRuns, Places, Types, Shapes,
       CallMaster, StartCall, StartAccess, Entry, NoAccess, NoWalk, Walk, Zeros,
       chipVars, IsTool, ToolReads, InAccess, IsWrite, Pending, FileEnd, File, NoTool,
       Tool, ToolPlaces, Accessing, IsRead, CrcWord, WalkShape, CallFields, WalkFields,
       ToolFields, IsRow
<1>10. ToolData'
    BY EepromConstants, SiiConstants DEF IInv, ToolData, ToolRuns, Outcomes, Commands,
       Places, Counts, Types, Shapes, CallMaster, StartCall, StartAccess, Entry,
       NoAccess, NoWalk, Walk, Zeros, chipVars, Reading, WritingAlias, WritingFile,
       Fine, IsTool, ToolReads, InAccess, IsWrite, IsRead, Pending, FileWord, FileEnd,
       File, NoTool, Tool, Covered, Done, Mine, NoCmd, ToolPlaces, Accessing, CrcWord,
       WalkShape, CallFields, WalkFields, ToolFields, IsRow
<1>11. QED  BY <1>1, <1>2, <1>3, <1>4, <1>5, <1>6, <1>7, <1>8, <1>9, <1>10 DEF IInv

LEMMA CallPdiKeeps ==
  ASSUME IInv, CallPdi, ~IsTool, UNCHANGED tool
  PROVE  IInv'
<1>1. Shapes'
    BY EepromConstants, SiiConstants DEF IInv, Shapes, Types, CallPdi, StartCall,
       StartAccess, Entry, NoAccess, NoWalk, Walk, Zeros, chipVars, WalkShape,
       CallFields, WalkFields, ToolFields, IsRow
<1>2. Types'
    BY EepromConstants, SiiConstants DEF IInv, Types, Shapes, Places, Counts, CallPdi,
       StartCall, StartAccess, Entry, NoAccess, NoWalk, Walk, Zeros, chipVars,
       WalkShape, CallFields, WalkFields, ToolFields, IsRow, InAccess, ToolPlaces,
       Accessing, IsRead, IsTool, IsWrite, Pending, NoTool, Tool, CrcWord
<1>3. Places'
    BY EepromConstants, SiiConstants DEF IInv, Places, Types, Shapes, CallPdi,
       StartCall, StartAccess, Entry, NoAccess, NoWalk, Walk, Zeros, chipVars, InAccess,
       ToolPlaces, Accessing, IsRead, IsTool, IsWrite, Pending, NoTool, Tool, CrcWord,
       WalkShape, CallFields, WalkFields, ToolFields, IsRow
<1>4. Counts'
    BY EepromConstants, SiiConstants DEF IInv, Counts, Places, Types, Shapes, CallPdi,
       StartCall, StartAccess, Entry, NoAccess, NoWalk, Walk, Zeros, chipVars, InAccess,
       IsWrite, ToolPlaces, Accessing, IsRead, IsTool, Pending, NoTool, Tool, CrcWord,
       WalkShape, CallFields, WalkFields, ToolFields, IsRow
<1>5. Walking'
    BY EepromConstants, SiiConstants DEF IInv, Walking, Places, Shapes, CallPdi,
       StartCall, StartAccess, Entry, NoAccess, NoWalk, Walk, Zeros, chipVars, InAccess,
       Accessing, Sections, Stages, IsTool, NoTool, Tool, ToolPlaces, IsRead, IsWrite,
       Pending, CrcWord, WalkShape, CallFields, WalkFields, ToolFields, IsRow
<1>6. Owned'
    BY EepromConstants, SiiConstants DEF IInv, Owned, Places, Types, Shapes, Walking,
       CallPdi, StartCall, StartAccess, Entry, NoAccess, NoWalk, Walk, Zeros, chipVars,
       InAccess, IsTool, NoTool, Tool, ToolPlaces, Accessing, IsRead, IsWrite, Pending,
       CrcWord, WalkShape, CallFields, WalkFields, ToolFields, IsRow, Sections, Stages
<1>7. Commands'
    BY EepromConstants, SiiConstants DEF IInv, Commands, Places, Counts, Types, Shapes,
       CallPdi, StartCall, StartAccess, Entry, NoAccess, NoWalk, Walk, Zeros, chipVars,
       Fine, Mine, IsWrite, NoCmd, InAccess, ToolPlaces, Accessing, IsRead, IsTool,
       Pending, NoTool, Tool, CrcWord, WalkShape, CallFields, WalkFields, ToolFields,
       IsRow
<1>8. Outcomes'
    BY EepromConstants, SiiConstants DEF IInv, Outcomes, Commands, Places, Counts,
       Types, Shapes, Owned, CallPdi, StartCall, StartAccess, Entry, NoAccess, NoWalk,
       Walk, Zeros, chipVars, Covered, Done, IsWrite, IsRead, Mine, NoCmd, IsTool, Fine,
       InAccess, ToolPlaces, Accessing, Pending, NoTool, Tool, CrcWord, WalkShape,
       CallFields, WalkFields, ToolFields, IsRow
<1>9. ToolRuns'
    BY EepromConstants, SiiConstants DEF IInv, ToolRuns, Places, Types, Shapes, CallPdi,
       StartCall, StartAccess, Entry, NoAccess, NoWalk, Walk, Zeros, chipVars, IsTool,
       ToolReads, InAccess, IsWrite, Pending, FileEnd, File, NoTool, Tool, ToolPlaces,
       Accessing, IsRead, CrcWord, WalkShape, CallFields, WalkFields, ToolFields, IsRow
<1>10. ToolData'
    BY EepromConstants, SiiConstants DEF IInv, ToolData, ToolRuns, Outcomes, Commands,
       Places, Counts, Types, Shapes, CallPdi, StartCall, StartAccess, Entry, NoAccess,
       NoWalk, Walk, Zeros, chipVars, Reading, WritingAlias, WritingFile, Fine, IsTool,
       ToolReads, InAccess, IsWrite, IsRead, Pending, FileWord, FileEnd, File, NoTool,
       Tool, Covered, Done, Mine, NoCmd, ToolPlaces, Accessing, CrcWord, WalkShape,
       CallFields, WalkFields, ToolFields, IsRow
<1>11. QED  BY <1>1, <1>2, <1>3, <1>4, <1>5, <1>6, <1>7, <1>8, <1>9, <1>10 DEF IInv

(* The cache is cleared. *)
LEMMA OtherSlaveKeeps ==
  ASSUME IInv, OtherSlave, UNCHANGED tool
  PROVE  IInv'
<1>1. Shapes'
    BY EepromConstants, SiiConstants DEF IInv, Shapes, Types, OtherSlave, StartCall,
       StartAccess, Entry, NoAccess, NoWalk, Walk, Zeros, chipVars, WalkShape,
       CallFields, WalkFields, ToolFields, IsRow
<1>2. Types'
    BY EepromConstants, SiiConstants DEF IInv, Types, Shapes, Places, Counts,
       OtherSlave, StartCall, StartAccess, Entry, NoAccess, NoWalk, Walk, Zeros,
       chipVars, WalkShape, CallFields, WalkFields, ToolFields, IsRow, InAccess,
       ToolPlaces, Accessing, IsRead, IsTool, IsWrite, Pending, NoTool, Tool, CrcWord
<1>3. Places'
    BY EepromConstants, SiiConstants DEF IInv, Places, Types, Shapes, OtherSlave,
       StartCall, StartAccess, Entry, NoAccess, NoWalk, Walk, Zeros, chipVars, InAccess,
       ToolPlaces, Accessing, IsRead, IsTool, IsWrite, Pending, NoTool, Tool, CrcWord,
       WalkShape, CallFields, WalkFields, ToolFields, IsRow
<1>4. Counts'
    BY EepromConstants, SiiConstants DEF IInv, Counts, Places, Types, Shapes,
       OtherSlave, StartCall, StartAccess, Entry, NoAccess, NoWalk, Walk, Zeros,
       chipVars, InAccess, IsWrite, ToolPlaces, Accessing, IsRead, IsTool, Pending,
       NoTool, Tool, CrcWord, WalkShape, CallFields, WalkFields, ToolFields, IsRow
<1>5. Walking'
    BY EepromConstants, SiiConstants DEF IInv, Walking, Places, Shapes, OtherSlave,
       StartCall, StartAccess, Entry, NoAccess, NoWalk, Walk, Zeros, chipVars, InAccess,
       Accessing, Sections, Stages, IsTool, NoTool, Tool, ToolPlaces, IsRead, IsWrite,
       Pending, CrcWord, WalkShape, CallFields, WalkFields, ToolFields, IsRow
<1>6. Owned'
    BY EepromConstants, SiiConstants DEF IInv, Owned, Places, Types, Shapes, Walking,
       OtherSlave, StartCall, StartAccess, Entry, NoAccess, NoWalk, Walk, Zeros,
       chipVars, InAccess, IsTool, NoTool, Tool, ToolPlaces, Accessing, IsRead, IsWrite,
       Pending, CrcWord, WalkShape, CallFields, WalkFields, ToolFields, IsRow, Sections,
       Stages
<1>7. Commands'
    BY EepromConstants, SiiConstants DEF IInv, Commands, Places, Counts, Types, Shapes,
       OtherSlave, StartCall, StartAccess, Entry, NoAccess, NoWalk, Walk, Zeros,
       chipVars, Fine, Mine, IsWrite, NoCmd, InAccess, ToolPlaces, Accessing, IsRead,
       IsTool, Pending, NoTool, Tool, CrcWord, WalkShape, CallFields, WalkFields,
       ToolFields, IsRow
<1>8. Outcomes'
    BY EepromConstants, SiiConstants DEF IInv, Outcomes, Commands, Places, Counts,
       Types, Shapes, Owned, OtherSlave, StartCall, StartAccess, Entry, NoAccess,
       NoWalk, Walk, Zeros, chipVars, Covered, Done, IsWrite, IsRead, Mine, NoCmd,
       IsTool, Fine, InAccess, ToolPlaces, Accessing, Pending, NoTool, Tool, CrcWord,
       WalkShape, CallFields, WalkFields, ToolFields, IsRow
<1>9. ToolRuns'
    BY EepromConstants, SiiConstants DEF IInv, ToolRuns, Places, Types, Shapes,
       OtherSlave, StartCall, StartAccess, Entry, NoAccess, NoWalk, Walk, Zeros,
       chipVars, IsTool, ToolReads, InAccess, IsWrite, Pending, FileEnd, File, NoTool,
       Tool, ToolPlaces, Accessing, IsRead, CrcWord, WalkShape, CallFields, WalkFields,
       ToolFields, IsRow
<1>10. ToolData'
    BY EepromConstants, SiiConstants DEF IInv, ToolData, ToolRuns, Outcomes, Commands,
       Places, Counts, Types, Shapes, OtherSlave, StartCall, StartAccess, Entry,
       NoAccess, NoWalk, Walk, Zeros, chipVars, Reading, WritingAlias, WritingFile,
       Fine, IsTool, ToolReads, InAccess, IsWrite, IsRead, Pending, FileWord, FileEnd,
       File, NoTool, Tool, Covered, Done, Mine, NoCmd, ToolPlaces, Accessing, CrcWord,
       WalkShape, CallFields, WalkFields, ToolFields, IsRow
<1>11. QED  BY <1>1, <1>2, <1>3, <1>4, <1>5, <1>6, <1>7, <1>8, <1>9, <1>10 DEF IInv

(* The chip ends its command: only the word of this access is stored. *)
LEMMA ChipDoneKeeps ==
  ASSUME IInv, ChipDone, UNCHANGED tool
  PROVE  IInv'
<1>0. /\ cmd # NoCmd /\ works = "yes" /\ cmd' = NoCmd
      /\ UNCHANGED <<owner, works, pc, call, adr, nackcnt, expired, result, loss, gaveUp, tool>>
      /\ \/ UNCHANGED <<mem, dat>> /\ nack' = TRUE
         \/ /\ cmd.op = "read" /\ UNCHANGED mem
            /\ dat' = [i \in 1..Chunk |-> Word(mem, cmd.adr + i - 1)]
         \/ /\ cmd.op # "read" /\ UNCHANGED dat
            /\ mem' = [mem EXCEPT ![cmd.adr] = dat[1]]
  BY DEF ChipDone
<1>1. Shapes'
    BY EepromConstants, SiiConstants DEF IInv, Shapes, Types, ChipDone, WalkShape,
       CallFields, WalkFields, ToolFields, IsRow, Zeros
<1>2. Types'
    BY EepromConstants, SiiConstants DEF IInv, Types, Shapes, Places, Counts, ChipDone,
       WalkShape, CallFields, WalkFields, ToolFields, IsRow, Zeros, InAccess,
       ToolPlaces, Accessing, IsRead, IsTool, IsWrite, Pending, NoTool, Tool, CrcWord
<1>3. Places'
    BY EepromConstants, SiiConstants DEF IInv, Places, Types, Shapes, ChipDone,
       InAccess, ToolPlaces, Accessing, IsRead, IsTool, IsWrite, Pending, NoTool, Tool,
       Zeros, CrcWord, WalkShape, CallFields, WalkFields, ToolFields, IsRow
<1>4. Counts'
    BY EepromConstants, SiiConstants DEF IInv, Counts, Places, Types, Shapes, ChipDone,
       InAccess, IsWrite, Zeros, ToolPlaces, Accessing, IsRead, IsTool, Pending, NoTool,
       Tool, CrcWord, WalkShape, CallFields, WalkFields, ToolFields, IsRow
<1>5. Walking'
    BY EepromConstants, SiiConstants DEF IInv, Walking, Places, Shapes, ChipDone,
       InAccess, Accessing, Sections, Stages, IsTool, NoTool, Tool, ToolPlaces, IsRead,
       IsWrite, Pending, Zeros, CrcWord, WalkShape, CallFields, WalkFields, ToolFields,
       IsRow
<1>6. Owned'
    BY EepromConstants, SiiConstants DEF IInv, Owned, Places, Types, Shapes, Walking,
       ChipDone, InAccess, IsTool, NoTool, Tool, ToolPlaces, Accessing, IsRead, IsWrite,
       Pending, Zeros, CrcWord, WalkShape, CallFields, WalkFields, ToolFields, IsRow,
       Sections, Stages
<1>7. Commands'
    BY EepromConstants, SiiConstants DEF IInv, Commands, Places, Counts, Types, Shapes,
       ChipDone, Fine, Mine, IsWrite, NoCmd, InAccess, ToolPlaces, Accessing, IsRead,
       IsTool, Pending, NoTool, Tool, Zeros, CrcWord, WalkShape, CallFields, WalkFields,
       ToolFields, IsRow
<1>8. Outcomes'
  <2>1. SUFFICES ASSUME Covered' PROVE Outcomes'
    BY DEF Outcomes
  <2>2. Covered /\ Fine
    BY <1>0, <2>1 DEF Covered, Fine, IsTool
  <2>3. pc \in {"command", "ready"} /\ cmd = Mine
    BY <1>0, <2>2 DEF IInv, Commands
  <2>4. IsWrite => dat[1] = call.val /\ adr \in DOMAIN mem
    BY <2>2, <2>3 DEF IInv, Outcomes, Places, Shapes
  <2>5. IsRead => adr \in Nat /\ ~IsWrite
    BY DEF IInv, Places, IsRead, IsWrite
  <2>6. IsWrite' = IsWrite /\ IsRead' = IsRead
    BY <1>0 DEF IsWrite, IsRead
  <2>7. CASE UNCHANGED <<mem, dat>> /\ nack' = TRUE
    BY <1>0, <2>2, <2>3, <2>4, <2>6, <2>7 DEF Outcomes
  <2>8. CASE /\ cmd.op = "read" /\ UNCHANGED mem
             /\ dat' = [i \in 1..Chunk |-> Word(mem, cmd.adr + i - 1)]
    <3>1. ~IsWrite
      BY <2>3, <2>8 DEF Mine
    <3>2. IsRead => dat' = Words(mem, adr, adr + Chunk)
      <4>1. SUFFICES ASSUME IsRead PROVE dat' = Words(mem, adr, adr + Chunk)
        OBVIOUS
      <4>2. (adr + Chunk) - adr = Chunk /\ cmd.adr = adr
        BY <4>1, <2>3, <2>5, Numbers DEF Mine
      <4>3. QED  BY <4>2, <2>8 DEF Words
    <3>3. Done'
      BY <1>0, <2>6, <2>8, <3>1, <3>2 DEF Done, Words, Word
    <3>4. QED  BY <1>0, <2>3, <2>6, <3>1, <3>3 DEF Outcomes
  <2>9. CASE /\ cmd.op # "read" /\ UNCHANGED dat
             /\ mem' = [mem EXCEPT ![cmd.adr] = dat[1]]
    <3>1. IsWrite /\ cmd.adr = adr
      BY <2>3, <2>9 DEF Mine
    <3>2. mem'[adr] = call.val
      BY <2>4, <2>9, <3>1 DEF IInv, Shapes
    <3>3. Done'
      BY <1>0, <2>5, <2>6, <3>1, <3>2 DEF Done
    <3>4. QED  BY <1>0, <2>3, <2>4, <2>6, <2>9, <3>1, <3>3 DEF Outcomes
  <2>10. QED  BY <1>0, <2>7, <2>8, <2>9
<1>9. ToolRuns'
    BY EepromConstants, SiiConstants DEF IInv, ToolRuns, Places, Types, Shapes,
       ChipDone, IsTool, ToolReads, InAccess, IsWrite, Pending, FileEnd, File, NoTool,
       Tool, ToolPlaces, Accessing, IsRead, Zeros, CrcWord, WalkShape, CallFields,
       WalkFields, ToolFields, IsRow
<1>10. ToolData'
  <2>1. SUFFICES ASSUME IsTool, Fine, ~gaveUp PROVE ToolData'
    BY <1>0 DEF ToolData, IsTool, Fine
  <2>2. pc \in {"command", "ready"} /\ cmd = Mine
    BY <1>0, <2>1 DEF IInv, Commands
  <2>3. owner = "master" /\ Reading /\ WritingAlias /\ WritingFile
    BY <2>1, <2>2 DEF IInv, ToolData
  <2>4. CASE UNCHANGED mem
    BY <1>0, <2>1, <2>2, <2>3, <2>4 DEF ToolData, Reading, ToolReads, WritingAlias,
       WritingFile
  <2>5. CASE cmd.op # "read" /\ mem' = [mem EXCEPT ![cmd.adr] = dat[1]]
    <3>1. /\ call.kind = "writeAP" /\ cmd.adr = adr /\ adr \in 0..CrcWord /\ dat[1] = call.val
          /\ adr \in DOMAIN mem /\ mem = [a \in DOMAIN mem |-> mem[a]]
      BY <2>1, <2>2, <2>3, <2>5
      DEF IInv, Mine, IsWrite, Places, Outcomes, Covered, Fine, Shapes
    <3>2. mem' = [mem EXCEPT ![adr] = call.val]
      BY <2>5, <3>1
    <3>3. ~ToolReads
      BY <2>1, <2>2, <3>1 DEF IInv, ToolRuns
    <3>4. Reading'
      BY <1>0, <2>2, <3>3 DEF Reading, ToolReads
    <3>5. WritingAlias'
      <4>1. SUFFICES ASSUME tool.kind = "writeAlias" PROVE WritingAlias'
        BY <1>0 DEF WritingAlias
      <4>2. /\ WithAlias(SubSeq(tool.buf, 1, CrcWord)) = WithAlias(Words(mem, 0, CrcWord))
            /\ \/ adr = Alias /\ call.val = NewAlias
               \/ adr = CrcWord /\ call.val = NewCrc(tool.buf) /\ mem[Alias] = NewAlias
        BY <2>2, <2>3, <3>1, <4>1 DEF WritingAlias
      <4>3. CASE adr = Alias /\ call.val = NewAlias
        <5>1. WithAlias(Words(mem', 0, CrcWord)) = WithAlias(Words(mem, 0, CrcWord))
          BY <3>1, <3>2, <4>3, AliasWords
        <5>2. QED  BY <1>0, <2>2, <4>2, <4>3, <5>1 DEF WritingAlias
      <4>4. CASE adr = CrcWord /\ call.val = NewCrc(tool.buf) /\ mem[Alias] = NewAlias
        <5>1. Words(mem', 0, CrcWord) = Words(mem, 0, CrcWord)
          BY <3>1, <3>2, <4>4, CrcWords
        <5>2. mem'[Alias] = NewAlias
          BY <3>1, <3>2, <4>4, Numbers
        <5>3. QED  BY <1>0, <2>2, <4>2, <4>4, <5>1, <5>2 DEF WritingAlias
      <4>5. QED  BY <4>2, <4>3, <4>4
    <3>6. WritingFile'
      <4>1. SUFFICES ASSUME tool.kind = "write" PROVE WritingFile'
        BY <1>0 DEF WritingFile
      <4>2. adr = tool.next /\ tool.next \in Nat /\ call.val = FileWord(adr)
            /\ \A a \in File.first..(tool.next - 1) : mem[a] = FileWord(a)
        BY <2>1, <2>2, <2>3, <3>1, <4>1 DEF IInv, ToolRuns, WritingFile
      <4>3. \A a \in File.first..(tool.next - 1) : mem'[a] = mem[a]
        BY <3>1, <3>2, <4>2 DEF File
      <4>4. QED  BY <1>0, <2>2, <4>2, <4>3 DEF WritingFile, FileWord
    <3>7. QED  BY <1>0, <2>2, <2>3, <3>4, <3>5, <3>6 DEF ToolData
  <2>6. QED  BY <1>0, <2>4, <2>5
<1>11. QED  BY <1>1, <1>2, <1>3, <1>4, <1>5, <1>6, <1>7, <1>8, <1>9, <1>10 DEF IInv

(* The chip stops. *)
LEMMA ChipStopsKeeps ==
  ASSUME IInv, ChipStops, UNCHANGED tool
  PROVE  IInv'
<1>1. Shapes'
    BY EepromConstants, SiiConstants DEF IInv, Shapes, Types, ChipStops, WalkShape,
       CallFields, WalkFields, ToolFields, IsRow, Zeros
<1>2. Types'
    BY EepromConstants, SiiConstants DEF IInv, Types, Shapes, Places, Counts, ChipStops,
       WalkShape, CallFields, WalkFields, ToolFields, IsRow, Zeros, InAccess,
       ToolPlaces, Accessing, IsRead, IsTool, IsWrite, Pending, NoTool, Tool, CrcWord
<1>3. Places'
    BY EepromConstants, SiiConstants DEF IInv, Places, Types, Shapes, ChipStops,
       InAccess, ToolPlaces, Accessing, IsRead, IsTool, IsWrite, Pending, NoTool, Tool,
       Zeros, CrcWord, WalkShape, CallFields, WalkFields, ToolFields, IsRow
<1>4. Counts'
    BY EepromConstants, SiiConstants DEF IInv, Counts, Places, Types, Shapes, ChipStops,
       InAccess, IsWrite, Zeros, ToolPlaces, Accessing, IsRead, IsTool, Pending, NoTool,
       Tool, CrcWord, WalkShape, CallFields, WalkFields, ToolFields, IsRow
<1>5. Walking'
    BY EepromConstants, SiiConstants DEF IInv, Walking, Places, Shapes, ChipStops,
       InAccess, Accessing, Sections, Stages, IsTool, NoTool, Tool, ToolPlaces, IsRead,
       IsWrite, Pending, Zeros, CrcWord, WalkShape, CallFields, WalkFields, ToolFields,
       IsRow
<1>6. Owned'
    BY EepromConstants, SiiConstants DEF IInv, Owned, Places, Types, Shapes, Walking,
       ChipStops, InAccess, IsTool, NoTool, Tool, ToolPlaces, Accessing, IsRead,
       IsWrite, Pending, Zeros, CrcWord, WalkShape, CallFields, WalkFields, ToolFields,
       IsRow, Sections, Stages
<1>7. Commands'
    BY EepromConstants, SiiConstants DEF IInv, Commands, Places, Counts, Types, Shapes,
       ChipStops, Fine, Mine, IsWrite, NoCmd, InAccess, ToolPlaces, Accessing, IsRead,
       IsTool, Pending, NoTool, Tool, Zeros, CrcWord, WalkShape, CallFields, WalkFields,
       ToolFields, IsRow
<1>8. Outcomes'
    BY EepromConstants, SiiConstants DEF IInv, Outcomes, Commands, Places, Counts,
       Types, Shapes, Owned, ChipStops, Covered, Done, IsWrite, IsRead, Mine, NoCmd,
       IsTool, Zeros, Fine, InAccess, ToolPlaces, Accessing, Pending, NoTool, Tool,
       CrcWord, WalkShape, CallFields, WalkFields, ToolFields, IsRow
<1>9. ToolRuns'
    BY EepromConstants, SiiConstants DEF IInv, ToolRuns, Places, Types, Shapes,
       ChipStops, IsTool, ToolReads, InAccess, IsWrite, Pending, FileEnd, File, NoTool,
       Tool, ToolPlaces, Accessing, IsRead, Zeros, CrcWord, WalkShape, CallFields,
       WalkFields, ToolFields, IsRow
<1>10. ToolData'
    BY EepromConstants, SiiConstants DEF IInv, ToolData, ToolRuns, Outcomes, Commands,
       Places, Counts, Types, Shapes, ChipStops, Reading, WritingAlias, WritingFile,
       Fine, IsTool, ToolReads, InAccess, IsWrite, IsRead, Pending, FileWord, FileEnd,
       File, NoTool, Tool, Covered, Done, Mine, NoCmd, Zeros, ToolPlaces, Accessing,
       CrcWord, WalkShape, CallFields, WalkFields, ToolFields, IsRow
<1>11. QED  BY <1>1, <1>2, <1>3, <1>4, <1>5, <1>6, <1>7, <1>8, <1>9, <1>10 DEF IInv

(* A timer runs down. *)
LEMMA ExpireKeeps ==
  ASSUME IInv, Expire, UNCHANGED tool
  PROVE  IInv'
<1>1. Shapes'
    BY EepromConstants, SiiConstants DEF IInv, Shapes, Types, Expire, chipVars,
       WalkShape, CallFields, WalkFields, ToolFields, IsRow, Zeros
<1>2. Types'
    BY EepromConstants, SiiConstants DEF IInv, Types, Shapes, Places, Counts, Expire,
       chipVars, WalkShape, CallFields, WalkFields, ToolFields, IsRow, Zeros, InAccess,
       ToolPlaces, Accessing, IsRead, IsTool, IsWrite, Pending, NoTool, Tool, CrcWord
<1>3. Places'
    BY EepromConstants, SiiConstants DEF IInv, Places, Types, Shapes, Expire, chipVars,
       InAccess, ToolPlaces, Accessing, IsRead, IsTool, IsWrite, Pending, NoTool, Tool,
       Zeros, CrcWord, WalkShape, CallFields, WalkFields, ToolFields, IsRow
<1>4. Counts'
    BY EepromConstants, SiiConstants DEF IInv, Counts, Places, Types, Shapes, Expire,
       chipVars, InAccess, IsWrite, Zeros, ToolPlaces, Accessing, IsRead, IsTool,
       Pending, NoTool, Tool, CrcWord, WalkShape, CallFields, WalkFields, ToolFields,
       IsRow
<1>5. Walking'
    BY EepromConstants, SiiConstants DEF IInv, Walking, Places, Shapes, Expire,
       chipVars, InAccess, Accessing, Sections, Stages, IsTool, NoTool, Tool,
       ToolPlaces, IsRead, IsWrite, Pending, Zeros, CrcWord, WalkShape, CallFields,
       WalkFields, ToolFields, IsRow
<1>6. Owned'
    BY EepromConstants, SiiConstants DEF IInv, Owned, Places, Types, Shapes, Walking,
       Expire, chipVars, InAccess, IsTool, NoTool, Tool, ToolPlaces, Accessing, IsRead,
       IsWrite, Pending, Zeros, CrcWord, WalkShape, CallFields, WalkFields, ToolFields,
       IsRow, Sections, Stages
<1>7. Commands'
    BY EepromConstants, SiiConstants DEF IInv, Commands, Places, Counts, Types, Shapes,
       Expire, chipVars, Fine, Mine, IsWrite, NoCmd, InAccess, ToolPlaces, Accessing,
       IsRead, IsTool, Pending, NoTool, Tool, Zeros, CrcWord, WalkShape, CallFields,
       WalkFields, ToolFields, IsRow
<1>8. Outcomes'
    BY EepromConstants, SiiConstants DEF IInv, Outcomes, Commands, Places, Counts,
       Types, Shapes, Owned, Expire, chipVars, Covered, Done, IsWrite, IsRead, Mine,
       NoCmd, IsTool, Zeros, Fine, InAccess, ToolPlaces, Accessing, Pending, NoTool,
       Tool, CrcWord, WalkShape, CallFields, WalkFields, ToolFields, IsRow
<1>9. ToolRuns'
    BY EepromConstants, SiiConstants DEF IInv, ToolRuns, Places, Types, Shapes, Expire,
       chipVars, IsTool, ToolReads, InAccess, IsWrite, Pending, FileEnd, File, NoTool,
       Tool, ToolPlaces, Accessing, IsRead, Zeros, CrcWord, WalkShape, CallFields,
       WalkFields, ToolFields, IsRow
<1>10. ToolData'
    BY EepromConstants, SiiConstants DEF IInv, ToolData, ToolRuns, Outcomes, Commands,
       Places, Counts, Types, Shapes, Expire, chipVars, Reading, WritingAlias,
       WritingFile, Fine, IsTool, ToolReads, InAccess, IsWrite, IsRead, Pending,
       FileWord, FileEnd, File, NoTool, Tool, Covered, Done, Mine, NoCmd, Zeros,
       ToolPlaces, Accessing, CrcWord, WalkShape, CallFields, WalkFields, ToolFields,
       IsRow
<1>11. QED  BY <1>1, <1>2, <1>3, <1>4, <1>5, <1>6, <1>7, <1>8, <1>9, <1>10 DEF IInv

(* The tool is called. *)
LEMMA ToolCallKeeps ==
  ASSUME IInv, ToolCall
  PROVE  IInv'
<1>1. Shapes'
    BY EepromConstants, SiiConstants DEF IInv, Shapes, Types, ToolCall, Tool, StartCall,
       StartAccess, Entry, NoAccess, NoWalk, Walk, Zeros, chipVars, WalkShape,
       CallFields, WalkFields, ToolFields, IsRow
<1>2. Types'
    BY EepromConstants, SiiConstants DEF IInv, Types, Shapes, Places, Counts, ToolCall,
       Tool, StartCall, StartAccess, Entry, NoAccess, NoWalk, Walk, Zeros, chipVars,
       WalkShape, CallFields, WalkFields, ToolFields, IsRow, InAccess, ToolPlaces,
       Accessing, IsRead, IsTool, IsWrite, Pending, NoTool, CrcWord
<1>3. Places'
    BY EepromConstants, SiiConstants DEF IInv, Places, Types, Shapes, ToolCall, Tool,
       StartCall, StartAccess, Entry, NoAccess, NoWalk, Walk, Zeros, chipVars, InAccess,
       ToolPlaces, Accessing, IsRead, IsTool, IsWrite, Pending, NoTool, CrcWord,
       WalkShape, CallFields, WalkFields, ToolFields, IsRow
<1>4. Counts'
    BY EepromConstants, SiiConstants DEF IInv, Counts, Places, Types, Shapes, ToolCall,
       Tool, StartCall, StartAccess, Entry, NoAccess, NoWalk, Walk, Zeros, chipVars,
       InAccess, IsWrite, ToolPlaces, Accessing, IsRead, IsTool, Pending, NoTool,
       CrcWord, WalkShape, CallFields, WalkFields, ToolFields, IsRow
<1>5. Walking'
    BY EepromConstants, SiiConstants DEF IInv, Walking, Places, Shapes, ToolCall, Tool,
       StartCall, StartAccess, Entry, NoAccess, NoWalk, Walk, Zeros, chipVars, InAccess,
       Accessing, Sections, Stages, IsTool, NoTool, ToolPlaces, IsRead, IsWrite,
       Pending, CrcWord, WalkShape, CallFields, WalkFields, ToolFields, IsRow
<1>6. Owned'
    BY EepromConstants, SiiConstants DEF IInv, Owned, Places, Types, Shapes, Walking,
       ToolCall, Tool, StartCall, StartAccess, Entry, NoAccess, NoWalk, Walk, Zeros,
       chipVars, InAccess, IsTool, NoTool, ToolPlaces, Accessing, IsRead, IsWrite,
       Pending, CrcWord, WalkShape, CallFields, WalkFields, ToolFields, IsRow, Sections,
       Stages
<1>7. Commands'
    BY EepromConstants, SiiConstants DEF IInv, Commands, Places, Counts, Types, Shapes,
       ToolCall, Tool, StartCall, StartAccess, Entry, NoAccess, NoWalk, Walk, Zeros,
       chipVars, Fine, Mine, IsWrite, NoCmd, InAccess, ToolPlaces, Accessing, IsRead,
       IsTool, Pending, NoTool, CrcWord, WalkShape, CallFields, WalkFields, ToolFields,
       IsRow
<1>8. Outcomes'
    BY EepromConstants, SiiConstants DEF IInv, Outcomes, Commands, Places, Counts,
       Types, Shapes, Owned, ToolCall, Tool, StartCall, StartAccess, Entry, NoAccess,
       NoWalk, Walk, Zeros, chipVars, Covered, Done, IsWrite, IsRead, Mine, NoCmd,
       IsTool, Fine, InAccess, ToolPlaces, Accessing, Pending, NoTool, CrcWord,
       WalkShape, CallFields, WalkFields, ToolFields, IsRow
<1>9. ToolRuns'
    BY DEF ToolRuns, ToolCall, Tool, StartCall, FileEnd, File
<1>10. ToolData'
  <2>1. /\ pc = "idle" /\ pc' = "toolForce" /\ call'.kind = "tool"
        /\ tool' \in {Tool("read", 0, ToolWords), Tool("alias", 0, CrcWord),
                      Tool("write", File.first, File.first + Len(File.words))}
    BY DEF IInv, Shapes, CallFields, ToolCall, StartCall
  <2>2. Reading'
    BY <2>1, NoWords DEF Reading, ToolReads, Tool
  <2>3. WritingAlias'
    BY <2>1 DEF WritingAlias, Tool
  <2>4. WritingFile'
    BY <2>1 DEF WritingFile, Tool, File
  <2>5. QED  BY <2>1, <2>2, <2>3, <2>4 DEF ToolData
<1>11. QED  BY <1>1, <1>2, <1>3, <1>4, <1>5, <1>6, <1>7, <1>8, <1>9, <1>10 DEF IInv

(* It forces the chip from the slave. *)
LEMMA ToolForceKeeps ==
  ASSUME IInv, ToolForce
  PROVE  IInv'
<1>1. Shapes'
    BY EepromConstants, SiiConstants DEF IInv, Shapes, Types, ToolForce, toolUnchanged,
       Reaches, Datagram, WkcOf, NOFRAME, Outcome, WalkShape, CallFields, WalkFields,
       ToolFields, IsRow, Zeros
<1>2. Types'
    BY EepromConstants, SiiConstants DEF IInv, Types, Shapes, Places, Counts, ToolForce,
       toolUnchanged, Reaches, Datagram, WkcOf, NOFRAME, Outcome, WalkShape, CallFields,
       WalkFields, ToolFields, IsRow, Zeros, InAccess, ToolPlaces, Accessing, IsRead,
       IsTool, IsWrite, Pending, NoTool, Tool, CrcWord
<1>3. Places'
    BY EepromConstants, SiiConstants DEF IInv, Places, Types, Shapes, ToolForce,
       toolUnchanged, Reaches, Datagram, WkcOf, NOFRAME, Outcome, InAccess, ToolPlaces,
       Accessing, IsRead, IsTool, IsWrite, Pending, NoTool, Tool, Zeros, CrcWord,
       WalkShape, CallFields, WalkFields, ToolFields, IsRow
<1>4. Counts'
    BY EepromConstants, SiiConstants DEF IInv, Counts, Places, Types, Shapes, ToolForce,
       toolUnchanged, Reaches, Datagram, WkcOf, NOFRAME, Outcome, InAccess, IsWrite,
       Zeros, ToolPlaces, Accessing, IsRead, IsTool, Pending, NoTool, Tool, CrcWord,
       WalkShape, CallFields, WalkFields, ToolFields, IsRow
<1>5. Walking'
    BY EepromConstants, SiiConstants DEF IInv, Walking, Places, Shapes, ToolForce,
       toolUnchanged, Reaches, Datagram, WkcOf, NOFRAME, Outcome, InAccess, Accessing,
       Sections, Stages, IsTool, NoTool, Tool, ToolPlaces, IsRead, IsWrite, Pending,
       Zeros, CrcWord, WalkShape, CallFields, WalkFields, ToolFields, IsRow
<1>6. Owned'
    BY EepromConstants, SiiConstants DEF IInv, Owned, Places, Types, Shapes, Walking,
       ToolForce, toolUnchanged, Reaches, Datagram, WkcOf, NOFRAME, Outcome, InAccess,
       IsTool, NoTool, Tool, ToolPlaces, Accessing, IsRead, IsWrite, Pending, Zeros,
       CrcWord, WalkShape, CallFields, WalkFields, ToolFields, IsRow, Sections, Stages
<1>7. Commands'
    BY EepromConstants, SiiConstants DEF IInv, Commands, Places, Counts, Types, Shapes,
       ToolForce, toolUnchanged, Reaches, Datagram, WkcOf, NOFRAME, Outcome, Fine, Mine,
       IsWrite, NoCmd, InAccess, ToolPlaces, Accessing, IsRead, IsTool, Pending, NoTool,
       Tool, Zeros, CrcWord, WalkShape, CallFields, WalkFields, ToolFields, IsRow
<1>8. Outcomes'
    BY EepromConstants, SiiConstants DEF IInv, Outcomes, Commands, Places, Counts,
       Types, Shapes, Owned, ToolForce, toolUnchanged, Reaches, Datagram, WkcOf,
       NOFRAME, Outcome, Covered, Done, IsWrite, IsRead, Mine, NoCmd, IsTool, Zeros,
       Fine, InAccess, ToolPlaces, Accessing, Pending, NoTool, Tool, CrcWord, WalkShape,
       CallFields, WalkFields, ToolFields, IsRow
<1>9. ToolRuns'
    BY EepromConstants, SiiConstants DEF IInv, ToolRuns, Places, Types, Shapes,
       ToolForce, toolUnchanged, Reaches, Datagram, WkcOf, NOFRAME, Outcome, IsTool,
       ToolReads, InAccess, IsWrite, Pending, FileEnd, File, NoTool, Tool, ToolPlaces,
       Accessing, IsRead, Zeros, CrcWord, WalkShape, CallFields, WalkFields, ToolFields,
       IsRow
<1>10. ToolData'
    BY EepromConstants, SiiConstants DEF IInv, ToolData, ToolRuns, Outcomes, Commands,
       Places, Counts, Types, Shapes, ToolForce, toolUnchanged, Reaches, Datagram,
       WkcOf, NOFRAME, Outcome, Reading, WritingAlias, WritingFile, Fine, IsTool,
       ToolReads, InAccess, IsWrite, IsRead, Pending, FileWord, FileEnd, File, NoTool,
       Tool, Covered, Done, Mine, NoCmd, Zeros, ToolPlaces, Accessing, CrcWord,
       WalkShape, CallFields, WalkFields, ToolFields, IsRow
<1>11. QED  BY <1>1, <1>2, <1>3, <1>4, <1>5, <1>6, <1>7, <1>8, <1>9, <1>10 DEF IInv

(* It takes the chip, or has nobody to ask. *)
LEMMA ToolTakeKeeps ==
  ASSUME IInv, ToolTake
  PROVE  IInv'
<1>1. Shapes'
    BY EepromConstants, SiiConstants DEF IInv, Shapes, Types, ToolTake, toolUnchanged,
       Reaches, Datagram, WkcOf, NOFRAME, Outcome, WalkShape, CallFields, WalkFields,
       ToolFields, IsRow, Zeros
<1>2. Types'
    BY EepromConstants, SiiConstants DEF IInv, Types, Shapes, Places, Counts, ToolTake,
       toolUnchanged, Reaches, Datagram, WkcOf, NOFRAME, Outcome, WalkShape, CallFields,
       WalkFields, ToolFields, IsRow, Zeros, InAccess, ToolPlaces, Accessing, IsRead,
       IsTool, IsWrite, Pending, NoTool, Tool, CrcWord
<1>3. Places'
    BY EepromConstants, SiiConstants DEF IInv, Places, Types, Shapes, ToolTake,
       toolUnchanged, Reaches, Datagram, WkcOf, NOFRAME, Outcome, InAccess, ToolPlaces,
       Accessing, IsRead, IsTool, IsWrite, Pending, NoTool, Tool, Zeros, CrcWord,
       WalkShape, CallFields, WalkFields, ToolFields, IsRow
<1>4. Counts'
  <2>1. pc = "toolTake" /\ call.kind = "tool"
    BY DEF IInv, ToolTake, Places, InAccess
  <2>2. pc' \in {"tool", "toolStatus"} /\ UNCHANGED <<works, cnt, nackcnt, expired, call, result>>
    BY DEF ToolTake, toolUnchanged
  <2>3. nackcnt = 3 => gaveUp'
    BY Zenon DEF IInv, Counts, ToolTake
  <2>4. loss' \in {loss, loss + 1} /\ loss \in Nat /\ cnt \in Nat
    BY DEF IInv, Types, ToolTake, Datagram
  <2>5. QED  BY <2>1, <2>2, <2>3, <2>4 DEF IInv, Counts, InAccess, IsWrite
<1>5. Walking'
    BY EepromConstants, SiiConstants DEF IInv, Walking, Places, Shapes, ToolTake,
       toolUnchanged, Reaches, Datagram, WkcOf, NOFRAME, Outcome, InAccess, Accessing,
       Sections, Stages, IsTool, NoTool, Tool, ToolPlaces, IsRead, IsWrite, Pending,
       Zeros, CrcWord, WalkShape, CallFields, WalkFields, ToolFields, IsRow
<1>6. Owned'
    BY EepromConstants, SiiConstants DEF IInv, Owned, Places, Types, Shapes, Walking,
       ToolTake, toolUnchanged, Reaches, Datagram, WkcOf, NOFRAME, Outcome, InAccess,
       IsTool, NoTool, Tool, ToolPlaces, Accessing, IsRead, IsWrite, Pending, Zeros,
       CrcWord, WalkShape, CallFields, WalkFields, ToolFields, IsRow, Sections, Stages
<1>7. Commands'
    BY EepromConstants, SiiConstants DEF IInv, Commands, Places, Counts, Types, Shapes,
       ToolTake, toolUnchanged, Reaches, Datagram, WkcOf, NOFRAME, Outcome, Fine, Mine,
       IsWrite, NoCmd, InAccess, ToolPlaces, Accessing, IsRead, IsTool, Pending, NoTool,
       Tool, Zeros, CrcWord, WalkShape, CallFields, WalkFields, ToolFields, IsRow
<1>8. Outcomes'
    BY EepromConstants, SiiConstants DEF IInv, Outcomes, Commands, Places, Counts,
       Types, Shapes, Owned, ToolTake, toolUnchanged, Reaches, Datagram, WkcOf, NOFRAME,
       Outcome, Covered, Done, IsWrite, IsRead, Mine, NoCmd, IsTool, Zeros, Fine,
       InAccess, ToolPlaces, Accessing, Pending, NoTool, Tool, CrcWord, WalkShape,
       CallFields, WalkFields, ToolFields, IsRow
<1>9. ToolRuns'
    BY EepromConstants, SiiConstants DEF IInv, ToolRuns, Places, Types, Shapes,
       ToolTake, toolUnchanged, Reaches, Datagram, WkcOf, NOFRAME, Outcome, IsTool,
       ToolReads, InAccess, IsWrite, Pending, FileEnd, File, NoTool, Tool, ToolPlaces,
       Accessing, IsRead, Zeros, CrcWord, WalkShape, CallFields, WalkFields, ToolFields,
       IsRow
<1>10. ToolData'
  <2>1. /\ pc = "toolTake" /\ pc' \in {"tool", "toolStatus"} /\ UNCHANGED <<tool, mem, call, adr>>
        /\ call.kind = "tool" /\ IsTool
    BY DEF IInv, ToolTake, toolUnchanged, Places, InAccess
  <2>2. Fine' => Fine
    BY EepromConstants DEF IInv, Types, Fine, ToolTake, toolUnchanged, Datagram
  <2>3. ~gaveUp' => ~gaveUp /\ owner' = "master"
    BY DEF ToolTake
  <2>4. SUFFICES ASSUME Fine, ~gaveUp, owner' = "master" PROVE ToolData'
    BY <2>1, <2>2, <2>3 DEF ToolData
  <2>5. Reading /\ WritingAlias /\ WritingFile
    BY <2>1, <2>4 DEF IInv, ToolData
  <2>6. Reading' /\ WritingAlias' /\ WritingFile'
    BY <2>1, <2>5 DEF Reading, ToolReads, WritingAlias, WritingFile
  <2>7. QED  BY <2>1, <2>4, <2>6 DEF ToolData
<1>11. QED  BY <1>1, <1>2, <1>3, <1>4, <1>5, <1>6, <1>7, <1>8, <1>9, <1>10 DEF IInv

(* It looks at how much the chip delivers. *)
LEMMA ToolStatusKeeps ==
  ASSUME IInv, ToolStatus
  PROVE  IInv'
<1>1. Shapes'
    BY DEF IInv, Shapes, ToolStatus, toolUnchanged
<1>2. Types'
    BY EepromConstants, SiiConstants DEF IInv, Types, Shapes, Places, Counts,
       ToolStatus, toolUnchanged, Datagram, WkcOf, NOFRAME, Outcome, WalkShape,
       CallFields, WalkFields, ToolFields, IsRow, Zeros, InAccess, ToolPlaces,
       Accessing, IsRead, IsTool, IsWrite, Pending, NoTool, Tool, CrcWord
<1>3. Places'
    BY EepromConstants, SiiConstants DEF IInv, Places, Types, Shapes, ToolStatus,
       toolUnchanged, Datagram, WkcOf, NOFRAME, Outcome, InAccess, ToolPlaces,
       Accessing, IsRead, IsTool, IsWrite, Pending, NoTool, Tool, Zeros, CrcWord,
       WalkShape, CallFields, WalkFields, ToolFields, IsRow
<1>4. Counts'
    BY EepromConstants, SiiConstants DEF IInv, Counts, Places, Types, Shapes,
       ToolStatus, toolUnchanged, Datagram, WkcOf, NOFRAME, Outcome, InAccess, IsWrite,
       Zeros, ToolPlaces, Accessing, IsRead, IsTool, Pending, NoTool, Tool, CrcWord,
       WalkShape, CallFields, WalkFields, ToolFields, IsRow
<1>5. Walking'
    BY EepromConstants, SiiConstants DEF IInv, Walking, Places, Shapes, ToolStatus,
       toolUnchanged, Datagram, WkcOf, NOFRAME, Outcome, InAccess, Accessing, Sections,
       Stages, IsTool, NoTool, Tool, ToolPlaces, IsRead, IsWrite, Pending, Zeros,
       CrcWord, WalkShape, CallFields, WalkFields, ToolFields, IsRow
<1>6. Owned'
    BY EepromConstants, SiiConstants DEF IInv, Owned, Places, Types, Shapes, Walking,
       ToolStatus, toolUnchanged, Datagram, WkcOf, NOFRAME, Outcome, InAccess, IsTool,
       NoTool, Tool, ToolPlaces, Accessing, IsRead, IsWrite, Pending, Zeros, CrcWord,
       WalkShape, CallFields, WalkFields, ToolFields, IsRow, Sections, Stages
<1>7. Commands'
    BY EepromConstants, SiiConstants DEF IInv, Commands, Places, Counts, Types, Shapes,
       ToolStatus, toolUnchanged, Datagram, WkcOf, NOFRAME, Outcome, Fine, Mine,
       IsWrite, NoCmd, InAccess, ToolPlaces, Accessing, IsRead, IsTool, Pending, NoTool,
       Tool, Zeros, CrcWord, WalkShape, CallFields, WalkFields, ToolFields, IsRow
<1>8. Outcomes'
    BY EepromConstants, SiiConstants DEF IInv, Outcomes, Commands, Places, Counts,
       Types, Shapes, Owned, ToolStatus, toolUnchanged, Datagram, WkcOf, NOFRAME,
       Outcome, Covered, Done, IsWrite, IsRead, Mine, NoCmd, IsTool, Zeros, Fine,
       InAccess, ToolPlaces, Accessing, Pending, NoTool, Tool, CrcWord, WalkShape,
       CallFields, WalkFields, ToolFields, IsRow
<1>9. ToolRuns'
    BY EepromConstants, SiiConstants DEF IInv, ToolRuns, Places, Types, Shapes,
       ToolStatus, toolUnchanged, Datagram, WkcOf, NOFRAME, Outcome, IsTool, ToolReads,
       InAccess, IsWrite, Pending, FileEnd, File, NoTool, Tool, ToolPlaces, Accessing,
       IsRead, Zeros, CrcWord, WalkShape, CallFields, WalkFields, ToolFields, IsRow
<1>10. ToolData'
    BY EepromConstants, SiiConstants DEF IInv, ToolData, ToolRuns, Outcomes, Commands,
       Places, Counts, Types, Shapes, ToolStatus, toolUnchanged, Datagram, WkcOf,
       NOFRAME, Outcome, Reading, WritingAlias, WritingFile, Fine, IsTool, ToolReads,
       InAccess, IsWrite, IsRead, Pending, FileWord, FileEnd, File, NoTool, Tool,
       Covered, Done, Mine, NoCmd, Zeros, ToolPlaces, Accessing, CrcWord, WalkShape,
       CallFields, WalkFields, ToolFields, IsRow
<1>11. QED  BY <1>1, <1>2, <1>3, <1>4, <1>5, <1>6, <1>7, <1>8, <1>9, <1>10 DEF IInv

(* A turn of eeprom_read, with what the last one brought. *)
LEMMA ToolReadKeeps ==
  ASSUME IInv, ToolRead
  PROVE  IInv'
<1>a. /\ pc = "tool" /\ tool.kind \in {"read", "alias"} /\ IsTool /\ Shapes /\ tool.ret = 0
      /\ UNCHANGED <<chipVars, eep_pdi, walk, loss, gaveUp>>
      /\ Pending => call.kind = "readAP" /\ IsRead
      /\ tool.next \in Nat /\ tool.step \in {2, Chunk}
  BY DEF IInv, ToolRead, ToolReads, IsTool, NoTool, Tool, ToolRuns, IsRead, Pending
<1> DEFINE now == Filled
<1>b. /\ now = [f \in ToolFields |-> now[f]] /\ now.next \in Nat
      /\ now.kind = tool.kind /\ now.end = tool.end /\ now.step = tool.step /\ now.ret = tool.ret
      /\ now.buf = IF Pending THEN tool.buf \o SubSeq(result, 1, tool.step) ELSE tool.buf
      /\ now.next = IF Pending THEN tool.next + tool.step ELSE tool.next
  <2>1. CASE Pending
    <3>1. now = [tool EXCEPT !.buf = tool.buf \o SubSeq(result, 1, tool.step),
                             !.next = tool.next + tool.step]
      BY <2>1 DEF Filled
    <3>2. tool.next + tool.step \in Nat
      BY <1>a, Numbers
    <3> HIDE DEF now
    <3>3. QED  BY <1>a, <2>1, <3>1, <3>2 DEF Shapes, ToolFields
  <2>2. CASE ~Pending
    BY <1>a, <2>2 DEF Filled, Shapes
  <2>3. QED  BY <2>1, <2>2
<1>c. \/ now.next < tool.end /\ Begins("readAP", now.next, 0) /\ tool' = now
      \/ ~(now.next < tool.end) /\ tool.kind = "read" /\ Stops /\ tool' = [now EXCEPT !.ret = 1]
      \/ ~(now.next < tool.end) /\ tool.kind = "alias" /\ Restarts
         /\ tool' = [now EXCEPT !.kind = "writeAlias"]
  <2>1. CASE now.next < tool.end
    BY <1>a, <2>1, AccessBegins DEF ToolRead
  <2>2. CASE ~(now.next < tool.end) /\ tool.kind = "read"
    BY <2>2 DEF ToolRead, ToolEnds, Stops
  <2>3. CASE ~(now.next < tool.end) /\ tool.kind = "alias"
    <3>1. /\ tool' = [now EXCEPT !.kind = "writeAlias"] /\ pc' = "toolForce"
          /\ call' = [call EXCEPT !.kind = "tool"]
          /\ UNCHANGED <<adr, cnt, nackcnt, expired, result>>
      BY <2>3 DEF ToolRead
    <3>2. QED  BY <1>a, <2>3, <3>1 DEF Restarts, Shapes, CallFields
  <2>4. QED  BY <1>a, <2>1, <2>2, <2>3
<1> HIDE DEF now
<1>d. /\ tool' = [f \in ToolFields |-> tool'[f]] /\ tool'.next = now.next
      /\ tool'.end = tool.end /\ tool'.step = tool.step /\ tool'.buf = now.buf
      /\ \/ Begins("readAP", now.next, 0) /\ tool'.kind = tool.kind /\ tool'.ret = 0
         \/ /\ ~(now.next < tool.end) /\ Stops /\ tool.kind = "read"
            /\ tool'.kind = "read" /\ tool'.ret = 1
         \/ /\ ~(now.next < tool.end) /\ Restarts /\ tool.kind = "alias"
            /\ tool'.kind = "writeAlias" /\ tool'.ret = 0
  BY <1>a, <1>b, <1>c DEF ToolFields
<1>0. /\ IInv /\ pc = "tool" /\ IsTool /\ tool'.kind # "noTool"
      /\ UNCHANGED <<chipVars, eep_pdi, walk, loss, gaveUp>>
      /\ \/ \E a \in Nat : \E v : Begins("readAP", a, v)
         \/ \E a \in 0..CrcWord : \E v : Begins("writeAP", a, v)
         \/ Restarts
         \/ Stops
  BY <1>a, <1>b, <1>d
<1>1. Shapes'
    BY EepromConstants, SiiConstants DEF IInv, Shapes, Types, ToolRead, Access, Filled,
       ToolEnds, StartCall, StartAccess, Entry, NoAccess, NoWalk, Walk, Zeros, chipVars,
       WalkShape, CallFields, WalkFields, ToolFields, IsRow
<1>2. Types'  BY <1>0, ToolTurn
<1>3. Places'  BY <1>0, ToolTurn
<1>4. Counts'  BY <1>0, ToolTurn
<1>5. Walking'
    BY EepromConstants, SiiConstants DEF IInv, Walking, Places, Shapes, ToolRead,
       Access, Filled, ToolEnds, StartCall, StartAccess, Entry, NoAccess, NoWalk, Walk,
       Zeros, chipVars, InAccess, Accessing, Sections, Stages, IsTool, NoTool, Tool,
       ToolPlaces, IsRead, IsWrite, Pending, CrcWord, WalkShape, CallFields, WalkFields,
       ToolFields, IsRow
<1>6. Owned'
    BY EepromConstants, SiiConstants DEF IInv, Owned, Places, Types, Shapes, Walking,
       ToolRead, Access, Filled, ToolEnds, StartCall, StartAccess, Entry, NoAccess,
       NoWalk, Walk, Zeros, chipVars, InAccess, IsTool, NoTool, Tool, ToolPlaces,
       Accessing, IsRead, IsWrite, Pending, CrcWord, WalkShape, CallFields, WalkFields,
       ToolFields, IsRow, Sections, Stages
<1>7. Commands'
    BY EepromConstants, SiiConstants DEF IInv, Commands, Places, Counts, Types, Shapes,
       ToolRead, Access, Filled, ToolEnds, StartCall, StartAccess, Entry, NoAccess,
       NoWalk, Walk, Zeros, chipVars, Fine, Mine, IsWrite, NoCmd, InAccess, ToolPlaces,
       Accessing, IsRead, IsTool, Pending, NoTool, Tool, CrcWord, WalkShape, CallFields,
       WalkFields, ToolFields, IsRow
<1>8. Outcomes'
    BY EepromConstants, SiiConstants DEF IInv, Outcomes, Commands, Places, Counts,
       Types, Shapes, Owned, ToolRead, Access, Filled, ToolEnds, StartCall, StartAccess,
       Entry, NoAccess, NoWalk, Walk, Zeros, chipVars, Covered, Done, IsWrite, IsRead,
       Mine, NoCmd, IsTool, Fine, InAccess, ToolPlaces, Accessing, Pending, NoTool,
       Tool, CrcWord, WalkShape, CallFields, WalkFields, ToolFields, IsRow
<1>9. ToolRuns'
  BY <1>a, <1>b, <1>d DEF IInv, ToolRuns, ToolReads, IsTool, NoTool, Tool, Begins,
     Stops, Restarts
<1>10. ToolData'
  <2>1. SUFFICES ASSUME Fine, ~gaveUp PROVE ToolData'
    BY <1>a DEF ToolData, Fine, chipVars
  <2>2. owner = "master" /\ Covered /\ Reading
    BY <1>a, <2>1 DEF IInv, ToolData, Covered, Fine
  <2>3. mem' = mem /\ owner' = "master"
    BY <1>a, <2>2 DEF chipVars
  <2>4. tool.buf = Words(mem, 0, tool.next)
    BY <1>a, <2>2 DEF Reading, ToolReads
  <2>5. now.buf = Words(mem, 0, now.next)
    <3>1. CASE ~Pending
      BY <1>b, <2>4, <3>1
    <3>2. CASE Pending
      <4>1. result = Words(mem, tool.next, tool.next + Chunk)
        <5>1. adr = tool.next
          BY <1>a, <2>2, <3>2 DEF Reading, ToolReads
        <5>2. nackcnt < 3
          BY <2>1 DEF IInv, Types, Counts
        <5>3. QED  BY <1>a, <2>2, <3>2, <5>1, <5>2 DEF IInv, Outcomes
      <4>2. tool.step \in Nat /\ tool.step <= Chunk /\ Chunk \in Nat
        BY <1>a, Numbers, EepromConstants
      <4>3. SubSeq(result, 1, tool.step) = Words(mem, tool.next, tool.next + tool.step)
        BY <1>a, <4>1, <4>2, WordsBegin
      <4>4. Words(mem, 0, tool.next) \o Words(mem, tool.next, tool.next + tool.step) =
              Words(mem, 0, tool.next + tool.step)
        BY <1>a, <4>2, WordsOn
      <4>5. QED  BY <1>b, <2>4, <3>2, <4>3, <4>4
    <3>3. QED  BY <3>1, <3>2
  <2>6. \A k \in Nat : k <= now.next => SubSeq(now.buf, 1, k) = Words(mem, 0, k)
    <3>1. TAKE k \in Nat
    <3>2. HAVE k <= now.next
    <3>3. \A n \in Nat : 0 + n = n
      OBVIOUS
    <3>4. SubSeq(Words(mem, 0, 0 + now.next), 1, k) = Words(mem, 0, 0 + k)
      BY <1>b, <3>2, WordsBegin
    <3>5. QED  BY <1>b, <2>5, <3>3, <3>4
  <2>7. CASE Begins("readAP", now.next, 0) /\ tool'.kind = tool.kind /\ tool'.ret = 0
    <3>1. Reading'
      BY <1>d, <2>3, <2>5, <2>7 DEF Reading, Begins
    <3>2. WritingAlias' /\ WritingFile'
      BY <1>a, <2>7 DEF WritingAlias, WritingFile
    <3>3. QED  BY <2>3, <3>1, <3>2 DEF ToolData
  <2>8. CASE /\ ~(now.next < tool.end) /\ Stops /\ tool.kind = "read"
             /\ tool'.kind = "read" /\ tool'.ret = 1
    <3>1. tool.end = ToolWords /\ ToolWords \in Nat
      BY <1>a, <2>8, ToolConstants DEF IInv, ToolRuns
    <3>2. SubSeq(now.buf, 1, ToolWords) = Words(mem, 0, ToolWords)
      <4>1. ToolWords <= now.next
        BY <1>b, <2>8, <3>1
      <4>2. QED  BY <2>6, <3>1, <4>1
    <3>3. Reading'
      BY <1>d, <2>3, <2>8, <3>2 DEF Reading, Stops
    <3>4. WritingAlias' /\ WritingFile'
      BY <2>8 DEF WritingAlias, WritingFile
    <3>5. QED  BY <2>3, <3>3, <3>4 DEF ToolData
  <2>9. CASE /\ ~(now.next < tool.end) /\ Restarts /\ tool.kind = "alias"
             /\ tool'.kind = "writeAlias" /\ tool'.ret = 0
    <3>1. tool.end = CrcWord /\ CrcWord \in Nat
      BY <1>a, <2>9, Numbers DEF IInv, ToolRuns
    <3>2. SubSeq(now.buf, 1, CrcWord) = Words(mem, 0, CrcWord)
      <4>1. CrcWord <= now.next
        BY <1>b, <2>9, <3>1
      <4>2. QED  BY <2>6, <3>1, <4>1
    <3>3. WritingAlias'
      BY <1>d, <2>3, <2>9, <3>2 DEF WritingAlias, Restarts
    <3>4. Reading' /\ WritingFile'
      BY <2>9 DEF Reading, ToolReads, WritingFile
    <3>5. QED  BY <2>3, <3>3, <3>4 DEF ToolData
  <2>10. QED  BY <1>d, <2>7, <2>8, <2>9
<1>11. QED  BY <1>1, <1>2, <1>3, <1>4, <1>5, <1>6, <1>7, <1>8, <1>9, <1>10 DEF IInv

(* A turn of eeprom_writealias. *)
LEMMA ToolAliasKeeps ==
  ASSUME IInv, ToolAlias
  PROVE  IInv'
<1>a. /\ pc = "tool" /\ tool.kind = "writeAlias" /\ IsTool /\ Shapes /\ tool.ret = 0
      /\ UNCHANGED <<chipVars, eep_pdi, walk, loss, gaveUp>>
      /\ Pending => call.kind = "writeAP" /\ IsWrite
      /\ Pending => result[1] \in {0, 1}
  BY DEF IInv, ToolAlias, IsTool, NoTool, Tool, ToolRuns, Counts, IsWrite, Pending
<1>b. \/ ~Pending /\ Begins("writeAP", Alias, NewAlias) /\ tool' = tool
      \/ /\ Pending /\ adr = Alias /\ result[1] = 1
         /\ Begins("writeAP", CrcWord, NewCrc(tool.buf)) /\ tool' = tool
      \/ /\ Pending /\ ~(adr = Alias /\ result[1] = 1) /\ Stops
         /\ tool' = [tool EXCEPT !.ret = result[1]]
  <2>1. CASE ~Pending
    BY <1>a, <2>1, AccessBegins DEF ToolAlias
  <2>2. CASE Pending /\ adr = Alias /\ result[1] = 1
    BY <1>a, <2>2, AccessBegins DEF ToolAlias
  <2>3. CASE Pending /\ ~(adr = Alias /\ result[1] = 1)
    BY <2>3 DEF ToolAlias, ToolEnds, Stops
  <2>4. QED  BY <2>1, <2>2, <2>3
<1>c. /\ tool' = [f \in ToolFields |-> tool'[f]] /\ tool'.kind = "writeAlias"
      /\ tool'.next = tool.next /\ tool'.step = tool.step /\ tool'.buf = tool.buf
      /\ tool'.ret = IF Stops /\ Pending THEN tool'.ret ELSE 0
      /\ pc' = "idle" => tool'.ret = result[1]
  BY <1>a, <1>b DEF Shapes, ToolFields, Begins, Stops
<1>0. /\ IInv /\ pc = "tool" /\ IsTool /\ tool'.kind # "noTool"
      /\ UNCHANGED <<chipVars, eep_pdi, walk, loss, gaveUp>>
      /\ \/ \E a \in Nat : \E v : Begins("readAP", a, v)
         \/ \E a \in 0..CrcWord : \E v : Begins("writeAP", a, v)
         \/ Restarts
         \/ Stops
  <2>1. Alias \in 0..CrcWord /\ CrcWord \in 0..CrcWord
    BY Numbers
  <2>2. QED  BY <1>a, <1>b, <1>c, <2>1
<1>1. Shapes'
    BY EepromConstants, SiiConstants DEF IInv, Shapes, Types, ToolAlias, Access,
       ToolEnds, StartCall, StartAccess, Entry, NoAccess, NoWalk, Walk, Zeros, chipVars,
       WalkShape, CallFields, WalkFields, ToolFields, IsRow
<1>2. Types'  BY <1>0, ToolTurn
<1>3. Places'  BY <1>0, ToolTurn
<1>4. Counts'  BY <1>0, ToolTurn
<1>5. Walking'
    BY EepromConstants, SiiConstants DEF IInv, Walking, Places, Shapes, ToolAlias,
       Access, ToolEnds, StartCall, StartAccess, Entry, NoAccess, NoWalk, Walk, Zeros,
       chipVars, InAccess, Accessing, Sections, Stages, IsTool, NoTool, Tool,
       ToolPlaces, IsRead, IsWrite, Pending, CrcWord, WalkShape, CallFields, WalkFields,
       ToolFields, IsRow
<1>6. Owned'
    BY EepromConstants, SiiConstants DEF IInv, Owned, Places, Types, Shapes, Walking,
       ToolAlias, Access, ToolEnds, StartCall, StartAccess, Entry, NoAccess, NoWalk,
       Walk, Zeros, chipVars, InAccess, IsTool, NoTool, Tool, ToolPlaces, Accessing,
       IsRead, IsWrite, Pending, CrcWord, WalkShape, CallFields, WalkFields, ToolFields,
       IsRow, Sections, Stages
<1>7. Commands'
    BY EepromConstants, SiiConstants DEF IInv, Commands, Places, Counts, Types, Shapes,
       ToolAlias, Access, ToolEnds, StartCall, StartAccess, Entry, NoAccess, NoWalk,
       Walk, Zeros, chipVars, Fine, Mine, IsWrite, NoCmd, InAccess, ToolPlaces,
       Accessing, IsRead, IsTool, Pending, NoTool, Tool, CrcWord, WalkShape, CallFields,
       WalkFields, ToolFields, IsRow
<1>8. Outcomes'
    BY EepromConstants, SiiConstants DEF IInv, Outcomes, Commands, Places, Counts,
       Types, Shapes, Owned, ToolAlias, Access, ToolEnds, StartCall, StartAccess, Entry,
       NoAccess, NoWalk, Walk, Zeros, chipVars, Covered, Done, IsWrite, IsRead, Mine,
       NoCmd, IsTool, Fine, InAccess, ToolPlaces, Accessing, Pending, NoTool, Tool,
       CrcWord, WalkShape, CallFields, WalkFields, ToolFields, IsRow
<1>9. ToolRuns'
    BY EepromConstants, SiiConstants DEF IInv, ToolRuns, Places, Types, Shapes,
       ToolAlias, Access, ToolEnds, StartCall, StartAccess, Entry, NoAccess, NoWalk,
       Walk, Zeros, chipVars, IsTool, ToolReads, InAccess, IsWrite, Pending, FileEnd,
       File, NoTool, Tool, ToolPlaces, Accessing, IsRead, CrcWord, WalkShape,
       CallFields, WalkFields, ToolFields, IsRow
<1>10. ToolData'
  <2>1. SUFFICES ASSUME Fine, ~gaveUp PROVE ToolData'
    BY <1>a DEF ToolData, Fine, chipVars
  <2>2. owner = "master" /\ Covered /\ WritingAlias
    BY <1>a, <2>1 DEF IInv, ToolData, Covered, Fine
  <2>3. mem' = mem /\ owner' = "master"
    BY <1>a, <2>2 DEF chipVars
  <2>4. Pending /\ result[1] = 1 => mem[adr] = call.val
    BY <1>a, <2>2 DEF IInv, Outcomes, Done
  <2>5. /\ WithAlias(SubSeq(tool.buf, 1, CrcWord)) = WithAlias(Words(mem, 0, CrcWord))
        /\ Pending => \/ adr = Alias /\ call.val = NewAlias
                      \/ adr = CrcWord /\ call.val = NewCrc(tool.buf) /\ mem[Alias] = NewAlias
    <3>1. tool.kind = "writeAlias" /\ pc # "idle" /\ (Pending => call.kind = "writeAP")
      BY <1>a
    <3>2. QED  BY <2>2, <3>1 DEF WritingAlias
  <2>6. WritingAlias'
    <3>1. CASE ~Pending /\ Begins("writeAP", Alias, NewAlias) /\ tool' = tool
      BY <2>3, <2>5, <3>1 DEF WritingAlias, Begins
    <3>2. CASE /\ Pending /\ adr = Alias /\ result[1] = 1
               /\ Begins("writeAP", CrcWord, NewCrc(tool.buf)) /\ tool' = tool
      <4>1. mem[Alias] = NewAlias
        BY <2>4, <2>5, <3>2
      <4>2. QED  BY <2>3, <2>5, <3>2, <4>1 DEF WritingAlias, Begins
    <3>3. CASE /\ Pending /\ ~(adr = Alias /\ result[1] = 1) /\ Stops
               /\ tool' = [tool EXCEPT !.ret = result[1]]
      <4>1. tool'.ret = 1 =>
              mem[Alias] = NewAlias /\ mem[CrcWord] = Crc(Words(mem, 0, CrcWord))
        <5>1. SUFFICES ASSUME tool'.ret = 1
              PROVE mem[Alias] = NewAlias /\ mem[CrcWord] = Crc(Words(mem, 0, CrcWord))
          OBVIOUS
        <5>2. result[1] = 1
          BY <1>c, <3>3, <5>1 DEF Stops
        <5>3. adr = CrcWord /\ call.val = NewCrc(tool.buf) /\ mem[Alias] = NewAlias
          BY <2>5, <3>3, <5>2
        <5>4. mem[CrcWord] = NewCrc(tool.buf)
          BY <2>4, <3>3, <5>2, <5>3
        <5>5. WithAlias(Words(mem, 0, CrcWord)) = Words(mem, 0, CrcWord)
          BY <5>3, AliasThere DEF IInv, Shapes
        <5>6. NewCrc(tool.buf) = Crc(WithAlias(SubSeq(tool.buf, 1, CrcWord)))
          BY DEF NewCrc, WithAlias
        <5>7. QED  BY <2>5, <5>3, <5>4, <5>5, <5>6
      <4>2. pc' = "idle"
        BY <3>3 DEF Stops
      <4>3. QED  BY <1>c, <2>3, <2>5, <4>1, <4>2 DEF WritingAlias
    <3>4. QED  BY <1>b, <3>1, <3>2, <3>3
  <2>7. Reading' /\ WritingFile'
    BY <1>c DEF Reading, ToolReads, WritingFile
  <2>8. QED  BY <2>3, <2>6, <2>7 DEF ToolData
<1>11. QED  BY <1>1, <1>2, <1>3, <1>4, <1>5, <1>6, <1>7, <1>8, <1>9, <1>10 DEF IInv

(* A turn of eeprom_write. *)
LEMMA ToolWriteKeeps ==
  ASSUME IInv, ToolWrite
  PROVE  IInv'
<1> DEFINE next == tool.next + (IF Pending THEN 1 ELSE 0)
<1>a. /\ pc = "tool" /\ tool.kind = "write" /\ IsTool /\ Shapes
      /\ UNCHANGED <<chipVars, eep_pdi, walk, loss, gaveUp>>
  BY DEF IInv, ToolWrite, IsTool, NoTool, Tool
<1>b. /\ tool.next \in Nat /\ tool.end = FileEnd /\ FileEnd = 3 /\ File.first = 1
      /\ tool.next \in 1..3 /\ tool.ret = 0
      /\ Pending => call.kind = "writeAP" /\ adr = tool.next /\ tool.next < 3
  BY <1>a DEF IInv, ToolRuns, FileEnd, File, Pending
<1>c. next \in 1..3 /\ (~Pending => next = tool.next) /\ (Pending => next = tool.next + 1)
  BY <1>b
<1> HIDE DEF next
<1>d. \/ /\ next < 3 /\ Begins("writeAP", next, FileWord(next))
         /\ tool' = [tool EXCEPT !.next = next]
      \/ next = 3 /\ Stops /\ tool' = [tool EXCEPT !.ret = 1]
  <2>1. CASE next < tool.end
    <3>1. Access("writeAP", next, FileWord(next)) /\ tool' = [tool EXCEPT !.next = next]
      BY <2>1 DEF ToolWrite, FileWord, next
    <3>2. QED  BY <1>a, <1>b, <2>1, <3>1, AccessBegins
  <2>2. CASE ~(next < tool.end)
    <3>1. ToolEnds([tool EXCEPT !.ret = 1])
      BY <2>2 DEF ToolWrite, next
    <3>2. QED  BY <1>b, <1>c, <2>2, <3>1 DEF ToolEnds, Stops
  <2>3. QED  BY <2>1, <2>2
<1>e. /\ tool' = [f \in ToolFields |-> tool'[f]] /\ tool'.kind = "write"
      /\ tool'.end = tool.end /\ tool'.step = tool.step /\ tool'.buf = tool.buf
      /\ \/ next < 3 /\ Begins("writeAP", next, FileWord(next)) /\ tool'.next = next /\ tool'.ret = 0
         \/ next = 3 /\ Stops /\ tool'.next = tool.next /\ tool'.ret = 1
  BY <1>a, <1>b, <1>d DEF Shapes, ToolFields
<1>0. /\ IInv /\ pc = "tool" /\ IsTool /\ tool'.kind # "noTool"
      /\ UNCHANGED <<chipVars, eep_pdi, walk, loss, gaveUp>>
      /\ \/ \E a \in Nat : \E v : Begins("readAP", a, v)
         \/ \E a \in 0..CrcWord : \E v : Begins("writeAP", a, v)
         \/ Restarts
         \/ Stops
  <2>1. next < 3 => next \in 0..CrcWord
    BY <1>c, Numbers
  <2>2. tool'.kind # "noTool"
    BY <1>e
  <2>3. QED  BY <1>a, <1>e, <2>1, <2>2
<1>1. Shapes'
    BY EepromConstants, SiiConstants DEF IInv, Shapes, Types, ToolWrite, Access,
       ToolEnds, StartCall, StartAccess, Entry, NoAccess, NoWalk, Walk, Zeros, chipVars,
       WalkShape, CallFields, WalkFields, ToolFields, IsRow
<1>2. Types'  BY <1>0, ToolTurn
<1>3. Places'  BY <1>0, ToolTurn
<1>4. Counts'  BY <1>0, ToolTurn
<1>5. Walking'
    BY EepromConstants, SiiConstants DEF IInv, Walking, Places, Shapes, ToolWrite,
       Access, ToolEnds, StartCall, StartAccess, Entry, NoAccess, NoWalk, Walk, Zeros,
       chipVars, InAccess, Accessing, Sections, Stages, IsTool, NoTool, Tool,
       ToolPlaces, IsRead, IsWrite, Pending, CrcWord, WalkShape, CallFields, WalkFields,
       ToolFields, IsRow
<1>6. Owned'
    BY EepromConstants, SiiConstants DEF IInv, Owned, Places, Types, Shapes, Walking,
       ToolWrite, Access, ToolEnds, StartCall, StartAccess, Entry, NoAccess, NoWalk,
       Walk, Zeros, chipVars, InAccess, IsTool, NoTool, Tool, ToolPlaces, Accessing,
       IsRead, IsWrite, Pending, CrcWord, WalkShape, CallFields, WalkFields, ToolFields,
       IsRow, Sections, Stages
<1>7. Commands'
    BY EepromConstants, SiiConstants DEF IInv, Commands, Places, Counts, Types, Shapes,
       ToolWrite, Access, ToolEnds, StartCall, StartAccess, Entry, NoAccess, NoWalk,
       Walk, Zeros, chipVars, Fine, Mine, IsWrite, NoCmd, InAccess, ToolPlaces,
       Accessing, IsRead, IsTool, Pending, NoTool, Tool, CrcWord, WalkShape, CallFields,
       WalkFields, ToolFields, IsRow
<1>8. Outcomes'
    BY EepromConstants, SiiConstants DEF IInv, Outcomes, Commands, Places, Counts,
       Types, Shapes, Owned, ToolWrite, Access, ToolEnds, StartCall, StartAccess, Entry,
       NoAccess, NoWalk, Walk, Zeros, chipVars, Covered, Done, IsWrite, IsRead, Mine,
       NoCmd, IsTool, Fine, InAccess, ToolPlaces, Accessing, Pending, NoTool, Tool,
       CrcWord, WalkShape, CallFields, WalkFields, ToolFields, IsRow
<1>9. ToolRuns'
  BY <1>a, <1>b, <1>c, <1>e DEF IInv, ToolRuns, ToolReads, IsTool, NoTool, Tool, Begins,
     Stops, FileEnd, File
<1>10. ToolData'
  <2>1. SUFFICES ASSUME Fine, ~gaveUp PROVE ToolData'
    BY <1>a DEF ToolData, Fine, chipVars
  <2>2. owner = "master" /\ Covered /\ WritingFile
    BY <1>a, <2>1 DEF IInv, ToolData, Covered, Fine
  <2>3. Pending => mem[tool.next] = FileWord(tool.next)
    <3>1. SUFFICES ASSUME Pending PROVE mem[tool.next] = FileWord(tool.next)
      OBVIOUS
    <3>2. call.kind = "writeAP" /\ IsWrite /\ adr = tool.next /\ call.val = FileWord(adr)
      BY <1>a, <1>b, <2>2, <3>1 DEF WritingFile, IsWrite
    <3>3. nackcnt # 3
      BY <2>1 DEF IInv, Counts
    <3>4. Done
      BY <1>a, <2>2, <3>2, <3>3 DEF IInv, Outcomes
    <3>5. QED  BY <3>2, <3>4 DEF Done
  <2>4. \A a \in File.first..(next - 1) : mem[a] = FileWord(a)
    BY <1>a, <1>b, <1>c, <2>2, <2>3 DEF WritingFile
  <2>5. WritingFile'
    <3>1. mem' = mem
      BY <1>a DEF chipVars
    <3>2. CASE next < 3 /\ Begins("writeAP", next, FileWord(next)) /\ tool'.next = next
      BY <2>4, <3>1, <3>2 DEF WritingFile, Begins, FileWord
    <3>3. CASE next = 3 /\ Stops /\ tool'.next = tool.next
      BY <1>a, <1>b, <2>2, <2>4, <3>1, <3>3 DEF WritingFile, Stops, FileWord
    <3>4. QED  BY <1>e, <3>2, <3>3
  <2>6. Reading' /\ WritingAlias'
    BY <1>e DEF Reading, ToolReads, WritingAlias
  <2>7. owner' = "master"
    BY <1>a, <2>2 DEF chipVars
  <2>8. QED  BY <2>5, <2>6, <2>7 DEF ToolData
<1>11. QED  BY <1>1, <1>2, <1>3, <1>4, <1>5, <1>6, <1>7, <1>8, <1>9, <1>10 DEF IInv

-----------------------------------------------------------------------------
(* The memory holds the words below START, whatever the device. *)
LEMMA ImageWords ==
  ASSUME NEW d \in Devices
  PROVE  Image(d) = [a \in DOMAIN Image(d) |-> Image(d)[a]] /\ 0..CrcWord \subseteq DOMAIN Image(d)
<1> DEFINE S == Nat \cup {Crc(Config)}
           words == Config \o <<Crc(Config)>> \o Encode(d)
<1>1. Config \in Seq(S) /\ Len(Config) = CrcWord
  <2>1. Config \in [1..CrcWord -> S] /\ CrcWord \in Nat
    BY Numbers DEF Config
  <2> HIDE DEF S
  <2>2. Config \in Seq(S)
    BY <2>1, SeqDef
  <2>3. Config \in [1..Len(Config) -> S] /\ Len(Config) \in Nat
    BY <2>2, LenProperties
  <2>4. QED  BY <2>1, <2>2, <2>3
<1>2. <<Crc(Config)>> \in Seq(S) /\ Len(<<Crc(Config)>>) = 1
  OBVIOUS
<1>3. Encode(d) \in Seq(S) /\ Len(Encode(d)) \in Nat
  <2>1. Encode(d) \in Seq(0..End) /\ 0..End \subseteq S
    <3>1. Encode(d) \in Seq(0..End)
      BY DeviceWords, Zenon
    <3>2. 0..End \subseteq S
      BY DEF End
    <3>3. QED  BY <3>1, <3>2, Zenon
  <2> HIDE DEF S
  <2>2. Encode(d) \in Seq(S)
    BY <2>1, SeqMonotonic
  <2>3. QED  BY <2>2, LenProperties
<1> HIDE DEF S
<1>4. Len(words) = CrcWord + 1 + Len(Encode(d))
  <2>1. Config \o <<Crc(Config)>> \in Seq(S) /\ Len(Config \o <<Crc(Config)>>) = CrcWord + 1
    BY <1>1, <1>2, ConcatProperties
  <2>2. QED  BY <1>3, <2>1, ConcatProperties
<1> HIDE DEF words
<1>5. Image(d) = [a \in 0..(Len(words) - 1) |-> words[a + 1]]
  BY DEF Image, words
<1>6. QED  BY <1>3, <1>4, <1>5, Numbers

(* The invariant holds at the start. *)
LEMMA Initially ==
  ASSUME Init
  PROVE  IInv
<1>1. Shapes
  BY ImageWords DEF Init, ChipInit, Shapes, NoWalk, Walk, NoTool, NewTool, Tool, CallFields,
     WalkFields, WalkShape, ToolFields, IsRow, Zeros
<1>2. Types /\ Counts /\ Commands /\ Outcomes
  BY Numbers DEF Init, ChipInit, Types, Counts, Commands, Outcomes, InAccess, IsWrite, IsRead
<1>3. Places /\ Walking /\ Owned
  BY DEF Init, ChipInit, Places, Walking, Owned, ToolPlaces, InAccess, Accessing, IsTool,
     IsWrite, IsRead, NoWalk, Walk, NoTool, NewTool, Tool, Pending, Sections, Stages
<1>4. ToolRuns
  BY DEF Init, ChipInit, ToolRuns, IsTool, ToolReads, NoTool, NewTool, Tool
<1>5. ToolData
  BY DEF Init, ChipInit, ToolData, IsTool, Reading, ToolReads, WritingAlias, WritingFile,
     NoTool, NewTool, Tool
<1>6. QED  BY <1>1, <1>2, <1>3, <1>4, <1>5 DEF IInv

(* It holds when nothing happens. *)
LEMMA Unmoved ==
  ASSUME IInv, UNCHANGED allVars
  PROVE  IInv'
<1> USE DEF allVars, vars, chipVars
<1>1. Shapes' /\ Types' /\ Places' /\ Counts' /\ Walking' /\ Owned'
  BY DEF IInv, Shapes, IsRow, Types, Places, IsRead, IsWrite, Pending, IsTool, Counts,
     Walking, Owned
<1>2. Commands' /\ Outcomes'
  BY DEF IInv, Commands, Fine, Mine, IsWrite, IsRead, Outcomes, Covered, IsTool, Done, Words, Word
<1>3. ToolRuns' /\ ToolData'
  BY DEF IInv, ToolRuns, ToolData, IsTool, ToolReads, Fine, Reading, WritingAlias, WritingFile
<1>4. QED  BY <1>1, <1>2, <1>3 DEF IInv

(* Every step keeps it. *)
LEMMA EveryStep ==
  ASSUME IInv, [Next]_allVars
  PROVE  IInv'
<1>1. CASE Master
  <2>1. ~IsTool /\ UNCHANGED tool /\ Call
    BY <1>1 DEF Master
  <2>2. ASSUME NEW a \in {Alias, START}, CallRead(a)  PROVE IInv'
    BY <2>1, <2>2, CallReadKeeps
  <2>3. ASSUME NEW v \in Val, CallWrite(v)  PROVE IInv'
    BY <2>1, <2>3, CallWriteKeeps
  <2>4. ASSUME NEW w \in Walks, CallWalk(w)  PROVE IInv'
    BY <2>1, <2>4, CallWalkKeeps
  <2>5. CASE CallDump  BY <2>1, <2>5, CallDumpKeeps
  <2>6. CASE CallMaster  BY <2>1, <2>6, CallMasterKeeps
  <2>7. CASE CallPdi  BY <2>1, <2>7, CallPdiKeeps
  <2>8. QED  BY <2>1, <2>2, <2>3, <2>4, <2>5, <2>6, <2>7 DEF Call
<1>2. CASE ToolCall  BY <1>2, ToolCallKeeps
<1>3. CASE Function
  <2>1. UNCHANGED tool /\ Step
    BY <1>3 DEF Function
  <2>2. CASE WaitFirst  BY <2>1, <2>2, WaitFirstKeeps
  <2>3. CASE ClearErrors  BY <2>1, <2>3, ClearErrorsKeeps
  <2>4. CASE WriteData  BY <2>1, <2>4, WriteDataKeeps
  <2>5. CASE WriteCommand  BY <2>1, <2>5, WriteCommandKeeps
  <2>6. CASE WaitReady  BY <2>1, <2>6, WaitReadyKeeps
  <2>7. CASE Fetch  BY <2>1, <2>7, FetchKeeps
  <2>8. CASE EepromForce  BY <2>1, <2>8, EepromForceKeeps
  <2>9. CASE EepromTake  BY <2>1, <2>9, EepromTakeKeeps
  <2>10. CASE EepromGive  BY <2>1, <2>10, EepromGiveKeeps
  <2>11. CASE GetHit  BY <2>1, <2>11, GetHitKeeps
  <2>12. CASE GetMiss  BY <2>1, <2>12, GetMissKeeps
  <2>13. CASE Dumped  BY <2>1, <2>13, DumpedKeeps
  <2>14. QED
    BY <2>1, <2>2, <2>3, <2>4, <2>5, <2>6, <2>7, <2>8, <2>9, <2>10, <2>11, <2>12, <2>13
    DEF Step, ReadeepromFP, ReadeepromAP, WriteeepromFP, WriteeepromAP, Steps
<1>4. CASE ToolStep
  BY <1>4, ToolForceKeeps, ToolTakeKeeps, ToolStatusKeeps, ToolReadKeeps, ToolAliasKeeps,
     ToolWriteKeeps DEF ToolStep
<1>5. CASE (OtherSlave \/ ChipDone \/ ChipStops \/ Expire) /\ UNCHANGED tool
  BY <1>5, OtherSlaveKeeps, ChipDoneKeeps, ChipStopsKeeps, ExpireKeeps
<1>6. CASE UNCHANGED allVars  BY <1>6, Unmoved
<1>7. QED  BY <1>1, <1>2, <1>3, <1>4, <1>5, <1>6 DEF Next

(* The invariant is inductive: every reachable state satisfies it. *)
THEOREM Inductive == Spec => []IInv
<1>1. Init => IInv  BY Initially
<1>2. IInv /\ [Next]_allVars => IInv'  BY EveryStep
<1>3. QED  BY <1>1, <1>2, PTL DEF Spec

(* Between calls the chip belongs to whom eep_pdi says, and whoever        *)
(* borrowed it with ecx_eeprom2master has returned it with ecx_eeprom2pdi. *)
THEOREM OwnerIsRight == Spec => []OwnerRight
<1>1. IInv => OwnerRight
  BY DEF IInv, Owned, OwnerRight, Idle, InAccess
<1>2. QED  BY <1>1, Inductive, PTL

(* ecx_readeepromFP and ecx_readeepromAP deliver the words of the chip,    *)
(* and the tool reads the whole of it, no word missing or twice, with      *)
(* chunks of either size.                                                  *)
THEOREM ReadsAreWords == Spec => []ReadIsWord
<1>1. IInv => ReadIsWord
  <2>1. SUFFICES ASSUME IInv PROVE ReadIsWord
    OBVIOUS
  <2>2. Ended({"read", "readAP"}) /\ Covered =>
          result = IF nackcnt < 3 THEN Words(mem, adr, adr + Chunk) ELSE Zeros
    BY <2>1 DEF IInv, Outcomes, Ended, IsRead
  <2>3. Idle /\ tool.kind = "read" /\ tool.ret = 1 /\ Covered /\ ~gaveUp =>
          SubSeq(tool.buf, 1, ToolWords) = Words(mem, 0, ToolWords)
    BY <2>1 DEF IInv, ToolData, Reading, Idle, IsTool, NoTool, Tool, Covered, Fine
  <2>4. QED  BY <2>2, <2>3 DEF ReadIsWord
<1>2. QED  BY <1>1, Inductive, PTL

(* ecx_writeeepromFP and ecx_writeeepromAP report a success exactly when   *)
(* the word is in the chip; the alias and the file that eepromtool says it *)
(* has written are there, the alias with its checksum.                     *)
THEOREM WritesAreDone == Spec => []WriteIsDone
<1>1. IInv => WriteIsDone
  <2>1. SUFFICES ASSUME IInv PROVE WriteIsDone
    OBVIOUS
  <2>2. Ended({"write", "writeAP"}) /\ Covered =>
          /\ result[1] = 1 => mem[adr] = call.val
          /\ result[1] = 0 => nackcnt = 3
    BY <2>1 DEF IInv, Outcomes, Ended, IsWrite, Done
  <2>3. ASSUME Idle, tool.ret = 1, Covered, ~gaveUp
        PROVE  /\ tool.kind = "writeAlias" =>
                    mem[Alias] = NewAlias /\ mem[CrcWord] = Crc(Words(mem, 0, CrcWord))
               /\ tool.kind = "write" =>
                    Words(mem, File.first, File.first + Len(File.words)) = File.words
    <3>1. CASE tool.kind = "writeAlias"
      BY <2>1, <2>3, <3>1
      DEF IInv, ToolData, WritingAlias, Idle, IsTool, NoTool, Tool, Covered, Fine
    <3>2. CASE tool.kind = "write"
      <4>1. \A a \in File.first..(FileEnd - 1) : mem[a] = FileWord(a)
        BY <2>1, <2>3, <3>2
        DEF IInv, ToolData, WritingFile, Idle, IsTool, NoTool, Tool, Covered, Fine
      <4>2. mem[1] = 8 /\ mem[2] = 9
        BY <4>1 DEF File, FileEnd, FileWord
      <4>3. 1 \in DOMAIN mem /\ 2 \in DOMAIN mem
        BY <2>1, Numbers DEF IInv, Shapes
      <4>4. Words(mem, 1, 3) = <<8, 9>>
        BY <4>2, <4>3 DEF Words, Word
      <4>5. QED  BY <3>2, <4>4 DEF File
    <3>3. QED  BY <3>1, <3>2
  <2>4. QED  BY <2>2, <2>3 DEF WriteIsDone
<1>2. QED  BY <1>1, Inductive, PTL
===============================================================================
