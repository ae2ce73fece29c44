--------------------------------- MODULE Sii ---------------------------------
(***************************************************************************)
(* The slave information in the EEPROM of a slave: how it is laid out in   *)
(* words (sections of a category, a length and data, closed by 0xffff) and *)
(* how soem/ethercatmain.c walks through it (ecx_siifind, ecx_siiSM,       *)
(* ecx_siiSMnext, ecx_siiFMMU, ecx_siiPDO, ecx_siistring).  A walk is a    *)
(* record; a step of it takes the word just read and says which one to     *)
(* read next.  A character of a string takes a word.                       *)
(***************************************************************************)
EXTENDS Integers, Sequences, SequencesExt

CONSTANTS
  START,      \* ECT_SII_START, the word the sections begin at
  EC_MAXSM,   \* sync managers of a slave
  EC_MAXNAME  \* characters of a string the master has room for

ASSUME SiiConstants ==
  START \in Nat /\ EC_MAXSM \in Nat \ {0} /\ EC_MAXNAME \in Nat \ {0}

End     == 65535  \* 0xffff closes the sections and is read beyond the memory
SmWords == 2      \* words of a sync manager: start and length (4 in the code)
SecStr  == 10     \* ECT_SII_STRING
SecSM   == 41     \* ECT_SII_SM
SecFMMU == 40     \* ECT_SII_FMMU
SecPDO  == 50     \* ECT_SII_PDO, of the inputs

-----------------------------------------------------------------------------
(* What a device vendor writes: the sections of a slave described by its   *)
(* strings, sync managers, the functions of its FMMUs and its PDOs.        *)
StringData(strings) ==
  <<Len(strings)>> \o
  FlattenSeq([i \in 1..Len(strings) |-> <<Len(strings[i])>> \o strings[i]])

SmData(sms) == FlattenSeq([i \in 1..Len(sms) |-> <<sms[i].start, sms[i].length>>])

FmmuData(f) == [i \in 1..(Len(f) \div 2) |-> f[2 * i - 1] + 256 * f[2 * i]]

PdoData(pdos) ==
  FlattenSeq([i \in 1..Len(pdos) |->
    <<pdos[i].index, Len(pdos[i].bits) + 256 * pdos[i].sm, 0, 0>> \o
    FlattenSeq([e \in 1..Len(pdos[i].bits) |-> <<0, 0, 256 * pdos[i].bits[e], 0>>])])

Section(cat, data) == <<cat, Len(data)>> \o data

(* The words from START on; a section with nothing in it is left out. *)
Encode(dev) ==
  (IF dev.strings = <<>> THEN <<>> ELSE Section(SecStr, StringData(dev.strings))) \o
  (IF dev.fmmu = <<>> THEN <<>> ELSE Section(SecFMMU, FmmuData(dev.fmmu))) \o
  (IF dev.sms = <<>>  THEN <<>> ELSE Section(SecSM, SmData(dev.sms))) \o
  (IF dev.pdos = <<>> THEN <<>> ELSE Section(SecPDO, PdoData(dev.pdos))) \o
  <<End>>

-----------------------------------------------------------------------------
(* A walk: what it is for, the category sought, where it is, the word it   *)
(* reads next, what it found, what is left, and whether the code returns   *)
(* the EEPROM to the slave after this step.                                *)
Walk(kind, cat, stage, a) ==
  [kind |-> kind, cat |-> cat, stage |-> stage, a |-> a, got |-> <<>>,
   left |-> 0, c |-> 0, back |-> FALSE]

NoWalk      == Walk("none", 0, "done", 0)
WalkFind(k, cat) == Walk(k, cat, "cat", START)
WalkString(n) == [WalkFind("string", SecStr) EXCEPT !.c = n]
WalkWord(a) == Walk("word", 0, "word", a)

(* ecx_siifind: compare a category, step over a section. *)
AtCat(w, x) ==
  CASE x = w.cat -> [w EXCEPT !.stage = IF w.kind = "find" THEN "done" ELSE "len",
                              !.a = @ + 1, !.back = TRUE]
    [] x = End /\ x # w.cat ->
                    [w EXCEPT !.stage = "done", !.a = 0, !.back = TRUE]
    [] OTHER     -> [w EXCEPT !.stage = "skip", !.a = @ + 1]

AtSkip(w, x) == [w EXCEPT !.stage = "cat", !.a = @ + 1 + x]

Finish(w) == [w EXCEPT !.stage = "done", !.back = TRUE]

(* The length of the section found. *)
AtLen(w, x) ==
  CASE w.kind = "sms"  ->
         IF x \div SmWords = 0 THEN Finish(w)
         ELSE [w EXCEPT !.stage = "sm", !.a = @ + 1,
                        !.left = IF x \div SmWords > EC_MAXSM THEN EC_MAXSM
                                                              ELSE x \div SmWords]
    [] w.kind = "fmmu" -> [w EXCEPT !.stage = "fmmu", !.a = @ + 1,
                                    !.left = IF 2 * x > 2 THEN 2 ELSE 1]
    [] w.kind = "pdos" -> [w EXCEPT !.stage = "index", !.a = @ + 1, !.left = x,
                                    !.c = 1]
    [] w.kind = "string" -> [w EXCEPT !.stage = "count", !.a = @ + 1]

(* ecx_siistring: the c-th string, if there are as many.                   *)
AtCount(w, x) ==
  IF w.c \in 1..x THEN [w EXCEPT !.stage = "string", !.a = @ + 1] ELSE Finish(w)

(* The length of a string: step over it, or copy what there is room for.   *)
AtString(w, x) ==
  CASE w.c > 1 -> [w EXCEPT !.a = @ + 1 + x, !.c = @ - 1]
    [] w.c = 1 /\ x = 0 -> Finish(w)
    [] OTHER -> [w EXCEPT !.stage = "char", !.a = @ + 1,
                          !.left = IF x < EC_MAXNAME THEN x ELSE EC_MAXNAME]

AtChar(w, x) ==
  [w EXCEPT !.got = Append(@, x), !.a = @ + 1, !.left = @ - 1,
            !.back = w.left = 1,
            !.stage = IF w.left = 1 THEN "done" ELSE "char"]

(* ecx_siiSM takes the first sync manager, ecx_siiSMnext each one after.   *)
AtSm(w, x) ==
  LET last == w.c = SmWords - 1 IN
  [w EXCEPT !.got = Append(@, x), !.a = @ + 1, !.back = last,
            !.c = IF last THEN 0 ELSE @ + 1,
            !.left = IF last THEN @ - 1 ELSE @,
            !.stage = IF last /\ w.left = 1 THEN "done" ELSE "sm"]

(* ecx_siiFMMU: two functions in a word. *)
AtFmmu(w, x) ==
  [w EXCEPT !.got = @ \o <<x % 256, x \div 256>>, !.a = @ + 1, !.left = @ - 1,
            !.back = w.left = 1,
            !.stage = IF w.left = 1 THEN "done" ELSE "fmmu"]

(* ecx_siiPDO: the next PDO if the section has one. *)
NextPdo(w, a, c) ==
  IF c < w.left THEN [w EXCEPT !.stage = "index", !.a = a, !.c = c]
                ELSE Finish(w)

AtIndex(w, x) ==
  [w EXCEPT !.stage = "head", !.a = @ + 1,
            !.got = Append(@, [index |-> x, sm |-> 0, size |-> 0, todo |-> 0])]

(* A PDO whose sync manager is out of range is stepped over.               *)
Inactive(w, e) == NextPdo(w, w.a + 3 + 4 * e, w.c + 4 + 4 * e)

AtHead(w, x) ==
  LET e == x % 256
      sm == x \div 256
      v == [w EXCEPT !.got[Len(w.got)].sm = sm, !.got[Len(w.got)].todo = e]
  IN CASE sm >= EC_MAXSM -> Inactive(v, e)
       [] sm < EC_MAXSM /\ e = 0 -> NextPdo(v, w.a + 3, w.c + 4)
       [] OTHER -> [v EXCEPT !.stage = "entry", !.a = @ + 5, !.c = @ + 3]

AtEntry(w, x) ==
  LET p == w.got[Len(w.got)]
      v == [w EXCEPT !.got[Len(w.got)] =
              [p EXCEPT !.size = @ + x \div 256, !.todo = @ - 1],
                     !.c = @ + 4]
  IN IF p.todo = 1 THEN NextPdo(v, w.a + 2, v.c + 1)
                   ELSE [v EXCEPT !.a = @ + 4]

(* A step of a walk with word x. *)
WalkOn(w0, x) ==
  LET w == [w0 EXCEPT !.back = FALSE] IN
  CASE w.stage = "word"  -> [w EXCEPT !.stage = "done", !.got = <<x>>]
    [] w.stage = "cat"   -> AtCat(w, x)
    [] w.stage = "skip"  -> AtSkip(w, x)
    [] w.stage = "len"   -> AtLen(w, x)
    [] w.stage = "count" -> AtCount(w, x)
    [] w.stage = "string" -> AtString(w, x)
    [] w.stage = "char"  -> AtChar(w, x)
    [] w.stage = "sm"    -> AtSm(w, x)
    [] w.stage = "fmmu"  -> AtFmmu(w, x)
    [] w.stage = "index" -> AtIndex(w, x)
    [] w.stage = "head"  -> AtHead(w, x)
    [] w.stage = "entry" -> AtEntry(w, x)

-----------------------------------------------------------------------------
(* What the walks must find in the sections of device dev. *)
StringOf(dev, n) ==
  IF n > Len(dev.strings) THEN <<>>
  ELSE SubSeq(dev.strings[n], 1, IF Len(dev.strings[n]) < EC_MAXNAME
                                 THEN Len(dev.strings[n]) ELSE EC_MAXNAME)

SmsOf(dev) == LET n == IF Len(dev.sms) > EC_MAXSM THEN EC_MAXSM ELSE Len(dev.sms)
              IN SmData(SubSeq(dev.sms, 1, n))

FmmusOf(dev) == SubSeq(dev.fmmu, 1, IF Len(dev.fmmu) > 4 THEN 4 ELSE Len(dev.fmmu))

BitsOfPdo(p) == FoldLeft(LAMBDA s, b : s + b, 0, p.bits)

(* The bits of each sync manager. *)
SmBitsOf(dev, sm) ==
  FoldLeft(LAMBDA s, p : IF p.sm = sm THEN s + BitsOfPdo(p) ELSE s, 0, dev.pdos)
SmBits(w, sm) ==
  FoldLeft(LAMBDA s, p : IF p.sm = sm THEN s + p.size ELSE s, 0, w.got)
==============================================================================
