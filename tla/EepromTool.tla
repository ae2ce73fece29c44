----------------------------- MODULE EepromTool -----------------------------
(***************************************************************************)
(* The programs that use the EEPROM of a slave: a master that has          *)
(* configured it and calls the functions of soem/ethercatmain.c, or the    *)
(* tool of test/linux/eepromtool, which takes the chip once, reads and     *)
(* writes it word by word with the AP functions, and never gives it back.  *)
(***************************************************************************)
EXTENDS Eeprom

CONSTANTS
  ToolWords   \* words the tool reads (esize / 2)

ASSUME ToolConstants == ToolWords \in Nat

VARIABLES
  tool   \* the tool: its function, what is to do, and ebuf

allVars == <<vars, tool>>

(* next..end are the addresses left, step what a turn of the loop covers.  *)
Tool(kind, next, end) ==
  [kind |-> kind, next |-> next, end |-> end, step |-> 2, buf |-> <<>>, ret |-> 0]

NoTool  == Tool("noTool", 0, 0)
NewTool == Tool("new", 0, 0)
IsTool  == tool.kind # "noTool"

(* ec_config_init has left the EEPROM with the slave, and eep_pdi says so; *)
(* the tool does not know.                                                 *)
Init ==
  /\ ChipInit
  /\ \/ tool = NoTool /\ eep_pdi = 1
     \/ tool = NewTool /\ eep_pdi = 0

-----------------------------------------------------------------------------
(* The alias the tool writes, and the file: two words, from address 1 on.  *)
NewAlias == 20
File == [first |-> 1, words |-> <<8, 9>>]

ToolCall ==
  /\ IsTool
  /\ StartCall("tool", 0)
  /\ tool' \in {Tool("read", 0, ToolWords), Tool("alias", 0, CrcWord),
                Tool("write", File.first, File.first + Len(File.words))}
  /\ pc' = "toolForce"
  /\ NoAccess /\ walk' = NoWalk
  /\ UNCHANGED <<chipVars, eep_pdi, cache, loss, refused, gaveUp>>

ToolReads == tool.kind \in {"read", "alias"}

toolUnchanged ==
  <<dev, mem, cmd, dat, nack, works, call, eep_pdi, cache, walk, adr, cnt,
    nackcnt, expired, result, refused>>

(* Force the chip from the slave, set it to master: one attempt each, with *)
(* nobody to ask whether it came through: then no access gets its data.    *)
ToolForce ==
  /\ pc = "toolForce" /\ pc' = "toolTake"
  /\ \E o \in Outcome :
       Datagram(o) /\ owner' = IF Reaches(o) THEN "master" ELSE owner
  /\ UNCHANGED <<toolUnchanged, gaveUp, tool>>

ToolTake ==
  /\ pc = "toolTake"
  /\ \E o \in Outcome :
       Datagram(o) /\ owner' \in IF Reaches(o) THEN {owner, "master"} ELSE {owner}
  /\ pc' = IF ToolReads THEN "toolStatus" ELSE "tool"
  /\ gaveUp' = (gaveUp \/ owner' # "master")
  /\ UNCHANGED <<toolUnchanged, tool>>

(* The status says how much the chip delivers; if it is lost, the loop     *)
(* takes two words a turn.                                                 *)
ToolStatus ==
  /\ pc = "toolStatus" /\ pc' = "tool"
  /\ \E o \in Outcome :
       /\ Datagram(o)
       /\ tool' = [tool EXCEPT !.step = IF WkcOf(o) > 0 THEN Chunk ELSE 2]
  /\ UNCHANGED <<toolUnchanged, owner, gaveUp>>

Pending == call.kind \in {"readAP", "writeAP"}

Access(k, a, v) ==
  /\ call' = [call EXCEPT !.kind = k, !.val = v]
  /\ StartAccess(a, "AP")

ToolEnds(t) ==
  /\ tool' = t /\ pc' = "idle"
  /\ UNCHANGED <<call, adr, cnt, nackcnt, expired, result>>

(* eeprom_read: what was read goes to ebuf, also the zeros of an access    *)
(* that got no data.                                                       *)
Filled ==
  IF Pending THEN [tool EXCEPT !.buf = @ \o SubSeq(result, 1, tool.step),
                               !.next = @ + tool.step]
             ELSE tool

(* Then, for an alias: the alias goes into ebuf and the checksum of that   *)
(* is calculated; eeprom_writealias writes both, the second if the first   *)
(* was written.                                                            *)
NewCrc(buf) == Crc([SubSeq(buf, 1, CrcWord) EXCEPT ![Alias + 1] = NewAlias])

ToolRead ==
  /\ pc = "tool" /\ ToolReads
  /\ IF Filled.next < tool.end
     THEN Access("readAP", Filled.next, 0) /\ tool' = Filled
     ELSE IF tool.kind = "read" THEN ToolEnds([Filled EXCEPT !.ret = 1])
     ELSE /\ tool' = [Filled EXCEPT !.kind = "writeAlias"]
          /\ call' = [call EXCEPT !.kind = "tool"]
          /\ pc' = "toolForce"
          /\ UNCHANGED <<adr, cnt, nackcnt, expired, result>>
  /\ UNCHANGED <<chipVars, eep_pdi, cache, walk, loss, refused, gaveUp>>

ToolAlias ==
  /\ pc = "tool" /\ tool.kind = "writeAlias"
  /\ CASE ~Pending -> Access("writeAP", Alias, NewAlias) /\ tool' = tool
       [] Pending /\ adr = Alias /\ result[1] = 1 ->
            Access("writeAP", CrcWord, NewCrc(tool.buf)) /\ tool' = tool
       [] OTHER -> ToolEnds([tool EXCEPT !.ret = result[1]])
  /\ UNCHANGED <<chipVars, eep_pdi, cache, walk, loss, refused, gaveUp>>

(* eeprom_write: a word per turn, and no look at whether it was written.   *)
ToolWrite ==
  /\ pc = "tool" /\ tool.kind = "write"
  /\ LET next == tool.next + (IF Pending THEN 1 ELSE 0) IN
     IF next < tool.end
     THEN /\ Access("writeAP", next, File.words[next - File.first + 1])
          /\ tool' = [tool EXCEPT !.next = next]
     ELSE ToolEnds([tool EXCEPT !.ret = 1])
  /\ UNCHANGED <<chipVars, eep_pdi, cache, walk, loss, refused, gaveUp>>

ToolStep ==
  ToolForce \/ ToolTake \/ ToolStatus \/ ToolRead \/ ToolAlias \/ ToolWrite

-----------------------------------------------------------------------------
Master == ~IsTool /\ Call /\ UNCHANGED tool

Function == Step /\ UNCHANGED tool

Next ==
  \/ Master \/ ToolCall
  \/ Function \/ ToolStep
  \/ (OtherSlave \/ ChipDone \/ ChipStops \/ Expire) /\ UNCHANGED tool

Spec == Init /\ [][Next]_allVars

(* The caller runs its function on, the chip ends its commands, timers run *)
(* down: each is driven by a thread, a chip or a clock that does not stop. *)
FairSpec ==
  Spec /\ WF_allVars(Function \/ ToolStep)
       /\ WF_allVars(ChipDone /\ UNCHANGED tool)
       /\ WF_allVars(Expire /\ UNCHANGED tool)

-----------------------------------------------------------------------------
Idle == pc = "idle"

(* Frames were not lost more often than a datagram is retried, the chip    *)
(* works, and the tool got it.                                             *)
Covered == loss <= Retries /\ works = "yes" /\ (IsTool => owner = "master")

(* An access has ended. *)
Ended(kinds) == pc \in {"idle", "tool"} /\ call.kind \in kinds

(* ecx_readeepromFP and ecx_readeepromAP deliver the words of the chip at  *)
(* the address asked for, never those of an access before, and zeros if    *)
(* the chip refused three times.  What the tool read is what is in the     *)
(* chip, with no word missing or twice, however much it reads per turn,    *)
(* unless an access got no data: the tool does not look.                   *)
ReadIsWord ==
  /\ Ended({"read", "readAP"}) /\ Covered =>
       result = IF nackcnt < 3 THEN Words(mem, adr, adr + Chunk) ELSE Zeros
  /\ Idle /\ tool.kind = "read" /\ tool.ret = 1 /\ Covered /\ ~gaveUp =>
       SubSeq(tool.buf, 1, ToolWords) = Words(mem, 0, ToolWords)

(* ecx_writeeepromFP and ecx_writeeepromAP report a success when, and only *)
(* when, the word is in the chip.  When the tool says that it has written  *)
(* an alias, the chip has the alias and the checksum that goes with it; and*)
(* when it has written a file, the file; unless it got no data.            *)
WriteIsDone ==
  /\ Ended({"write", "writeAP"}) /\ Covered =>
       /\ result[1] = 1 => mem[adr] = call.val
       /\ result[1] = 0 => nackcnt = 3
  /\ Idle /\ tool.ret = 1 /\ Covered /\ ~gaveUp =>
       /\ tool.kind = "writeAlias" =>
            mem[Alias] = NewAlias /\ mem[CrcWord] = Crc(Words(mem, 0, CrcWord))
       /\ tool.kind = "write" =>
            Words(mem, File.first, File.first + Len(File.words)) = File.words

HasSection(cat) ==
  \/ cat = SecSM /\ dev.sms # <<>>
  \/ cat = SecFMMU /\ dev.fmmu # <<>>
  \/ cat = SecPDO /\ dev.pdos # <<>>

DataOf(cat) ==
  CASE cat = SecSM -> SmData(dev.sms)
    [] cat = SecFMMU -> FmmuData(dev.fmmu)
    [] cat = SecPDO -> PdoData(dev.pdos)

(* ecx_siifind, ecx_siistring, ecx_siiSM, ecx_siiFMMU, ecx_siiPDO and      *)
(* ecx_esidump find what the EEPROM describes, whatever was cached, lost   *)
(* or refused before.                                                      *)
SectionsRight ==
  Idle /\ Covered /\ ~gaveUp =>
    /\ walk.kind = "find" =>
         /\ (walk.a # 0) = HasSection(walk.cat)
         /\ walk.a # 0 =>
              /\ Word(mem, walk.a) = Len(DataOf(walk.cat))
              /\ \A i \in 1..Len(DataOf(walk.cat)) :
                   Word(mem, walk.a + i) = DataOf(walk.cat)[i]
    /\ walk.kind = "string" => walk.got = StringOf(dev, StringNo)
    /\ walk.kind = "sms" => walk.got = SmsOf(dev)
    /\ walk.kind = "fmmu" => walk.got = FmmusOf(dev)
    /\ walk.kind = "pdos" =>
         /\ Len(walk.got) = Len(dev.pdos)
         /\ \A sm \in 0..(EC_MAXSM - 1) : SmBits(walk, sm) = SmBitsOf(dev, sm)
    /\ walk.kind = "dump" =>
         /\ Len(walk.got) >= Len(Encode(dev))
         /\ \A i \in 1..Len(walk.got) : walk.got[i] = Word(mem, START + i - 1)


(* Between calls the chip belongs to whom eep_pdi says, and a function     *)
(* that borrowed it from the slave has returned it, whatever went wrong.   *)
OwnerRight ==
  Idle /\ ~IsTool =>
    /\ loss <= Retries /\ works # "gone" => (owner = "pdi") = (eep_pdi = 1)
    /\ walk.kind \notin {"none", "word"} /\ call.eectl = 1 => eep_pdi = 1

(* Every call returns, though frames are lost, the chip refuses, hangs or  *)
(* vanishes; but not when it stops after it has refused: then the loop     *)
(* over refusals has no end, the timeout notwithstanding.                  *)
Returns == []<>(Idle \/ (works # "yes" /\ nackcnt > 0))
==============================================================================
