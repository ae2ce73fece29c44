-------------------------------- MODULE Eeprom --------------------------------
(***************************************************************************)
(* The EEPROM of a slave as the master reads and writes it: ownership      *)
(* (ecx_eeprom2master, ecx_eeprom2pdi), the chip interface of the ESC      *)
(* driven datagram by datagram (ecx_readeepromFP, ecx_writeeepromFP and    *)
(* their AP twins), the cache of ecx_siigetbyte and the functions that     *)
(* walk through the sections with it (soem/ethercatmain.c).                *)
(*                                                                         *)
(* One slave, one caller.  The chip works for a while on each command, may *)
(* refuse it (NACK), hang, or vanish with its slave.  EepromTool runs the  *)
(* programs that use it.                                                   *)
(***************************************************************************)
EXTENDS Sii, TLC

CONSTANTS
  Devices,  \* the slaves there may be: what their EEPROM describes
  Chunk,    \* words the chip delivers per read: 2, or 4 if R64 is set
  MaxWords, \* words the cache holds (EC_MAXEEPBUF / 2)
  Alias,    \* a word below START the application writes
  Val,      \* values it writes
  Retries,  \* EC_DEFAULTRETRIES
  MaxFault, \* bound: commands the chip refuses, datagrams lost (no more
            \* than MaxLoss) and twice the stop of the chip, together
  MaxLoss,
  MaxCalls, \* bound: calls before the cache is cleared
  CanStop   \* may the chip hang or the slave vanish?

ASSUME EepromConstants ==
  /\ Chunk \in {2, 4} /\ MaxWords \in Nat
  /\ START > 3 /\ Alias \in 1..(START - 2)
  /\ Retries \in Nat /\ MaxFault \in Nat /\ MaxLoss \in Nat /\ MaxCalls \in Nat
  /\ CanStop \in BOOLEAN

(* The words of an EEPROM are words of 16 bits. *)
ASSUME DeviceWords == \A d \in Devices : Encode(d) \in Seq(0..End)

NOFRAME == -1
NoCmd   == [op |-> "none"]
Zeros   == [i \in 1..Chunk |-> 0]
Blank   == <<>>     \* a word that is not in the cache

VARIABLES
  \* the slave
  dev,      \* what it is
  mem,      \* the words of the EEPROM
  owner,    \* who has the chip: "master" or "pdi"
  cmd,      \* the command the chip works on
  dat,      \* the data register
  nack,     \* the error bits of the status register
  works,    \* "yes", or the chip "hangs", or the slave is "gone"
  \* the master
  pc,       \* where the function in progress is
  call,     \* its parameters
  eep_pdi,  \* ec_slavet.eep_pdi
  cache,    \* esibuf and esimap
  walk,     \* the walk through the sections
  adr,      \* word address of the access in progress
  cnt,      \* retries of the datagram in progress
  nackcnt,  \* refusals in a row
  expired,  \* the timer of the wait in progress
  result,   \* what the access delivers
  loss,     \* datagrams lost so far
  refused,  \* commands refused so far
  gaveUp    \* history: an access ended without its data

chipVars == <<dev, mem, owner, cmd, dat, nack, works>>
vars == <<chipVars, pc, call, eep_pdi, cache, walk, adr, cnt, nackcnt, expired,
          result, loss, refused, gaveUp>>

(* The words below START: the last of them is a checksum of the others.    *)
CrcWord == START - 1
Crc(words) == 100 + FoldLeft(LAMBDA s, w : s + w, 0, words)
Config  == [i \in 1..CrcWord |-> i]

Image(d) ==
  LET words == Config \o <<Crc(Config)>> \o Encode(d) IN
  [a \in 0..(Len(words) - 1) |-> words[a + 1]]
Word(m, a) == IF a \in DOMAIN m THEN m[a] ELSE End
Words(m, a, b) == [i \in 1..(b - a) |-> Word(m, a + i - 1)]

(* The slave's application has the EEPROM; eep_pdi is the program's.       *)
ChipInit ==
  /\ dev \in Devices
  /\ mem = Image(dev)
  /\ owner = "pdi"
  /\ cmd = NoCmd /\ dat = Zeros /\ nack = FALSE /\ works = "yes"
  /\ pc = "idle" /\ call = [kind |-> "none", val |-> 0, eectl |-> 0, n |-> 0]
  /\ cache = [a \in 0..(MaxWords - 1) |-> Blank]
  /\ walk = NoWalk /\ adr = 0 /\ cnt = 0 /\ nackcnt = 0 /\ expired = FALSE
  /\ result = Zeros /\ loss = 0 /\ refused = 0
  /\ gaveUp = FALSE

-----------------------------------------------------------------------------
(* A datagram and its working counter. *)
Outcome == {"back", "lostOut", "lostBack"}

MayFault(n) ==
  loss + refused + n + (IF works = "yes" THEN 0 ELSE 2) <= MaxFault

Datagram(o) ==
  /\ o # "back" => loss < MaxLoss /\ MayFault(1)
  /\ loss' = IF o = "back" THEN loss ELSE loss + 1

Reaches(o) == works # "gone" /\ o # "lostOut"
WkcOf(o) == IF o # "back" THEN NOFRAME ELSE IF works = "gone" THEN 0 ELSE 1

(* The retry loop around a datagram: again at here, or on at there. *)
Retried(r, here, there) ==
  IF r <= 0 /\ cnt < Retries THEN pc' = here /\ cnt' = cnt + 1
                             ELSE pc' = there /\ cnt' = 0

(* The chip finishes its command: a read fills the data register, a write  *)
(* stores its first word; either may be refused.                           *)
ChipDone ==
  /\ cmd # NoCmd /\ works = "yes"
  /\ \/ /\ nack' = FALSE /\ refused' = refused
        /\ IF cmd.op = "read"
           THEN /\ dat' = [i \in 1..Chunk |-> Word(mem, cmd.adr + i - 1)]
                /\ UNCHANGED mem
           ELSE /\ mem' = [mem EXCEPT ![cmd.adr] = dat[1]]
                /\ dat' = dat
     \/ /\ MayFault(1)
        /\ nack' = TRUE /\ refused' = refused + 1
        /\ UNCHANGED <<dat, mem>>
  /\ cmd' = NoCmd
  /\ UNCHANGED <<dev, owner, works, pc, call, eep_pdi, cache, walk, adr, cnt,
                 nackcnt, expired, result, loss, gaveUp>>

(* It stops; a bound: during the first call. *)
ChipStops ==
  /\ CanStop /\ works = "yes" /\ call.n = 1 /\ MayFault(2)
  /\ works' \in {"hangs", "gone"}
  /\ UNCHANGED <<dev, mem, owner, cmd, dat, nack, pc, call, eep_pdi, cache,
                 walk, adr, cnt, nackcnt, expired, result, loss,
                 refused, gaveUp>>

(* The chip takes a command when it is idle and the master's. *)
Commanded(o, c) ==
  IF Reaches(o) /\ cmd = NoCmd /\ owner = "master"
  THEN cmd' = c /\ nack' = FALSE
  ELSE UNCHANGED <<cmd, nack>>

-----------------------------------------------------------------------------
(* Where a function that needs the EEPROM starts: it takes it if eep_pdi   *)
(* says that the slave has it; a mutation believes it always has it.       *)
Entry_Trusting(k) == "wait"
Entry(k) == IF k = "AP" \/ eep_pdi = 0 THEN "wait" ELSE "force"

StartAccess(a, k) ==
  /\ adr' = a /\ pc' = Entry(k)
  /\ cnt' = 0 /\ nackcnt' = 0 /\ expired' = FALSE
  /\ result' = Zeros

(* ecx_eeprom2master: force the chip from the slave, then set it to master *)
(* (a slave that was not forced may let go of it or not).                  *)
EepromForce ==
  /\ pc = "force"
  /\ \E o \in Outcome :
       /\ Datagram(o)
       /\ owner' = IF Reaches(o) THEN "master" ELSE owner
       /\ Retried(WkcOf(o), "force", "take")
  /\ UNCHANGED <<dev, mem, cmd, dat, nack, works, call, eep_pdi, cache, walk,
                 adr, nackcnt, expired, result, refused, gaveUp>>

EepromTake ==
  /\ pc = "take"
  /\ \E o \in Outcome :
       /\ Datagram(o)
       /\ owner' \in IF Reaches(o) THEN {owner, "master"} ELSE {owner}
       /\ Retried(WkcOf(o), "take", IF call.kind = "toMaster" THEN "idle"
                                                                 ELSE "wait")
  /\ eep_pdi' = IF cnt' = 0 THEN 0 ELSE eep_pdi
  /\ UNCHANGED <<dev, mem, cmd, dat, nack, works, call, cache, walk, adr, nackcnt, expired, result,
                 refused, gaveUp>>

(* ecx_eeprom2pdi *)
EepromGive ==
  /\ pc = "give"
  /\ \E o \in Outcome :
       /\ Datagram(o)
       /\ owner' = IF Reaches(o) THEN "pdi" ELSE owner
       /\ Retried(WkcOf(o), "give", IF walk.stage = "done" THEN "idle" ELSE "get")
  /\ eep_pdi' = IF cnt' = 0 THEN 1 ELSE eep_pdi
  /\ UNCHANGED <<dev, mem, cmd, dat, nack, works, call, cache, walk, adr,
                 nackcnt, expired, result, refused, gaveUp>>

-----------------------------------------------------------------------------
IsWrite == call.kind \in {"write", "writeAP"}

(* The word of what was read that belongs at address a: a read starts at   *)
(* any word.                                                               *)
Place(a) == a - adr + 1

(* The end of an access: what was read goes to the cache when              *)
(* ecx_siigetbyte asked for it, or to the buffer of ecx_esidump, or is     *)
(* what the function returns.                                              *)
Returned(r) ==
  CASE call.kind = "walk" ->
         /\ cache' = [a \in DOMAIN cache |->
              IF a \in adr..(adr + Chunk - 1) THEN <<r[Place(a)]>> ELSE cache[a]]
         /\ pc' = "get"
    [] call.kind = "dump" -> pc' = "dumped" /\ UNCHANGED cache
    [] call.kind \in {"readAP", "writeAP"} -> pc' = "tool" /\ UNCHANGED cache
    [] OTHER -> pc' = "idle" /\ UNCHANGED cache

(* The test at the end of the loop over refusals. *)
AgainOrReturn(n, r) ==
  IF n \in 1..2
  THEN /\ pc' = IF IsWrite THEN "data" ELSE "command"
       /\ UNCHANGED cache
  ELSE Returned(r)

(* A poll of ecx_eeprom_waitnotbusyFP: a lost answer leaves the status     *)
(* zero, which reads as not busy once the timer is over.  A mutation has   *)
(* no timer.                                                               *)
Waits_NoTimer(o) == WkcOf(o) <= 0 \/ cmd # NoCmd
Waits(o) == (WkcOf(o) <= 0 \/ cmd # NoCmd) /\ ~expired

StillBusy(o) == WkcOf(o) > 0 /\ cmd # NoCmd

(* The first wait: clear the error bits, or go on. *)
WaitFirst ==
  /\ pc = "wait"
  /\ \E o \in Outcome :
       /\ Datagram(o)
       /\ IF Waits(o) THEN UNCHANGED <<pc, expired, cache>>
          ELSE /\ expired' = FALSE
               /\ IF StillBusy(o) THEN Returned(Zeros)
                  ELSE /\ pc' = IF WkcOf(o) > 0 /\ nack THEN "clear"
                                ELSE IF IsWrite THEN "data" ELSE "command"
                       /\ UNCHANGED cache
  /\ gaveUp' = (gaveUp \/ expired)
  /\ UNCHANGED <<chipVars, call, eep_pdi, walk, adr, cnt, nackcnt, result,
                 refused>>

ClearErrors ==
  /\ pc = "clear"
  /\ \E o \in Outcome :
       /\ Datagram(o)
       /\ Commanded(o, NoCmd)
  /\ pc' = IF IsWrite THEN "data" ELSE "command"
  /\ UNCHANGED <<dev, mem, owner, dat, works, call, eep_pdi, cache, walk, adr,
                 cnt, nackcnt, expired, result, refused, gaveUp>>

(* The word to write goes to the data register. *)
WriteData ==
  /\ pc = "data"
  /\ \E o \in Outcome :
       /\ Datagram(o)
       /\ dat' = IF Reaches(o) /\ owner = "master" THEN [dat EXCEPT ![1] = call.val]
                                                   ELSE dat
       /\ Retried(WkcOf(o), "data", "command")
  /\ UNCHANGED <<dev, mem, owner, cmd, nack, works, call, eep_pdi, cache, walk,
                 adr, nackcnt, expired, result, refused, gaveUp>>

(* The command, sent again if its frame is lost; the last frame lost is    *)
(* NOFRAME, which "if (wkc)" takes for success.                            *)
WriteCommand ==
  /\ pc = "command"
  /\ \E o \in Outcome :
       LET r == WkcOf(o) IN
       /\ Datagram(o)
       /\ Commanded(o, [op |-> IF IsWrite THEN "write" ELSE "read", adr |-> adr])
       /\ IF r <= 0 /\ cnt < Retries
          THEN cnt' = cnt + 1 /\ UNCHANGED <<pc, cache>>
          ELSE /\ cnt' = 0
               /\ IF r # 0 THEN pc' = "ready" /\ UNCHANGED cache
                  ELSE AgainOrReturn(nackcnt, result)
       /\ expired' = FALSE
  /\ UNCHANGED <<dev, mem, owner, dat, works, call, eep_pdi, walk, adr, nackcnt,
                 result, refused, gaveUp>>

(* The second wait, and what the status says; a mutation takes a refusal   *)
(* for the end of the command.                                             *)
IsRefused_Never(o) == FALSE
IsRefused(o) == WkcOf(o) > 0 /\ nack

WaitReady ==
  /\ pc = "ready"
  /\ \E o \in Outcome :
       /\ Datagram(o)
       /\ IF Waits(o)
          THEN UNCHANGED <<pc, expired, nackcnt, result, cache>>
          ELSE /\ expired' = FALSE
               /\ CASE StillBusy(o) ->
                         /\ nackcnt' = nackcnt /\ result' = result
                         /\ AgainOrReturn(nackcnt, result)
                    [] ~StillBusy(o) /\ IsRefused(o) ->
                         /\ nackcnt' = nackcnt + 1 /\ result' = result
                         /\ AgainOrReturn(nackcnt + 1, result)
                    [] ~StillBusy(o) /\ ~IsRefused(o) /\ IsWrite ->
                         /\ nackcnt' = 0 /\ result' = [Zeros EXCEPT ![1] = 1]
                         /\ Returned(result')
                    [] OTHER ->
                         /\ nackcnt' = 0 /\ result' = result
                         /\ pc' = "fetch" /\ UNCHANGED cache
  /\ gaveUp' = (gaveUp \/ expired \/ nackcnt' = 3)
  /\ UNCHANGED <<chipVars, call, eep_pdi, walk, adr, cnt, refused>>

(* Read the data register. *)
Fetch ==
  /\ pc = "fetch"
  /\ \E o \in Outcome :
       LET r == WkcOf(o) IN
       /\ Datagram(o)
       /\ result' = IF r > 0 THEN dat ELSE result
       /\ IF r <= 0 /\ cnt < Retries
          THEN cnt' = cnt + 1 /\ UNCHANGED <<pc, cache>>
          ELSE cnt' = 0 /\ Returned(result')
  /\ UNCHANGED <<chipVars, call, eep_pdi, walk, adr, nackcnt, expired, refused,
                 gaveUp>>

(* The timer of a wait that is in vain. *)
Expire ==
  /\ pc \in {"wait", "ready"} /\ ~expired
  /\ works = "gone" \/ (works = "hangs" /\ cmd # NoCmd)
  /\ expired' = TRUE
  /\ UNCHANGED <<chipVars, pc, call, eep_pdi, cache, walk, adr, cnt, nackcnt,
                 result, loss, refused, gaveUp>>

Steps == WaitFirst \/ ClearErrors \/ WriteCommand \/ WaitReady \/ Fetch

ReadeepromFP  == call.kind \in {"read", "walk", "dump"} /\ Steps
ReadeepromAP  == call.kind = "readAP" /\ Steps
WriteeepromFP == call.kind = "write" /\ (Steps \/ WriteData)
WriteeepromAP == call.kind = "writeAP" /\ (Steps \/ WriteData)

-----------------------------------------------------------------------------
(* ecx_siigetbyte: a word of the cache, one beyond it, or one to read.     *)
Cached(a) == IF a < MaxWords THEN cache[a] # Blank ELSE TRUE

(* Whether the EEPROM goes back to the slave after a step of the walk; a   *)
(* mutation returns early when nothing was found.                          *)
GoesBack_IfFound(w) == w.back /\ w.a # 0 /\ call.eectl = 1 /\ eep_pdi = 0
GoesBack(w) == w.back /\ call.eectl = 1 /\ eep_pdi = 0

GetHit ==
  /\ pc = "get" /\ Cached(walk.a)
  /\ LET x == IF walk.a >= MaxWords THEN End ELSE cache[walk.a][1]
         w == WalkOn(walk, x)
     IN /\ walk' = w
        /\ pc' = IF GoesBack(w) THEN "give"
                 ELSE IF w.stage = "done" THEN "idle" ELSE "get"
  /\ UNCHANGED <<chipVars, call, eep_pdi, cache, adr, cnt, nackcnt, expired,
                 result, loss, refused, gaveUp>>

GetMiss ==
  /\ pc = "get" /\ ~Cached(walk.a)
  /\ StartAccess(walk.a, "FP")
  /\ UNCHANGED <<chipVars, call, eep_pdi, cache, walk, loss, refused,
                 gaveUp>>

(* ecx_esidump: chunk after chunk, up to one that begins with 0xffffffff. *)
Dumped ==
  /\ pc = "dumped"
  /\ LET d == walk.got \o result
         next == adr + Chunk
     IN /\ walk' = [walk EXCEPT !.got = d]
        /\ IF next <= MaxWords /\ SubSeq(result, 1, 2) # <<End, End>>
           THEN StartAccess(next, "FP")
           ELSE /\ pc' = IF call.eectl = 1 /\ eep_pdi = 0 THEN "give" ELSE "idle"
                /\ UNCHANGED <<adr, cnt, nackcnt, expired, result>>
  /\ UNCHANGED <<chipVars, call, eep_pdi, cache, loss, refused,
                 gaveUp>>

-----------------------------------------------------------------------------
(* The calls. *)
StartCall(k, v) ==
  /\ pc = "idle" /\ call.n < MaxCalls
  /\ call' = [kind |-> k, val |-> v, eectl |-> eep_pdi, n |-> call.n + 1]

NoAccess ==
  adr' = 0 /\ cnt' = 0 /\ nackcnt' = 0 /\ expired' = FALSE /\ result' = Zeros

(* ecx_readeeprom, ecx_writeeeprom *)
CallRead(a) ==
  /\ StartCall("read", 0) /\ StartAccess(a, "FP")
  /\ walk' = NoWalk
  /\ UNCHANGED <<chipVars, eep_pdi, cache, loss, refused, gaveUp>>

CallWrite(v) ==
  /\ StartCall("write", v) /\ StartAccess(Alias, "FP")
  /\ walk' = NoWalk
  /\ UNCHANGED <<chipVars, eep_pdi, cache, loss, refused, gaveUp>>

CallDump ==
  /\ StartCall("dump", 0) /\ StartAccess(START, "FP")
  /\ walk' = Walk("dump", 0, "done", 0)
  /\ UNCHANGED <<chipVars, eep_pdi, cache, loss, refused, gaveUp>>

(* ecx_siigetbyte, ecx_siifind and the functions built on it; a bound: no  *)
(* walk starts after an access that got no data.                           *)
CallWalk(w) ==
  /\ ~gaveUp /\ works = "yes"
  /\ StartCall("walk", 0)
  /\ walk' = w /\ pc' = "get"
  /\ NoAccess
  /\ UNCHANGED <<chipVars, eep_pdi, cache, loss, refused, gaveUp>>

CallMaster ==
  /\ eep_pdi = 1 /\ StartCall("toMaster", 0)
  /\ pc' = "force" /\ walk' = NoWalk
  /\ NoAccess
  /\ UNCHANGED <<chipVars, eep_pdi, cache, loss, refused, gaveUp>>

CallPdi ==
  /\ eep_pdi = 0 /\ StartCall("toPdi", 0)
  /\ pc' = "give" /\ walk' = NoWalk
  /\ NoAccess
  /\ UNCHANGED <<chipVars, eep_pdi, cache, loss, refused, gaveUp>>

(* ecx_siigetbyte for another slave clears the cache. *)
OtherSlave ==
  /\ pc = "idle" /\ call.n = MaxCalls
  /\ call' = [kind |-> "none", val |-> 0, eectl |-> 0, n |-> 0]
  /\ cache' = [a \in DOMAIN cache |-> Blank]
  /\ walk' = NoWalk
  /\ NoAccess
  /\ UNCHANGED <<chipVars, pc, eep_pdi, loss, refused, gaveUp>>

(* The string that is looked for. *)
StringNo == 2

Walks ==
  {WalkWord(Alias), WalkFind("find", SecFMMU), WalkString(StringNo),
   WalkFind("sms", SecSM), WalkFind("fmmu", SecFMMU), WalkFind("pdos", SecPDO)}

Call ==
  \/ \E a \in {Alias, START} : CallRead(a)
  \/ \E v \in Val : CallWrite(v)
  \/ \E w \in Walks : CallWalk(w)
  \/ CallDump \/ CallMaster \/ CallPdi

Step ==
  \/ ReadeepromFP \/ ReadeepromAP \/ WriteeepromFP \/ WriteeepromAP
  \/ EepromForce \/ EepromTake \/ EepromGive
  \/ GetHit \/ GetMiss \/ Dumped
==============================================================================
