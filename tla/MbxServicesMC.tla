---------------------------- MODULE MbxServicesMC ----------------------------
(* Instances of MbxServices for TLC: a1 is an object sent expedited, b1 one *)
(* that needs three parts; two parts of a PDO, a file, an IDN, a frame or   *)
(* the list of objects fit a mailbox.                                       *)
EXTENDS MbxServices

ObjDef    == {"a1", "b1", "pdo", "file", "idn", "ip", "frame", "od"}
IndexDef  == [o \in Obj |-> IF o = "a1" THEN 1 ELSE 2]
NPartsDef == [a1 |-> 1, b1 |-> 3, pdo |-> 3, file |-> 4, idn |-> 5, ip |-> 1,
              frame |-> 5, od |-> 5]
RoomDef   == [o \in Obj |-> CASE o = "idn" -> {3, 5}
                              [] o = "pdo" -> {1, 2}
                              [] o = "frame" -> {6}
                              [] OTHER -> {NParts[o], NParts[o] - 1}]
ErrorDef  == {"emergency", "mailboxError", "abort", "packet", "soe", "info"}
=============================================================================
