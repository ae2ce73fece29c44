------------------------------- MODULE EepromMC -------------------------------
(* Instances of EepromTool for TLC: a slave with every section, with a PDO *)
(* in a sync manager and one that belongs to none, and a slave with few.   *)
EXTENDS EepromTool

Sm(s, l)       == [start |-> s, length |-> l]
Pdo(i, sm, b)  == [index |-> i, sm |-> sm, bits |-> b]

Full == [strings |-> <<<<1>>, <<2, 3, 4>>>>,
         sms  |-> <<Sm(6, 2), Sm(7, 3)>>, fmmu |-> <<1, 2, 3, 4>>,
         pdos |-> <<Pdo(6, 9, <<5>>), Pdo(8, 1, <<3>>)>>]
Bare == [strings |-> <<<<5, 6>>>>, sms |-> <<Sm(6, 2), Sm(7, 3), Sm(8, 4)>>,
         fmmu |-> <<>>, pdos |-> <<>>]

Some == {Full, Bare}
===============================================================================
