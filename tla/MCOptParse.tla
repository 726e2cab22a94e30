------------------------------ MODULE MCOptParse ------------------------------
(* OptParse for TLC: one option that is required. *)
EXTENDS OptParse

AnOption(short, long, kind, required) ==
  [short |-> short, long |-> long, kind |-> kind, hidden |-> FALSE, required |-> required]
SomeTables == {<<AnOption("-a", "", "bool", FALSE), AnOption("-n", "--num", "number", TRUE)>>}
SomeAdded == <<AnOption("-h", "--help", "bool", FALSE)>>
SomeHalts == {[on |-> FALSE, n |-> 0, word |-> ""]}
=============================================================================
