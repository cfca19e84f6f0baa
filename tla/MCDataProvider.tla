--------------------------- MODULE MCDataProvider ---------------------------
(***************************************************************************)
(* Holders of two values.  The disks' readings are below zero and two      *)
(* above, the network's zero and one above; no disk at all and one; CPU    *)
(* times with no tick at all and with full load.                           *)
(***************************************************************************)
EXTENDS ReCoMonBDataProvider

MCNet      == {0, 5}
MCDisk     == {-1100, 4096, 7168}
MCSpaces   == {<<0, 0>>, <<5, 8>>}
MCMemories == {<<3, 4>>}
MCCpuTimes == {[user |-> 0, other |-> 0, idle |-> 0],
               [user |-> 2, other |-> 1, idle |-> 0]}
=============================================================================
