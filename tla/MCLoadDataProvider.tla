------------------------- MODULE MCLoadDataProvider -------------------------
(***************************************************************************)
(* Two mount points: a full disk and a nearly full one, so that a sum that *)
(* is doubled once too seldom falls below both.                            *)
(***************************************************************************)
EXTENDS ReCoMonBLoadDataProvider

CONSTANTS root, home

MCSpace ==
    [dir \in Dirs |-> IF dir = root THEN [used |-> 8, total |-> 8]
                      ELSE [used |-> 9, total |-> 10]]
=============================================================================
