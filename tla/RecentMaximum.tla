---------------------------- MODULE RecentMaximum ----------------------------
(***************************************************************************)
(* What a MeasurementDataHolder promises, without its list: the maximum of *)
(* the last `limit' measurements of everything that was ever recorded.     *)
(***************************************************************************)
EXTENDS Integers, Sequences

CONSTANTS Values, Limits

VARIABLES log, limit, maximum

LastOf(l, n) == {l[i] : i \in {j \in 1..Len(l) : j > Len(l) - n}}

Init == log = <<>> /\ limit = 1 /\ maximum = -1

Configure ==
    /\ log = <<>>
    /\ limit' \in Limits
    /\ UNCHANGED <<log, maximum>>

Record ==
    /\ \E data \in Values : log' = Append(log, data)
    /\ maximum' \in LastOf(log', limit)
    /\ \A v \in LastOf(log', limit) : v <= maximum'
    /\ UNCHANGED limit

Spec == Init /\ [][Configure \/ Record]_<<log, limit, maximum>>
=============================================================================
