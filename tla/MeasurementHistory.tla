-------------------------- MODULE MeasurementHistory --------------------------
(***************************************************************************)
(* One MeasurementDataHolder under any sequence of calls, beside the log   *)
(* of all its measurements (a history variable: the program keeps none),   *)
(* and the claim that it implements RecentMaximum.                         *)
(***************************************************************************)
EXTENDS MeasurementDataHolder

CONSTANT MaxLog  \* bound: calls of newMeasurement

ASSUME HistoryAssumption == MaxLog \in Nat

VARIABLE log

holderVars == <<measurements, limit, maxValue, log>>

HistoryInit == HolderInit /\ log = <<>>

Configure == \E n \in Limits : SetLimit(n) /\ UNCHANGED log

Measure ==
    /\ Len(log) < MaxLog
    /\ \E data \in Values : NewMeasurement(data) /\ log' = Append(log, data)
    /\ UNCHANGED limit

HistoryNext == Configure \/ Measure

HistorySpec == HistoryInit /\ [][HistoryNext]_holderVars

-----------------------------------------------------------------------------

HistoryTypeOK ==
    /\ measurements \in Seq(Values)
    /\ limit \in Limits \cup {1}
    /\ maxValue \in Values \cup {-1}
    /\ log \in Seq(Values)

\* m is the newest n elements of l, or all of l when it is shorter.
IsTail(m, l, n) ==
    /\ Len(m) = IF Len(l) < n THEN Len(l) ELSE n
    /\ \A i \in 1..Len(m) : m[i] = l[Len(l) - Len(m) + i]

\* The list is exactly the tail of the log that `limit' allows: nothing is
\* evicted early and nothing stays too long, at the bound and before it.
HoldsRecent == IsTail(measurements, log, limit)

\* The reading just taken never exceeds the maximum, so the ratio that the
\* provider sends to the board is at most one when the maximum is positive.
NewestWithinMaximum == log # <<>> => log[Len(log)] <= maxValue

\* The holder implements the maximum over a sliding window of the whole log.
RM == INSTANCE RecentMaximum WITH maximum <- maxValue
ImplementsRecentMaximum == RM!Spec
=============================================================================
