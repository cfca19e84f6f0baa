------------------------ MODULE MeasurementDataHolder ------------------------
(***************************************************************************)
(* MeasurementDataHolder.java: a bounded list of measurements and the      *)
(* maximum of what it holds, recomputed by sorting a copy.                 *)
(***************************************************************************)
EXTENDS Integers, Sequences

CONSTANTS
    Values,  \* what is measured: longs, also negative after a counter's reset
    Limits   \* what the program passes to setLimit (the main frame: 20)

ASSUME HolderAssumption ==
    /\ Values \subseteq Int
    /\ Limits \subseteq Nat \ {0}

VARIABLES measurements, limit, maxValue

HolderInit == measurements = <<>> /\ limit = 1 /\ maxValue = -1

\* The main frame and the tests call it on a holder that is still empty.
SetLimit(n) ==
    /\ measurements = <<>>
    /\ limit' = n
    /\ UNCHANGED <<measurements, maxValue>>

Held(m) == {m[i] : i \in DOMAIN m}

\* Faulty variant: the list may grow one too long.
MakeRoomLate(m, n) == IF Len(m) > n THEN Tail(m) ELSE m

\* remove(0) on a full list.
MakeRoom(m, n) == IF Len(m) >= n THEN Tail(m) ELSE m

\* Faulty variant: a maximum that forgets nothing.
NewMeasurementForever(data) ==
    /\ measurements' = Append(MakeRoom(measurements, limit), data)
    /\ maxValue' = IF data > maxValue THEN data ELSE maxValue

\* The new maximum is the last element of the sorted copy; the limit stays, and a
\* module in which it is a variable says so.
NewMeasurement(data) ==
    /\ measurements' = Append(MakeRoom(measurements, limit), data)
    /\ \E m \in Held(measurements') :
          maxValue' = m /\ \A v \in Held(measurements') : v <= m
=============================================================================
