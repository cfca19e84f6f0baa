------------------------ MODULE ReCoMonBDataProvider ------------------------
(***************************************************************************)
(* getCpuData of ReCoMonBDataProvider.java: one sample of everything,      *)
(* scaled by the maxima of four MeasurementDataHolders and turned into the *)
(* rows of the matrix.  A call may end with an exception of a provider at  *)
(* each of its steps, or of a bar that leaves its array; what the steps    *)
(* before have stored stays.  Only the worker calls it.                    *)
(***************************************************************************)
EXTENDS CColor, Sequences, FiniteSets

CONSTANTS
    Limit,        \* of every holder (ReCoMonBMainFrame: 20)
    NetReadings,  \* what getMetric returns for one direction, in bytes
    DiskReadings, \* the same of getHddData
    Spaces,       \* its used and total space
    Memories,     \* used and total memory
    CpuTimes,     \* ticks since the last call: user, other work, idle
    None          \* null

ASSUME ProviderAssumption ==
    /\ Limit \in Nat \ {0}
    /\ NetReadings \subseteq Int /\ DiskReadings \subseteq Int
    /\ \A s \in Spaces : s[2] \in Nat /\ s[1] \in 0..s[2]
    /\ \A m \in Memories : m[2] \in Nat \ {0} /\ m[1] \in 0..m[2]
    /\ \A c \in CpuTimes : c.user \in Nat /\ c.other \in Nat /\ c.idle \in Nat

VARIABLES
    downloadList, downloadMax, uploadList, uploadMax, \* the four holders
    readList, readMax, writeList, writeMax,
    lastNetworkData,  \* download and upload of the last result
    lastHDDData,      \* Kbytes read and written of the last result
    outcome,          \* how the last call ended
    frame             \* the rows that it returned, if it did

networkVars == <<downloadList, downloadMax, uploadList, uploadMax,
                 lastNetworkData>>
diskVars    == <<readList, readMax, writeList, writeMax, lastHDDData>>
vars        == <<networkVars, diskVars, outcome, frame>>

Kbytes(bytes) == Truncated(bytes, 1024)

Download == INSTANCE MeasurementDataHolder
    WITH Values <- NetReadings, Limits <- {Limit}, limit <- Limit,
         measurements <- downloadList, maxValue <- downloadMax
Upload == INSTANCE MeasurementDataHolder
    WITH Values <- NetReadings, Limits <- {Limit}, limit <- Limit,
         measurements <- uploadList, maxValue <- uploadMax
Read == INSTANCE MeasurementDataHolder
    WITH Values <- {Kbytes(b) : b \in DiskReadings}, Limits <- {Limit},
         limit <- Limit, measurements <- readList, maxValue <- readMax
Write == INSTANCE MeasurementDataHolder
    WITH Values <- {Kbytes(b) : b \in DiskReadings}, Limits <- {Limit},
         limit <- Limit, measurements <- writeList, maxValue <- writeMax

Init ==
    /\ downloadList = <<>> /\ uploadList = <<>>
    /\ readList = <<>> /\ writeList = <<>>
    /\ downloadMax = -1 /\ uploadMax = -1 /\ readMax = -1 /\ writeMax = -1
    /\ lastNetworkData = None
    /\ lastHDDData = <<0, 0>>
    /\ outcome = "none" /\ frame = None

-----------------------------------------------------------------------------

Larger(a, b) == IF a >= b THEN a ELSE b

\* get...Percent: a reading over the larger maximum of its pair, or 0.
Ratio(reading, max) == IF max # 0 THEN <<reading, max>> ELSE <<0, 1>>

\* getDownloadPercent and getUploadPercent, in this order.
MeasureNetwork(net) ==
    /\ lastNetworkData' = net
    /\ Download!NewMeasurement(net[1])
    /\ Upload!NewMeasurement(net[2])

\* Faulty variant: a counter that restarts is not measured.
MeasureDisksFromZeroUp(hdd) ==
    /\ lastHDDData' = <<Kbytes(hdd[1]), Kbytes(hdd[2])>>
    /\ Read!NewMeasurement(Kbytes(hdd[1]))
    /\ IF hdd[2] < 0 THEN UNCHANGED <<writeList, writeMax>>
                     ELSE Write!NewMeasurement(Kbytes(hdd[2]))

\* getHddReadPercent and getHddWritePercent.
MeasureDisks(hdd) ==
    /\ lastHDDData' = <<Kbytes(hdd[1]), Kbytes(hdd[2])>>
    /\ Read!NewMeasurement(Kbytes(hdd[1]))
    /\ Write!NewMeasurement(Kbytes(hdd[2]))

\* Faulty variant: the ratio is formed before the reading is measured.
FirstRatioTooEarly(reading, ownMax, ownNext, otherMax) ==
    Ratio(reading, Larger(ownMax, otherMax))

\* Faulty variant: the first of a pair has a scale of its own.
FirstRatioAlone(reading, ownMax, ownNext, otherMax) == Ratio(reading, ownNext)

\* The first of a pair is scaled before the second has been measured.
FirstRatio(reading, ownMax, ownNext, otherMax) ==
    Ratio(reading, Larger(ownNext, otherMax))

\* Faulty variant: each bar of a pair has its own scale.
SecondRatioAlone(reading, ownNext, otherNext) == Ratio(reading, ownNext)

SecondRatio(reading, ownNext, otherNext) ==
    Ratio(reading, Larger(ownNext, otherNext))

\* Ratios of the CPU: the busy part of the time, and the user's part of that.
Combined(c)     == <<c.user + c.other, c.user + c.other + c.idle>>
Distribution(c) == <<c.user, c.user + c.other>>

Row(ratio, first, second) == GetLEDBar(ratio[1], ratio[2], first, second)

\* Below an eighth of load the distribution stays dark.  Without any ticks the
\* load is not a number, which is not above an eighth either.
DistributionRow(c) ==
    IF 8 * Combined(c)[1] >= Combined(c)[2] /\ Combined(c)[2] > 0
      THEN Row(Distribution(c), White, Red) ELSE [i \in 1..4 |-> 0]

\* The frame, row by row, from the new maxima of all but the first of each pair.
Rows(net, kb, space, memory, c) ==
    << Row(Combined(c), White, Black),
       DistributionRow(c),
       Row(memory, Red, Green),
       Row(FirstRatio(kb[1], readMax, readMax', writeMax), Blue, Black),
       Row(SecondRatio(kb[2], writeMax', readMax'), Yellow, Black),
       Row(space, Yellow, Green),
       Row(SecondRatio(net[2], uploadMax', downloadMax'), Cyan, Black),
       Row(FirstRatio(net[1], downloadMax, downloadMax', uploadMax),
           Magenta, Black) >>

-----------------------------------------------------------------------------

\* The loads of the cores or getMetric fail.
NetworkThrows ==
    /\ outcome' = "sigar" /\ frame' = None
    /\ UNCHANGED <<networkVars, diskVars>>

\* getHddData fails: the network's measurements are kept.
DisksThrow ==
    /\ \E down, up \in NetReadings : MeasureNetwork(<<down, up>>)
    /\ outcome' = "sigar" /\ frame' = None
    /\ UNCHANGED diskVars

\* The memory or the CPU fails.
MemoryThrows ==
    /\ \E down, up \in NetReadings : MeasureNetwork(<<down, up>>)
    /\ \E read, write \in DiskReadings : MeasureDisks(<<read, write>>)
    /\ outcome' = "sigar" /\ frame' = None

GetCpuData ==
    /\ \E down, up \in NetReadings : MeasureNetwork(<<down, up>>)
    /\ \E read, write \in DiskReadings : MeasureDisks(<<read, write>>)
    /\ \E space \in Spaces, memory \in Memories, c \in CpuTimes :
          LET rows == Rows(lastNetworkData', lastHDDData', space, memory, c)
          IN  IF \E i \in 1..8 : rows[i] = Throws
                THEN outcome' = "bounds" /\ frame' = None
                ELSE outcome' = "frame" /\ frame' = rows

Next == NetworkThrows \/ DisksThrow \/ MemoryThrows \/ GetCpuData

Spec == Init /\ [][Next]_vars

-----------------------------------------------------------------------------
(* What the main frame shows after a sample: the values and the maximum that *)
(* it gives to the two indicators of a pair.                                 *)

SetHddData ==
    [read |-> lastHDDData[1], write |-> lastHDDData[2],
     maximum |-> Larger(readMax, writeMax)]

SetNetworkData ==
    [download |-> lastNetworkData[1], upload |-> lastNetworkData[2],
     maximum |-> Larger(downloadMax, uploadMax)]

-----------------------------------------------------------------------------

NoneNegative ==
    /\ lastNetworkData[1] >= 0 /\ lastNetworkData[2] >= 0
    /\ lastHDDData[1] >= 0 /\ lastHDDData[2] >= 0

\* Only a negative change costs a sample its frame: with readings from zero up every
\* bar stays in its row, whatever was measured or failed before, also when the
\* holders keep negative values and when they are still empty.
OnlyNegativesFail == outcome = "bounds" => ~NoneNegative

\* No failure comes between the two measurements of a pair, so the scale of a pair
\* covers the same samples of both.
PairsInStep ==
    /\ Len(downloadList) = Len(uploadList)
    /\ Len(readList) = Len(writeList)
    /\ Len(readList) <= Len(downloadList)

\* The LEDs of a row that show a colour.
LitCells(i, color) == Cardinality({k \in 1..8 : Led(frame[i], k) = color})

\* The second bar of a pair is at least as long as the first when its reading is at
\* least as large, although the two are scaled by maxima of different moments.
OrderKept ==
    outcome = "frame" /\ NoneNegative =>
        /\ lastNetworkData[1] <= lastNetworkData[2] =>
              LitCells(8, Magenta) <= LitCells(7, Cyan)
        /\ lastHDDData[1] <= lastHDDData[2] =>
              LitCells(4, Blue) <= LitCells(5, Yellow)

\* The window's second bar of a pair and the board's stand for the same ratio,
\* though the two are computed at different times by different code.
WindowAgrees ==
    outcome = "frame" /\ NoneNegative =>
        /\ frame[7] = Row(Ratio(SetNetworkData.upload, SetNetworkData.maximum),
                          Cyan, Black)
        /\ frame[5] = Row(Ratio(SetHddData.write, SetHddData.maximum),
                          Yellow, Black)
=============================================================================
