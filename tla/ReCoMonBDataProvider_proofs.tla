--------------------- MODULE ReCoMonBDataProvider_proofs ---------------------
(***************************************************************************)
(* The frame of one sample, and the parts it is made from.  For any limit, *)
(* readings, spaces, memories and CPU times: only negative changes cost a  *)
(* sample its frame, the two holders of a pair stay in step, and the       *)
(* window agrees with the board.  For any values, limits and calls: a      *)
(* holder's list is the tail of the log, and the holder implements         *)
(* RecentMaximum.  For any reading and scale: a row shows its ratio, or is *)
(* lost far outside.  For any number of cores: a core that comes on line   *)
(* costs one sample.                                                       *)
(***************************************************************************)
EXTENDS ReCoMonBDataProvider, MeasurementHistory, CpuCores, LEDBar, SharedLemmas

(***************************************************************************)
(* The holders and the frame.                                              *)
(***************************************************************************)

HoldersOK ==
    /\ downloadList \in Seq(Int) /\ uploadList \in Seq(Int)
    /\ readList \in Seq(Int) /\ writeList \in Seq(Int)
    /\ downloadMax \in Int /\ uploadMax \in Int
    /\ readMax \in Int /\ writeMax \in Int

\* A call of newMeasurement, whichever the holder is.
Measures(list, data, next, max) ==
    /\ next = Append(IF Len(list) >= Limit THEN Tail(list) ELSE list, data)
    /\ \E m \in {next[i] : i \in DOMAIN next} :
          max = m /\ \A v \in {next[i] : i \in DOMAIN next} : v <= m

\* What a holder's call leaves, whichever holder it is.
LEMMA Measured ==
    ASSUME NEW list \in Seq(Int), NEW data \in Int, NEW next, NEW max,
           Measures(list, data, next, max)
    PROVE  /\ next \in Seq(Int) /\ max \in Int /\ data <= max
           /\ Len(next) = IF Len(list) >= Limit THEN Len(list) ELSE Len(list) + 1
  <1>1. PICK k : k = IF Len(list) >= Limit THEN Tail(list) ELSE list
    OBVIOUS
  <1>2. /\ k \in Seq(Int)
        /\ Len(k) = IF Len(list) >= Limit THEN Len(list) - 1 ELSE Len(list)
    <2>1. CASE Len(list) >= Limit
      <3>1. list # <<>>
        BY <2>1, ProviderAssumption
      <3>2. QED BY <1>1, <2>1, <3>1
    <2>2. CASE ~(Len(list) >= Limit)
      BY <1>1, <2>2
    <2>3. QED BY <2>1, <2>2
  <1>3. next = Append(k, data)
    BY <1>1 DEF Measures
  <1>4. next \in Seq(Int) /\ Len(next) = Len(k) + 1 /\ next[Len(next)] = data
    BY <1>2, <1>3
  <1>5. Len(next) \in DOMAIN next
    BY <1>2, <1>4
  <1>6. data \in {next[i] : i \in DOMAIN next}
    BY <1>4, <1>5
  <1>7. \A v \in {next[i] : i \in DOMAIN next} : v \in Int
    BY <1>4
  <1>8. max \in Int /\ data <= max
    BY <1>6, <1>7 DEF Measures
  <1>9. QED BY <1>2, <1>4, <1>8

\* A maximum that rises is the newest reading.
LEMMA NewMaximum ==
    ASSUME NEW list \in Seq(Int), NEW data \in Int, NEW next, NEW max,
           Measures(list, data, next, max),
           NEW old \in Int, \A i \in DOMAIN list : list[i] <= old
    PROVE  /\ max = data \/ max <= old
           /\ \A i \in DOMAIN next : next[i] <= max
  <1>1. PICK k : k = IF Len(list) >= Limit THEN Tail(list) ELSE list
    OBVIOUS
  <1>2. k \in Seq(Int) /\ \A i \in DOMAIN k : k[i] <= old
    <2>1. CASE Len(list) >= Limit
      <3>1. list # <<>> /\ k = Tail(list)
        BY <1>1, <2>1, ProviderAssumption
      <3>2. k \in Seq(Int) /\ \A i \in 1..Len(k) : k[i] = list[i + 1] /\ i + 1 \in DOMAIN list
        BY <3>1
      <3>3. ASSUME NEW i \in DOMAIN k PROVE k[i] <= old
        <4>1. i \in 1..Len(k)
          BY <3>2
        <4>2. k[i] = list[i + 1] /\ i + 1 \in DOMAIN list
          BY <3>2, <4>1
        <4>3. QED BY <4>2
      <3>4. QED BY <3>2, <3>3
    <2>2. CASE ~(Len(list) >= Limit)
      BY <1>1, <2>2
    <2>3. QED BY <2>1, <2>2
  <1>3. next = Append(k, data)
    BY <1>1 DEF Measures
  <1>4. \A i \in DOMAIN next : next[i] = data \/ (i \in DOMAIN k /\ next[i] = k[i])
    BY <1>2, <1>3
  <1>5. PICK i \in DOMAIN next : max = next[i]
    BY DEF Measures
  <1>6. \A j \in DOMAIN next : next[j] <= max
    BY DEF Measures
  <1>7. QED BY <1>2, <1>4, <1>5, <1>6

\* What the two holders of the network keep and return for one sample.
LEMMA NetworkMeasured ==
    ASSUME HoldersOK, NEW down \in NetReadings, NEW up \in NetReadings,
           MeasureNetwork(<<down, up>>)
    PROVE  /\ downloadList' \in Seq(Int) /\ uploadList' \in Seq(Int)
           /\ downloadMax' \in Int /\ uploadMax' \in Int
           /\ down <= downloadMax' /\ up <= uploadMax'
           /\ Len(downloadList') = IF Len(downloadList) >= Limit
                THEN Len(downloadList) ELSE Len(downloadList) + 1
           /\ Len(uploadList') = IF Len(uploadList) >= Limit
                THEN Len(uploadList) ELSE Len(uploadList) + 1
           /\ lastNetworkData' = <<down, up>>
  <1>1. down \in Int /\ up \in Int
    BY ProviderAssumption
  <1>2. /\ downloadList' \in Seq(Int) /\ downloadMax' \in Int
        /\ down <= downloadMax'
        /\ Len(downloadList') = IF Len(downloadList) >= Limit
             THEN Len(downloadList) ELSE Len(downloadList) + 1
    <2>1. Measures(downloadList, down, downloadList', downloadMax')
      BY <1>1 DEF Measures, MeasureNetwork, Download!NewMeasurement,
                  Download!MakeRoom, Download!Held
    <2>2. QED BY <1>1, <2>1, Measured DEF HoldersOK
  <1>3. /\ uploadList' \in Seq(Int) /\ uploadMax' \in Int
        /\ up <= uploadMax'
        /\ Len(uploadList') = IF Len(uploadList) >= Limit
             THEN Len(uploadList) ELSE Len(uploadList) + 1
    <2>1. Measures(uploadList, up, uploadList', uploadMax')
      BY <1>1 DEF Measures, MeasureNetwork, Upload!NewMeasurement,
                  Upload!MakeRoom, Upload!Held
    <2>2. QED BY <1>1, <2>1, Measured DEF HoldersOK
  <1>4. QED BY <1>2, <1>3 DEF MeasureNetwork

\* A change in bytes is sent as an integer number of kilobytes.
LEMMA KbytesInt == ASSUME NEW b \in Int PROVE Kbytes(b) \in Int
  BY DEF Kbytes, Truncated

\* What the two holders of the disks keep and return for one sample.
LEMMA DisksMeasured ==
    ASSUME HoldersOK, NEW read \in DiskReadings, NEW write \in DiskReadings,
           MeasureDisks(<<read, write>>)
    PROVE  /\ readList' \in Seq(Int) /\ writeList' \in Seq(Int)
           /\ readMax' \in Int /\ writeMax' \in Int
           /\ Kbytes(read) <= readMax' /\ Kbytes(write) <= writeMax'
           /\ Kbytes(read) \in Int /\ Kbytes(write) \in Int
           /\ Len(readList') = IF Len(readList) >= Limit
                THEN Len(readList) ELSE Len(readList) + 1
           /\ Len(writeList') = IF Len(writeList) >= Limit
                THEN Len(writeList) ELSE Len(writeList) + 1
           /\ lastHDDData' = <<Kbytes(read), Kbytes(write)>>
  <1>1. PICK r \in Int, w \in Int : r = Kbytes(read) /\ w = Kbytes(write)
    BY ProviderAssumption, KbytesInt
  <1>2. /\ readList' \in Seq(Int) /\ readMax' \in Int /\ r <= readMax'
        /\ Len(readList') = IF Len(readList) >= Limit
             THEN Len(readList) ELSE Len(readList) + 1
    <2>1. Measures(readList, r, readList', readMax')
      BY <1>1 DEF Measures, MeasureDisks, Read!NewMeasurement,
                  Read!MakeRoom, Read!Held
    <2>2. QED BY <1>1, <2>1, Measured DEF HoldersOK
  <1>3. /\ writeList' \in Seq(Int) /\ writeMax' \in Int /\ w <= writeMax'
        /\ Len(writeList') = IF Len(writeList) >= Limit
             THEN Len(writeList) ELSE Len(writeList) + 1
    <2>1. Measures(writeList, w, writeList', writeMax')
      BY <1>1 DEF Measures, MeasureDisks, Write!NewMeasurement,
                  Write!MakeRoom, Write!Held
    <2>2. QED BY <1>1, <2>1, Measured DEF HoldersOK
  <1>4. QED BY <1>1, <1>2, <1>3 DEF MeasureDisks

-----------------------------------------------------------------------------
(* The rows of a sample without negative changes. *)

\* A row of a ratio between zero and one is returned.
LEMMA RatioRow ==
    ASSUME NEW reading \in Nat, NEW max \in Int, reading <= max,
           NEW first, NEW second
    PROVE  Row(Ratio(reading, max), first, second) # Throws
  <1>1. CASE max # 0
    <2>1. Ratio(reading, max) = <<reading, max>> /\ max \in Nat
      BY <1>1 DEF Ratio
    <2>2. QED BY <2>1, RowReturned DEF Row
  <1>2. CASE max = 0
    <2>1. Ratio(reading, max) = <<0, 1>>
      BY <1>2 DEF Ratio
    <2>2. QED BY <2>1, RowReturned DEF Row
  <1>3. QED BY <1>1, <1>2

\* The rows of the CPU times are returned.
LEMMA CpuRows ==
    ASSUME NEW c \in CpuTimes, NEW first, NEW second
    PROVE  /\ Row(Combined(c), first, second) # Throws
           /\ DistributionRow(c) # Throws
  <1>1. PICK u \in Nat, o \in Nat, i \in Nat :
           u = c.user /\ o = c.other /\ i = c.idle
    BY ProviderAssumption
  <1>2. Row(Combined(c), first, second) # Throws
    <2>1. Combined(c) = <<u + o, u + o + i>>
      BY <1>1 DEF Combined
    <2>2. QED BY <2>1, RowReturned DEF Row
  <1>3. Row(Distribution(c), White, Red) # Throws
    <2>1. Distribution(c) = <<u, u + o>>
      BY <1>1 DEF Distribution
    <2>2. QED BY <2>1, RowReturned DEF Row
  <1>4. [k \in 1..4 |-> 0] # Throws
    <2>1. DOMAIN [k \in 1..4 |-> 0] = 1..4 /\ DOMAIN Throws = {} /\ 1 \in 1..4
      BY DEF Throws
    <2>2. QED BY <2>1
  <1>5. QED BY <1>2, <1>3, <1>4 DEF DistributionRow

\* Without a negative change, all eight rows of the frame are returned.
LEMMA RowsReturned ==
    ASSUME HoldersOK, HoldersOK',
           NEW down \in Nat, NEW up \in Nat, NEW read \in Nat, NEW write \in Nat,
           down <= downloadMax', up <= uploadMax',
           read <= readMax', write <= writeMax',
           NEW space \in Spaces, NEW memory \in Memories, NEW c \in CpuTimes
    PROVE  \A i \in 1..8 :
              Rows(<<down, up>>, <<read, write>>, space, memory, c)[i] # Throws
  <1>1. Row(memory, Red, Green) # Throws
    <2>1. memory[2] \in Nat /\ memory[1] \in Nat /\ memory[1] <= memory[2]
      BY ProviderAssumption
    <2>2. QED BY <2>1, RowReturned DEF Row
  <1>2. Row(space, Yellow, Green) # Throws
    <2>1. space[2] \in Nat /\ space[1] \in Nat /\ space[1] <= space[2]
      BY ProviderAssumption
    <2>2. QED BY <2>1, RowReturned DEF Row
  <1>3. Row(FirstRatio(read, readMax, readMax', writeMax), Blue, Black) # Throws
    <2>1. Larger(readMax', writeMax) \in Int /\ read <= Larger(readMax', writeMax)
      BY DEF HoldersOK, Larger
    <2>2. QED BY <2>1, RatioRow DEF FirstRatio
  <1>4. Row(SecondRatio(write, writeMax', readMax'), Yellow, Black) # Throws
    <2>1. Larger(writeMax', readMax') \in Int /\ write <= Larger(writeMax', readMax')
      BY DEF HoldersOK, Larger
    <2>2. QED BY <2>1, RatioRow DEF SecondRatio
  <1>5. Row(SecondRatio(up, uploadMax', downloadMax'), Cyan, Black) # Throws
    <2>1. /\ Larger(uploadMax', downloadMax') \in Int
          /\ up <= Larger(uploadMax', downloadMax')
      BY DEF HoldersOK, Larger
    <2>2. QED BY <2>1, RatioRow DEF SecondRatio
  <1>6. Row(FirstRatio(down, downloadMax, downloadMax', uploadMax),
            Magenta, Black) # Throws
    <2>1. /\ Larger(downloadMax', uploadMax) \in Int
          /\ down <= Larger(downloadMax', uploadMax)
      BY DEF HoldersOK, Larger
    <2>2. QED BY <2>1, RatioRow DEF FirstRatio
  <1>7. Row(Combined(c), White, Black) # Throws /\ DistributionRow(c) # Throws
    BY CpuRows
  <1>8. QED
    BY <1>1, <1>2, <1>3, <1>4, <1>5, <1>6, <1>7 DEF Rows

\* The second bar of a pair against the first: the first's scale counts the old
\* maximum of the second, which a new reading can only exceed as the whole.
LEMMA SecondNotShorter ==
    ASSUME NEW a \in Nat, NEW b \in Nat, a <= b,
           NEW first \in Int, a <= first, NEW second \in Int, b <= second,
           NEW old \in Int, second = b \/ second <= old
    PROVE  LET one == Ratio(a, Larger(first, old))
               two == Ratio(b, Larger(second, first))
           IN  /\ Bars(one[1], one[2]) \in 0..8 /\ Bars(two[1], two[2]) \in 0..8
               /\ Bars(one[1], one[2]) <= Bars(two[1], two[2])
  <1>1. PICK s \in Nat : s = Larger(first, old) /\ a <= s /\ first <= s /\ old <= s
    BY DEF Larger
  <1>2. PICK t \in Nat : t = Larger(second, first) /\ b <= t
                         /\ (t = second \/ t = first)
    BY DEF Larger
  <1>3. PICK one, two : one = Ratio(a, s) /\ two = Ratio(b, t)
    OBVIOUS
  <1>4. s # 0 => one[1] = a /\ one[2] = s
    BY <1>3 DEF Ratio
  <1>5. s = 0 => one[1] = 0 /\ one[2] = 1
    BY <1>3 DEF Ratio
  <1>6. t # 0 => two[1] = b /\ two[2] = t
    BY <1>3 DEF Ratio
  <1>7. t = 0 => two[1] = 0 /\ two[2] = 1
    BY <1>3 DEF Ratio
  <1>8. Bars(one[1], one[2]) \in 0..8 /\ Bars(two[1], two[2]) \in 0..8
    BY <1>1, <1>2, <1>4, <1>5, <1>6, <1>7, BarsInRow
  <1>9. Bars(one[1], one[2]) <= Bars(two[1], two[2])
    <2>1. CASE s = 0 \/ a = 0
      <3>1. Bars(one[1], one[2]) = 0
        BY <1>4, <1>5, <2>1, NoneLit
      <3>2. QED BY <1>8, <3>1
    <2>2. CASE s # 0 /\ a # 0
      <3>1. t # 0
        BY <1>2, <2>2
      <3>2. CASE t <= s
        BY <1>1, <1>2, <1>4, <1>6, <2>2, <3>1, <3>2, BarsInOrder
      <3>3. CASE t > s
        <4>1. t = b
          BY <1>1, <1>2, <3>3
        <4>2. Bars(two[1], two[2]) = 8
          BY <1>6, <3>1, <4>1, AllLit
        <4>3. QED BY <1>8, <4>2
      <3>4. QED BY <3>2, <3>3
    <2>3. QED BY <2>1, <2>2
  <1>10. QED BY <1>1, <1>2, <1>3, <1>8, <1>9

\* How many LEDs the row of a measurement shows.
LEMMA PairLit ==
    ASSUME NEW ratio, Bars(ratio[1], ratio[2]) \in 0..8, NEW color \in Colors \ {Black}
    PROVE  Cardinality({k \in 1..8 : Led(Row(ratio, color, Black), k) = color})
           = Bars(ratio[1], ratio[2])
  <1>1. Black \in Colors
    BY DEF Black, Colors
  <1>2. QED BY <1>1, RowLights DEF Row

\* The rows of a pair are in the order of their readings.
LEMMA OrderOfRows ==
    ASSUME HoldersOK, HoldersOK',
           NEW down \in Nat, NEW up \in Nat, NEW read \in Nat, NEW write \in Nat,
           down <= downloadMax', up <= uploadMax',
           read <= readMax', write <= writeMax',
           uploadMax' = up \/ uploadMax' <= uploadMax,
           writeMax' = write \/ writeMax' <= writeMax,
           NEW space, NEW memory, NEW c,
           frame' = Rows(<<down, up>>, <<read, write>>, space, memory, c)
    PROVE  /\ down <= up => LitCells(8, Magenta)' <= LitCells(7, Cyan)'
           /\ read <= write => LitCells(4, Blue)' <= LitCells(5, Yellow)'
  <1>1. Magenta \in Colors \ {Black} /\ Cyan \in Colors \ {Black}
        /\ Blue \in Colors \ {Black} /\ Yellow \in Colors \ {Black}
    BY DEF Colors, Black, Magenta, Cyan, Blue, Yellow
  <1>2. /\ uploadMax \in Int /\ writeMax \in Int
        /\ downloadMax' \in Int /\ uploadMax' \in Int
        /\ readMax' \in Int /\ writeMax' \in Int
    BY DEF HoldersOK
  <1>3. ASSUME down <= up PROVE LitCells(8, Magenta)' <= LitCells(7, Cyan)'
    <2>1. PICK one, two : /\ one = Ratio(down, Larger(downloadMax', uploadMax))
                          /\ two = Ratio(up, Larger(uploadMax', downloadMax'))
      OBVIOUS
    <2>2. /\ Bars(one[1], one[2]) \in 0..8 /\ Bars(two[1], two[2]) \in 0..8
          /\ Bars(one[1], one[2]) <= Bars(two[1], two[2])
      BY <1>2, <1>3, <2>1, SecondNotShorter
    <2>3. frame'[8] = Row(one, Magenta, Black) /\ frame'[7] = Row(two, Cyan, Black)
      BY <2>1 DEF Rows, FirstRatio, SecondRatio
    <2>4. LitCells(8, Magenta)' = Bars(one[1], one[2])
      BY <1>1, <2>2, <2>3, PairLit DEF LitCells
    <2>5. LitCells(7, Cyan)' = Bars(two[1], two[2])
      BY <1>1, <2>2, <2>3, PairLit DEF LitCells
    <2>6. QED BY <2>2, <2>4, <2>5
  <1>4. ASSUME read <= write PROVE LitCells(4, Blue)' <= LitCells(5, Yellow)'
    <2>1. PICK one, two : /\ one = Ratio(read, Larger(readMax', writeMax))
                          /\ two = Ratio(write, Larger(writeMax', readMax'))
      OBVIOUS
    <2>2. /\ Bars(one[1], one[2]) \in 0..8 /\ Bars(two[1], two[2]) \in 0..8
          /\ Bars(one[1], one[2]) <= Bars(two[1], two[2])
      BY <1>2, <1>4, <2>1, SecondNotShorter
    <2>3. frame'[4] = Row(one, Blue, Black) /\ frame'[5] = Row(two, Yellow, Black)
      BY <2>1 DEF Rows, FirstRatio, SecondRatio
    <2>4. LitCells(4, Blue)' = Bars(one[1], one[2])
      BY <1>1, <2>2, <2>3, PairLit DEF LitCells
    <2>5. LitCells(5, Yellow)' = Bars(two[1], two[2])
      BY <1>1, <2>2, <2>3, PairLit DEF LitCells
    <2>6. QED BY <2>2, <2>4, <2>5
  <1>5. QED BY <1>3, <1>4

-----------------------------------------------------------------------------
(* The steps. *)

\* The maxima of the second holders are not below what the holders keep: without it
\* a maximum could rise without a new reading.
Covered ==
    /\ \A i \in DOMAIN uploadList : uploadList[i] <= uploadMax
    /\ \A i \in DOMAIN writeList : writeList[i] <= writeMax

\* No upload that the holder keeps exceeds its maximum.
LEMMA NetworkCovered ==
    ASSUME HoldersOK, Covered, NEW down \in NetReadings, NEW up \in NetReadings,
           MeasureNetwork(<<down, up>>)
    PROVE  /\ uploadMax' = up \/ uploadMax' <= uploadMax
           /\ \A i \in DOMAIN uploadList' : uploadList'[i] <= uploadMax'
  <1>1. up \in Int
    BY ProviderAssumption
  <1>2. Measures(uploadList, up, uploadList', uploadMax')
    BY <1>1 DEF Measures, MeasureNetwork, Upload!NewMeasurement,
                Upload!MakeRoom, Upload!Held
  <1>3. /\ uploadList \in Seq(Int) /\ uploadMax \in Int
        /\ \A i \in DOMAIN uploadList : uploadList[i] <= uploadMax
    BY DEF HoldersOK, Covered
  <1>4. QED BY <1>1, <1>2, <1>3, NewMaximum

\* No write that the holder keeps exceeds its maximum.
LEMMA DisksCovered ==
    ASSUME HoldersOK, Covered, NEW read \in DiskReadings, NEW write \in DiskReadings,
           MeasureDisks(<<read, write>>)
    PROVE  /\ writeMax' = Kbytes(write) \/ writeMax' <= writeMax
           /\ \A i \in DOMAIN writeList' : writeList'[i] <= writeMax'
  <1>1. PICK w \in Int : w = Kbytes(write)
    BY ProviderAssumption, KbytesInt
  <1>2. Measures(writeList, w, writeList', writeMax')
    BY <1>1 DEF Measures, MeasureDisks, Write!NewMeasurement,
                Write!MakeRoom, Write!Held
  <1>3. /\ writeList \in Seq(Int) /\ writeMax \in Int
        /\ \A i \in DOMAIN writeList : writeList[i] <= writeMax
    BY DEF HoldersOK, Covered
  <1>4. QED BY <1>1, <1>2, <1>3, NewMaximum

PInv ==
    /\ HoldersOK /\ Covered /\ PairsInStep
    /\ OnlyNegativesFail /\ WindowAgrees /\ OrderKept

\* Init, GetCpuData and all other steps keep the invariant.
LEMMA ProviderStart == Init => PInv
  <1> SUFFICES ASSUME Init PROVE PInv
    OBVIOUS
  <1>1. <<>> \in Seq(Int)
    OBVIOUS
  <1>2. QED
    BY <1>1 DEF Init, PInv, HoldersOK, Covered, PairsInStep, OnlyNegativesFail,
                WindowAgrees, OrderKept

\* A step of one pair of holders, or of none, keeps their lengths equal.
LEMMA LengthsStep ==
    ASSUME NEW a \in Nat, NEW b \in Nat, NEW c \in Nat, NEW e \in Nat,
           a = b, c = e, c <= a
    PROVE  /\ (IF a >= Limit THEN a ELSE a + 1) = (IF b >= Limit THEN b ELSE b + 1)
           /\ (IF c >= Limit THEN c ELSE c + 1) = (IF e >= Limit THEN e ELSE e + 1)
           /\ (IF c >= Limit THEN c ELSE c + 1) <= (IF a >= Limit THEN a ELSE a + 1)
           /\ c <= (IF a >= Limit THEN a ELSE a + 1)
  BY ProviderAssumption

\* The lengths of the four lists are numbers.
LEMMA ListLengths ==
    ASSUME HoldersOK
    PROVE  /\ Len(downloadList) \in Nat /\ Len(uploadList) \in Nat
           /\ Len(readList) \in Nat /\ Len(writeList) \in Nat
  BY DEF HoldersOK

\* A call that measures both holders of a pair, or neither, keeps them in step.
LEMMA PairsStep ==
    ASSUME HoldersOK, PairsInStep,
           Len(downloadList)' = IF Len(downloadList) >= Limit
             THEN Len(downloadList) ELSE Len(downloadList) + 1,
           Len(uploadList)' = IF Len(uploadList) >= Limit
             THEN Len(uploadList) ELSE Len(uploadList) + 1,
           \/ /\ Len(readList)' = IF Len(readList) >= Limit
                   THEN Len(readList) ELSE Len(readList) + 1
              /\ Len(writeList)' = IF Len(writeList) >= Limit
                   THEN Len(writeList) ELSE Len(writeList) + 1
           \/ UNCHANGED <<readList, writeList>>
    PROVE  PairsInStep'
  <1>1. /\ Len(downloadList) = Len(uploadList)
        /\ Len(readList) = Len(writeList)
        /\ Len(readList) <= Len(downloadList)
    BY DEF PairsInStep
  <1>2. PICK a \in Nat, b \in Nat, c \in Nat, e \in Nat :
           /\ a = Len(downloadList) /\ b = Len(uploadList)
           /\ c = Len(readList) /\ e = Len(writeList)
    BY ListLengths
  <1>3. a = b /\ c = e /\ c <= a
    BY <1>1, <1>2
  <1>4. QED
    BY <1>2, <1>3, LengthsStep DEF PairsInStep

\* A sample keeps every part of the invariant, whether or not its frame is sent.
LEMMA GetCpuDataStep == PInv /\ GetCpuData => PInv'
  <1> SUFFICES ASSUME PInv, GetCpuData PROVE PInv'
    OBVIOUS
  <1> USE DEF PInv
  <1>1. PICK down \in NetReadings, up \in NetReadings :
           MeasureNetwork(<<down, up>>)
    BY DEF GetCpuData
  <1>2. PICK read \in DiskReadings, write \in DiskReadings :
           MeasureDisks(<<read, write>>)
    BY DEF GetCpuData
  <1>3. PICK space \in Spaces, memory \in Memories, c \in CpuTimes :
           LET rows == Rows(lastNetworkData', lastHDDData', space, memory, c)
           IN  IF \E i \in 1..8 : rows[i] = Throws
                 THEN outcome' = "bounds" /\ frame' = None
                 ELSE outcome' = "frame" /\ frame' = rows
    BY DEF GetCpuData
  <1>4. HoldersOK'
    BY <1>1, <1>2, NetworkMeasured, DisksMeasured DEF HoldersOK
  <1>5. PairsInStep'
    BY <1>1, <1>2, NetworkMeasured, DisksMeasured, PairsStep
  <1>6. OnlyNegativesFail'
    <2>1. SUFFICES ASSUME NoneNegative', outcome' = "bounds" PROVE FALSE
      BY DEF OnlyNegativesFail
    <2>2. PICK r \in Int, w \in Int : r = Kbytes(read) /\ w = Kbytes(write)
      BY <1>2, DisksMeasured
    <2>3. /\ lastNetworkData' = <<down, up>> /\ lastHDDData' = <<r, w>>
          /\ down <= downloadMax' /\ up <= uploadMax'
          /\ r <= readMax' /\ w <= writeMax'
      BY <1>1, <1>2, <2>2, NetworkMeasured, DisksMeasured
    <2>4. down \in Nat /\ up \in Nat /\ r \in Nat /\ w \in Nat
      BY <2>1, <2>3, ProviderAssumption DEF NoneNegative
    <2>5. \A i \in 1..8 : Rows(<<down, up>>, <<r, w>>, space, memory, c)[i] # Throws
      BY <1>4, <2>3, <2>4, RowsReturned
    <2>6. QED BY <1>3, <2>1, <2>3, <2>5
  <1>7. WindowAgrees'
    <2>1. SUFFICES ASSUME outcome' = "frame"
                   PROVE  /\ frame'[7] = Row(Ratio(SetNetworkData'.upload,
                                    SetNetworkData'.maximum), Cyan, Black)
                          /\ frame'[5] = Row(Ratio(SetHddData'.write,
                                    SetHddData'.maximum), Yellow, Black)
      BY DEF WindowAgrees
    <2>2. frame' = Rows(lastNetworkData', lastHDDData', space, memory, c)
      BY <1>3, <2>1
    <2>3. /\ Larger(uploadMax', downloadMax') = Larger(downloadMax', uploadMax')
          /\ Larger(writeMax', readMax') = Larger(readMax', writeMax')
      BY <1>4 DEF HoldersOK, Larger
    <2>4. /\ frame'[7] = Row(Ratio(lastNetworkData'[2],
                         Larger(uploadMax', downloadMax')), Cyan, Black)
          /\ frame'[5] = Row(Ratio(lastHDDData'[2],
                         Larger(writeMax', readMax')), Yellow, Black)
      BY <2>2 DEF Rows, SecondRatio
    <2>5. QED BY <2>3, <2>4 DEF SetNetworkData, SetHddData
  <1>8. Covered'
    BY <1>1, <1>2, NetworkCovered, DisksCovered DEF Covered
  <1>9. OrderKept'
    <2>1. SUFFICES ASSUME NoneNegative', outcome' = "frame" PROVE OrderKept'
      BY DEF OrderKept
    <2>2. PICK r \in Int, w \in Int : r = Kbytes(read) /\ w = Kbytes(write)
      BY <1>2, DisksMeasured
    <2>3. /\ lastNetworkData' = <<down, up>> /\ lastHDDData' = <<r, w>>
          /\ down <= downloadMax' /\ up <= uploadMax'
          /\ r <= readMax' /\ w <= writeMax'
      BY <1>1, <1>2, <2>2, NetworkMeasured, DisksMeasured
    <2>4. down \in Nat /\ up \in Nat /\ r \in Nat /\ w \in Nat
      BY <2>1, <2>3, ProviderAssumption DEF NoneNegative
    <2>5. /\ uploadMax' = up \/ uploadMax' <= uploadMax
          /\ writeMax' = w \/ writeMax' <= writeMax
      BY <1>1, <1>2, <2>2, NetworkCovered, DisksCovered
    <2>6. frame' = Rows(<<down, up>>, <<r, w>>, space, memory, c)
      BY <1>3, <2>1, <2>3
    <2>7. /\ down <= up => LitCells(8, Magenta)' <= LitCells(7, Cyan)'
          /\ r <= w => LitCells(4, Blue)' <= LitCells(5, Yellow)'
      BY <1>4, <2>3, <2>4, <2>5, <2>6, OrderOfRows
    <2>8. QED BY <2>3, <2>7 DEF OrderKept
  <1>10. QED BY <1>4, <1>5, <1>6, <1>7, <1>8, <1>9

\* So does every step of the provider.
LEMMA ProviderStep == PInv /\ [Next]_vars => PInv'
  <1> SUFFICES ASSUME PInv, [Next]_vars PROVE PInv'
    OBVIOUS
  <1> USE DEF PInv
  <1>1. CASE NetworkThrows
    BY <1>1 DEF NetworkThrows, networkVars, diskVars, HoldersOK, Covered,
                PairsInStep, OnlyNegativesFail, WindowAgrees, OrderKept
  <1>2. CASE DisksThrow
    <2>1. PICK down \in NetReadings, up \in NetReadings :
             MeasureNetwork(<<down, up>>)
      BY <1>2 DEF DisksThrow
    <2>2. /\ UNCHANGED <<readList, readMax, writeList, writeMax>>
          /\ outcome' = "sigar"
      BY <1>2 DEF DisksThrow, diskVars
    <2>3. HoldersOK' /\ PairsInStep'
      BY <2>1, <2>2, NetworkMeasured, PairsStep DEF HoldersOK
    <2>4. Covered'
      BY <2>1, <2>2, NetworkCovered DEF Covered
    <2>5. QED BY <2>2, <2>3, <2>4 DEF OnlyNegativesFail, WindowAgrees, OrderKept
  <1>3. CASE MemoryThrows
    <2>1. PICK down \in NetReadings, up \in NetReadings :
             MeasureNetwork(<<down, up>>)
      BY <1>3 DEF MemoryThrows
    <2>2. PICK read \in DiskReadings, write \in DiskReadings :
             MeasureDisks(<<read, write>>)
      BY <1>3 DEF MemoryThrows
    <2>3. outcome' = "sigar"
      BY <1>3 DEF MemoryThrows
    <2>4. HoldersOK' /\ PairsInStep'
      BY <2>1, <2>2, NetworkMeasured, DisksMeasured, PairsStep DEF HoldersOK
    <2>5. Covered'
      BY <2>1, <2>2, NetworkCovered, DisksCovered DEF Covered
    <2>6. QED BY <2>3, <2>4, <2>5 DEF OnlyNegativesFail, WindowAgrees, OrderKept
  <1>4. CASE GetCpuData
    BY <1>4, GetCpuDataStep
  <1>5. CASE UNCHANGED vars
    <2>1. /\ UNCHANGED <<downloadList, downloadMax, uploadList, uploadMax>>
          /\ UNCHANGED <<readList, readMax, writeList, writeMax>>
          /\ UNCHANGED <<lastNetworkData, lastHDDData, outcome, frame>>
      BY <1>5 DEF vars, networkVars, diskVars
    <2>2. HoldersOK' /\ PairsInStep'
      BY <2>1 DEF HoldersOK, PairsInStep
    <2>3. OnlyNegativesFail'
      BY <2>1 DEF OnlyNegativesFail, NoneNegative
    <2>4. WindowAgrees'
      BY <2>1 DEF WindowAgrees, NoneNegative, SetNetworkData, SetHddData
    <2>5. Covered'
      BY <2>1 DEF Covered
    <2>6. OrderKept'
      BY <2>1 DEF OrderKept, NoneNegative, LitCells
    <2>7. QED BY <2>2, <2>3, <2>4, <2>5, <2>6
  <1>6. QED BY <1>1, <1>2, <1>3, <1>4, <1>5 DEF Next

\* A sample without negative changes never loses its frame to a bar, whatever was
\* measured and whatever failed before it.
THEOREM FramesForSaneReadings == Spec => []OnlyNegativesFail
  <1>1. PInv => OnlyNegativesFail
    BY DEF PInv
  <1>2. QED BY <1>1, ProviderStart, ProviderStep, PTL DEF Spec

\* The two holders of a pair have always taken the same number of measurements.
THEOREM HoldersInStep == Spec => []PairsInStep
  <1>1. PInv => PairsInStep
    BY DEF PInv
  <1>2. QED BY <1>1, ProviderStart, ProviderStep, PTL DEF Spec

\* The window's and the board's second bar of a pair stand for the same ratio.
THEOREM WindowAndBoard == Spec => []WindowAgrees
  <1>1. PInv => WindowAgrees
    BY DEF PInv
  <1>2. QED BY <1>1, ProviderStart, ProviderStep, PTL DEF Spec

\* The second bar of a pair is never the shorter one of a pair of readings in order,
\* although its scale may have risen since the first was scaled.
THEOREM BarsOfPairsInOrder == Spec => []OrderKept
  <1>1. PInv => OrderKept
    BY DEF PInv
  <1>2. QED BY <1>1, ProviderStart, ProviderStep, PTL DEF Spec

(***************************************************************************)
(* The holder of the measurements.                                         *)
(***************************************************************************)

HInv == HistoryTypeOK /\ HoldsRecent /\ NewestWithinMaximum

\* The empty holder satisfies the invariant.
LEMMA InitHolds == HistoryInit => HInv
  <1> SUFFICES ASSUME HistoryInit PROVE HInv
    OBVIOUS
  <1>1. <<>> \in Seq(Values) /\ Len(<<>>) = 0
    OBVIOUS
  <1>2. QED
    BY <1>1, HolderAssumption
       DEF HistoryInit, HolderInit, HInv, HistoryTypeOK, HoldsRecent, IsTail, NewestWithinMaximum

\* The two ways the list is cut before the new value is added.
LEMMA CutTail ==
    ASSUME NEW m \in Seq(Values), NEW l \in Seq(Values), NEW lim \in Nat \ {0},
           IsTail(m, l, lim)
    PROVE  /\ MakeRoom(m, lim) \in Seq(Values)
           /\ Len(MakeRoom(m, lim)) = IF Len(l) < lim THEN Len(l) ELSE lim - 1
           /\ \A i \in 1..Len(MakeRoom(m, lim)) :
                 MakeRoom(m, lim)[i] = l[Len(l) - Len(MakeRoom(m, lim)) + i]
  <1>1. Len(m) \in Nat /\ Len(l) \in Nat
    OBVIOUS
  <1>2. Len(m) = IF Len(l) < lim THEN Len(l) ELSE lim
    BY DEF IsTail
  <1>3. PICK k : k = MakeRoom(m, lim)
    OBVIOUS
  <1>4. /\ k \in Seq(Values)
        /\ Len(k) = IF Len(l) < lim THEN Len(l) ELSE lim - 1
        /\ \A i \in 1..Len(k) : k[i] = l[Len(l) - Len(k) + i]
    <2>1. CASE Len(m) >= lim
      <3>1. Len(m) = lim /\ ~(Len(l) < lim) /\ k = Tail(m) /\ m # <<>>
        BY <1>1, <1>2, <1>3, <2>1 DEF MakeRoom
      <3>2. k \in Seq(Values) /\ Len(k) = lim - 1
        BY <3>1
      <3>3. ASSUME NEW i \in 1..Len(k) PROVE k[i] = l[Len(l) - Len(k) + i]
        <4>1. k[i] = m[i + 1] /\ i + 1 \in 1..Len(m)
          BY <3>1, <3>2
        <4>2. m[i + 1] = l[Len(l) - Len(m) + (i + 1)]
          BY <4>1 DEF IsTail
        <4>3. Len(l) - Len(m) + (i + 1) = Len(l) - Len(k) + i
          BY <1>1, <3>1, <3>2
        <4>4. QED BY <4>1, <4>2, <4>3
      <3>4. Len(k) = IF Len(l) < lim THEN Len(l) ELSE lim - 1
        BY <1>1, <3>1, <3>2
      <3>5. QED BY <3>2, <3>3, <3>4
    <2>2. CASE ~(Len(m) >= lim)
      <3>1. k = m /\ Len(m) = Len(l) /\ Len(l) < lim
        BY <1>1, <1>2, <1>3, <2>2 DEF MakeRoom
      <3>2. QED BY <1>1, <3>1 DEF IsTail
    <2>3. QED BY <2>1, <2>2
  <1>5. QED BY <1>3, <1>4

\* A call keeps the list the tail of the log.
LEMMA SlideTail ==
    ASSUME NEW m \in Seq(Values), NEW l \in Seq(Values), NEW lim \in Nat \ {0},
           IsTail(m, l, lim), NEW data \in Values
    PROVE  IsTail(Append(MakeRoom(m, lim), data), Append(l, data), lim)
  <1>1. PICK k : k = MakeRoom(m, lim)
    OBVIOUS
  <1>2. /\ k \in Seq(Values)
        /\ Len(k) = IF Len(l) < lim THEN Len(l) ELSE lim - 1
        /\ \A i \in 1..Len(k) : k[i] = l[Len(l) - Len(k) + i]
    BY <1>1, CutTail
  <1>3. PICK a, b : a = Append(k, data) /\ b = Append(l, data)
    OBVIOUS
  <1>4. Len(k) \in Nat /\ Len(l) \in Nat
    BY <1>2
  <1>5. /\ Len(a) = Len(k) + 1 /\ a[Len(k) + 1] = data
        /\ \A i \in 1..Len(k) : a[i] = k[i]
    BY <1>2, <1>3
  <1>6. /\ Len(b) = Len(l) + 1 /\ b[Len(l) + 1] = data
        /\ \A i \in 1..Len(l) : b[i] = l[i]
    BY <1>3
  <1>7. ASSUME NEW i \in 1..Len(a) PROVE a[i] = b[Len(b) - Len(a) + i]
    <2>1. CASE i = Len(k) + 1
      <3>1. Len(b) - Len(a) + i = Len(l) + 1
        BY <1>4, <1>5, <1>6, <2>1
      <3>2. QED BY <1>5, <1>6, <2>1, <3>1
    <2>2. CASE i # Len(k) + 1
      <3>1. i \in 1..Len(k)
        BY <1>4, <1>5, <2>2
      <3>2. Len(b) - Len(a) + i = Len(l) - Len(k) + i
        BY <1>4, <1>5, <1>6, <3>1
      <3>3. Len(l) - Len(k) + i \in 1..Len(l)
        BY <1>2, <1>4, <3>1
      <3>4. a[i] = l[Len(l) - Len(k) + i]
        BY <1>2, <1>5, <3>1
      <3>5. b[Len(l) - Len(k) + i] = l[Len(l) - Len(k) + i]
        BY <1>6, <3>3
      <3>6. QED BY <3>2, <3>4, <3>5
    <2>3. QED BY <2>1, <2>2
  <1>8. Len(a) = IF Len(b) < lim THEN Len(b) ELSE lim
    BY <1>2, <1>4, <1>5, <1>6
  <1>9. IsTail(a, b, lim)
    BY <1>7, <1>8 DEF IsTail
  <1>10. QED BY <1>1, <1>3, <1>9

\* A new measurement keeps the list the tail of the log.
LEMMA MeasureTail ==
    ASSUME HInv, NEW data \in Values, NewMeasurement(data),
           log' = Append(log, data)
    PROVE  /\ measurements' \in Seq(Values) /\ log' \in Seq(Values)
           /\ Len(log') = Len(log) + 1 /\ log'[Len(log')] = data
           /\ IsTail(measurements', log', limit)
  <1>1. measurements \in Seq(Values) /\ log \in Seq(Values) /\ limit \in Nat \ {0}
    BY HolderAssumption DEF HInv, HistoryTypeOK
  <1>2. log' \in Seq(Values) /\ Len(log') = Len(log) + 1 /\ log'[Len(log')] = data
    BY <1>1
  <1>3. measurements' = Append(MakeRoom(measurements, limit), data)
    BY DEF NewMeasurement
  <1>4. IsTail(measurements, log, limit)
    BY DEF HInv, HoldsRecent
  <1>5. IsTail(measurements', log', limit)
    BY <1>1, <1>3, <1>4, SlideTail
  <1>6. measurements' \in Seq(Values)
    <2>1. MakeRoom(measurements, limit) \in Seq(Values)
      BY <1>1, <1>4, CutTail
    <2>2. QED BY <1>3, <2>1
  <1>7. QED BY <1>2, <1>5, <1>6

\* What the list holds is what the abstract window holds.
LEMMA HeldIsWindow ==
    ASSUME NEW m \in Seq(Values), NEW l \in Seq(Values), NEW lim \in Nat \ {0},
           IsTail(m, l, lim)
    PROVE  Held(m) = RM!LastOf(l, lim)
  <1>1. Len(m) \in Nat /\ Len(l) \in Nat /\ DOMAIN m = 1..Len(m)
    OBVIOUS
  <1>2. \/ Len(l) < lim /\ Len(m) = Len(l)
        \/ Len(l) >= lim /\ Len(m) = lim
    BY <1>1 DEF IsTail
  <1>0. Len(m) <= Len(l) /\ Len(m) <= lim
    <2>1. CASE Len(l) < lim /\ Len(m) = Len(l)
      BY <1>1, <2>1
    <2>2. CASE Len(l) >= lim /\ Len(m) = lim
      BY <1>1, <2>2
    <2>3. QED BY <1>2, <2>1, <2>2
  <1>3. ASSUME NEW i \in 1..Len(m) PROVE m[i] \in RM!LastOf(l, lim)
    <2>1. Len(l) - Len(m) + i \in {j \in 1..Len(l) : j > Len(l) - lim}
      <3>1. Len(l) - Len(m) + i \in 1..Len(l)
        BY <1>0, <1>1
      <3>2. Len(l) - Len(m) + i > Len(l) - lim
        BY <1>0, <1>1
      <3>3. QED BY <3>1, <3>2
    <2>2. m[i] = l[Len(l) - Len(m) + i]
      BY DEF IsTail
    <2>3. QED BY <2>1, <2>2 DEF RM!LastOf
  <1>4. ASSUME NEW j \in 1..Len(l), j > Len(l) - lim PROVE l[j] \in Held(m)
    <2>1. PICK i : i = j - (Len(l) - Len(m))
      OBVIOUS
    <2>2. i \in 1..Len(m) /\ Len(l) - Len(m) + i = j
      <3>1. i \in Int /\ Len(l) - Len(m) + i = j
        BY <1>1, <2>1
      <3>2. CASE Len(l) < lim /\ Len(m) = Len(l)
        BY <1>1, <1>4, <2>1, <3>1, <3>2
      <3>3. CASE Len(l) >= lim /\ Len(m) = lim
        BY <1>1, <1>4, <2>1, <3>1, <3>3
      <3>4. QED BY <1>2, <3>1, <3>2, <3>3
    <2>3. m[i] = l[j]
      BY <2>2 DEF IsTail
    <2>4. QED BY <1>1, <2>2, <2>3 DEF Held
  <1>5. \A x \in Held(m) : x \in RM!LastOf(l, lim)
    BY <1>1, <1>3 DEF Held
  <1>6. \A x \in RM!LastOf(l, lim) : x \in Held(m)
    BY <1>4 DEF RM!LastOf
  <1>7. QED BY <1>5, <1>6

\* Configure and Measure keep the invariant.
LEMMA StepHolds == HInv /\ [HistoryNext]_holderVars => HInv'
  <1> SUFFICES ASSUME HInv, [HistoryNext]_holderVars PROVE HInv'
    OBVIOUS
  <1>1. CASE Configure
    <2>1. PICK lim \in Limits : SetLimit(lim) /\ UNCHANGED log
      BY <1>1 DEF Configure
    <2>2. log = <<>>
      BY <2>1, HolderAssumption DEF SetLimit, HInv, HistoryTypeOK, HoldsRecent, IsTail
    <2>3. QED
      BY <2>1, <2>2, HolderAssumption
         DEF SetLimit, HInv, HistoryTypeOK, HoldsRecent, IsTail, NewestWithinMaximum
  <1>2. CASE Measure
    <2>1. PICK data \in Values :
             NewMeasurement(data) /\ log' = Append(log, data) /\ limit' = limit
      BY <1>2 DEF Measure
    <2>2. /\ measurements' \in Seq(Values) /\ log' \in Seq(Values)
          /\ Len(log') = Len(log) + 1 /\ log'[Len(log')] = data
          /\ IsTail(measurements', log', limit)
      BY <2>1, MeasureTail
    <2>3. limit' = limit /\ limit \in Limits \cup {1} /\ limit \in Nat \ {0}
      BY <2>1, HolderAssumption DEF NewMeasurement, HInv, HistoryTypeOK
    <2>4. /\ maxValue' \in Held(measurements')
          /\ \A v \in Held(measurements') : v <= maxValue'
      BY <2>1 DEF NewMeasurement
    <2>5. Len(measurements') \in 1..Len(measurements')
      BY <2>2, <2>3 DEF IsTail, HInv, HistoryTypeOK
    <2>6. measurements'[Len(measurements')] = log'[Len(log')]
      <3>1. measurements'[Len(measurements')]
              = log'[Len(log') - Len(measurements') + Len(measurements')]
        BY <2>2, <2>5 DEF IsTail
      <3>2. Len(log') \in Nat /\ Len(measurements') \in Nat
        BY <2>2
      <3>3. QED BY <3>1, <3>2
    <2>7. log'[Len(log')] <= maxValue'
      BY <2>4, <2>5, <2>6, <2>2 DEF Held
    <2>8. maxValue' \in Values
      BY <2>2, <2>4 DEF Held
    <2>9. QED
      BY <2>2, <2>3, <2>7, <2>8 DEF HInv, HistoryTypeOK, HoldsRecent, NewestWithinMaximum
  <1>3. CASE UNCHANGED holderVars
    BY <1>3 DEF holderVars, HInv, HistoryTypeOK, HoldsRecent, IsTail, NewestWithinMaximum
  <1>4. QED BY <1>1, <1>2, <1>3 DEF HistoryNext

\* The invariant holds in every state.
LEMMA Invariant == HistorySpec => []HInv
  BY InitHolds, StepHolds, PTL DEF HistorySpec

-----------------------------------------------------------------------------

\* The list never holds more, less or other than the newest `limit' values.
THEOREM WindowTheorem == HistorySpec => []HoldsRecent
  BY Invariant, PTL DEF HInv

\* The newest value is never above the maximum that scales it.
THEOREM NewestTheorem == HistorySpec => []NewestWithinMaximum
  BY Invariant, PTL DEF HInv

\* Every run of the holder is a run of the sliding-window maximum.
THEOREM Implementation == HistorySpec => ImplementsRecentMaximum
  <1>1. HistoryInit => RM!Init
    BY DEF HistoryInit, HolderInit, RM!Init
  <1>2. HInv /\ [HistoryNext]_holderVars
          => [RM!Configure \/ RM!Record]_<<log, limit, maxValue>>
    <2> SUFFICES ASSUME HInv, [HistoryNext]_holderVars
                 PROVE  [RM!Configure \/ RM!Record]_<<log, limit, maxValue>>
      OBVIOUS
    <2>1. CASE Configure
      <3>1. PICK lim \in Limits : SetLimit(lim) /\ UNCHANGED log
        BY <2>1 DEF Configure
      <3>2. log = <<>>
        BY <3>1, HolderAssumption DEF SetLimit, HInv, HistoryTypeOK, HoldsRecent, IsTail
      <3>3. QED BY <3>1, <3>2 DEF SetLimit, RM!Configure
    <2>2. CASE Measure
      <3>1. PICK data \in Values :
               NewMeasurement(data) /\ log' = Append(log, data) /\ limit' = limit
        BY <2>2 DEF Measure
      <3>2. limit' = limit /\ limit \in Nat \ {0}
        BY <3>1, HolderAssumption DEF NewMeasurement, HInv, HistoryTypeOK
      <3>3. Held(measurements') = RM!LastOf(log', limit)
        BY <3>1, <3>2, MeasureTail, HeldIsWindow
      <3>4. /\ maxValue' \in Held(measurements')
            /\ \A v \in Held(measurements') : v <= maxValue'
        BY <3>1 DEF NewMeasurement
      <3>5. QED BY <3>1, <3>2, <3>3, <3>4 DEF RM!Record
    <2>3. CASE UNCHANGED holderVars
      BY <2>3 DEF holderVars
    <2>4. QED BY <2>1, <2>2, <2>3 DEF HistoryNext
  <1>3. QED
    BY <1>1, <1>2, Invariant, PTL DEF HistorySpec, ImplementsRecentMaximum, RM!Spec

(***************************************************************************)
(* A row of the matrix: what it shows of its ratio, and when it fails.     *)
(***************************************************************************)

BarInv ==
    /\ n \in Int /\ d \in Nat /\ colors \in Colors \X Colors
    /\ Defined(n, d) /\ row = RowOf(n, d, colors)

\* The row is always the one of its ratio and colours.
LEMMA BarStarts == BarInit => BarInv
  BY LEDBarAssumption DEF BarInit, BarInv, Defined

\* A sample sends the row of the new ratio.
LEMMA BarKeeps == BarInv /\ [Sample]_barVars => BarInv'
  <1> SUFFICES ASSUME BarInv, [Sample]_barVars PROVE BarInv'
    OBVIOUS
  <1>1. CASE Sample
    <2>1. n' \in Int /\ d' = d /\ colors' = colors
      BY <1>1, LEDBarAssumption DEF Sample
    <2>2. QED BY <1>1, <2>1 DEF Sample, BarInv, Defined
  <1>2. CASE UNCHANGED barVars
    BY <1>2 DEF barVars, BarInv, Defined
  <1>3. QED BY <1>1, <1>2

\* The invariant holds in every state.
LEMMA BarInvariant == BarSpec => []BarInv
  BY BarStarts, BarKeeps, PTL DEF BarSpec

\* A bar that throws has more than eight LEDs or fewer than none.
LEMMA BarThrows ==
    ASSUME BarInv, d > 0
    PROVE  /\ Bars(n, d) \in Int
           /\ row = Throws <=> Bars(n, d) >= 9 \/ Bars(n, d) <= -1
  <1>1. n \in Int /\ d \in Nat \ {0}
    BY DEF BarInv
  <1>2. PICK b \in Int : b = Bars(n, d)
    BY <1>1, BarsReach
  <1>3. row = Throws <=> b \notin 0..8
    BY <1>2, RowReturnedIff DEF BarInv, RowOf
  <1>4. QED BY <1>2, <1>3

\* The percentages at which one more LED lights up.
LEMMA StepList ==
    /\ StepOf(1) = 13 /\ StepOf(2) = 25 /\ StepOf(3) = 38 /\ StepOf(4) = 50
    /\ StepOf(5) = 63 /\ StepOf(6) = 75 /\ StepOf(7) = 88 /\ StepOf(8) = 100
    /\ StepOf(9) = 113
  BY DEF StepOf

\* They are the ones of the eight LEDs.
LEMMA StepsAreSteps == Steps = {StepOf(k) : k \in 1..8}
  <1>1. \A k \in 1..8 : k = 1 \/ k = 2 \/ k = 3 \/ k = 4 \/ k = 5 \/ k = 6 \/ k = 7 \/ k = 8
    OBVIOUS
  <1>2. \A k \in 1..8 : StepOf(k) \in Steps
    BY <1>1, StepList DEF Steps
  <1>3. \A s \in Steps : \E k \in 1..8 : StepOf(k) = s
    BY StepList DEF Steps
  <1>4. QED BY <1>2, <1>3

\* The first b of them are b different ones.
LEMMA StepsCounted ==
    ASSUME NEW b \in 0..8
    PROVE  Cardinality({StepOf(k) : k \in 1..b}) = b
  <1> DEFINE T == {StepOf(k) : k \in 1..b}
             f == [k \in 1..b |-> StepOf(k)]
  <1>1. f \in [1..b -> T]
    OBVIOUS
  <1>2. \A k, m \in 1..b : f[k] = f[m] => k = m
    BY DEF StepOf
  <1>3. \A s \in T : \E k \in 1..b : f[k] = s
    OBVIOUS
  <1> HIDE DEF T, f
  <1>4. f \in Bijection(1..b, T)
    BY <1>1, <1>2, <1>3 DEF Bijection, Injection, Surjection, IsInjective
  <1>5. ExistsBijection(1..b, T)
    BY <1>4 DEF ExistsBijection
  <1>6. IsFiniteSet(1..b) /\ Cardinality(1..b) = IF 1 > b THEN 0 ELSE b - 1 + 1
    BY FS_Interval
  <1>7. Cardinality(T) = Cardinality(1..b)
    BY <1>5, <1>6, FS_Bijection
  <1>8. QED BY <1>6, <1>7 DEF T

\* As many steps are reached as LEDs are lit.
LEMMA ReachedCounted ==
    ASSUME BarInv, d > 0, Bars(n, d) \in 0..8
    PROVE  Cardinality(Reached) = Bars(n, d)
  <1>1. n \in Int /\ d \in Nat \ {0}
    BY DEF BarInv
  <1>2. PICK b \in 0..8 : b = Bars(n, d)
    OBVIOUS
  <1>3. ASSUME NEW k \in 1..8 PROVE Reaches(n, StepOf(k), d) <=> k <= b
    <2>1. k \in Nat \ {0}
      OBVIOUS
    <2>2. Bars(n, d) >= k <=> Reaches(n, StepOf(k), d)
      BY <1>1, <2>1, BarsReach
    <2>3. QED BY <1>2, <2>2
  <1>4. Reached = {s \in Steps : Reaches(n, s, d)}
    BY DEF Reached, Reaches, AtStep, Steps, Short
  <1>5. Reached = {StepOf(k) : k \in 1..b}
    BY <1>3, <1>4, StepsAreSteps
  <1>6. QED BY <1>2, <1>5, StepsCounted

\* For every reading and every scale, a row that is sent shows one LED of the first
\* colour for each eighth that the ratio has reached, and the second in all others.
THEOREM RowShowsRatio == BarSpec => []ShowsRatio
  <1>1. BarInv => ShowsRatio
    <2>1. SUFFICES ASSUME BarInv, row # Throws, d > 0, NEW i \in 1..8
                   PROVE  Led(row, i) = colors[IF i <= Cardinality(Reached) THEN 1 ELSE 2]
      BY DEF ShowsRatio
    <2>2. Bars(n, d) \in 0..8
      BY <2>1, BarThrows
    <2>3. colors[1] \in Colors /\ colors[2] \in Colors
      BY <2>1 DEF BarInv
    <2>4. row = GetLEDBar(n, d, colors[1], colors[2])
      BY <2>1 DEF BarInv, RowOf
    <2>5. Led(row, i) = IF i <= Bars(n, d) THEN colors[1] ELSE colors[2]
      BY <2>2, <2>3, <2>4, RowShows
    <2>6. QED BY <2>1, <2>2, <2>5, ReachedCounted
  <1>2. QED BY <1>1, BarInvariant, PTL

\* A row is lost to the ratios above 1.13 and to those from -0.13 down, and to no
\* other, whatever the reading and the scale; 0 / 0 is not one of them.
THEOREM RowLostFarOutside == BarSpec => []FailsFarOutside
  <1>1. BarInv => FailsFarOutside
    <2>1. SUFFICES ASSUME BarInv PROVE FailsFarOutside
      OBVIOUS
    <2>2. CASE d > 0
      <3>1. n \in Int /\ d \in Nat \ {0}
        BY <2>1, <2>2 DEF BarInv
      <3>2. row = Throws <=> Bars(n, d) >= 9 \/ Bars(n, d) <= -1
        BY <2>1, <2>2, BarThrows
      <3>3. Bars(n, d) >= 9 <=> Reaches(n, StepOf(9), d)
        BY <3>1, BarsReach
      <3>4. Bars(n, d) <= -1 <=> Reaches(-n, 13, d)
        BY <3>1, BarsReach
      <3>5. Reaches(n, StepOf(9), d) <=> 100 * n > 113 * d
        BY StepList DEF Reaches, AtStep, Short
      <3>6. Reaches(-n, 13, d) <=> 100 * n <= -13 * d
        BY <3>1 DEF Reaches, AtStep, Short
      <3>7. QED BY <2>2, <3>2, <3>3, <3>4, <3>5, <3>6 DEF FailsFarOutside
    <2>3. CASE ~(d > 0)
      <3>1. d = 0 /\ n = 0
        BY <2>1, <2>3 DEF BarInv, Defined
      <3>2. row # Throws
        BY <2>1, <3>1, NoBars, RowReturnedIff DEF BarInv, RowOf
      <3>3. QED BY <2>3, <3>2 DEF FailsFarOutside
    <2>4. QED BY <2>2, <2>3
  <1>2. QED BY <1>1, BarInvariant, PTL

(***************************************************************************)
(* The loads of the cores.                                                 *)
(***************************************************************************)

\* The samples that an arrival has still to cost.
Due == IF online > lastCpuList THEN 1 ELSE 0

\* The part of the types that the count needs, and a place in the count for the
\* sample that is due: lost alone is not inductive.
CoresInv ==
    /\ online \in Nat /\ lastCpuList \in Nat
    /\ lost \in Nat /\ arrivals \in Nat
    /\ lost + Due <= arrivals

\* No sample has been lost before the first.
LEMMA CoresStart == CoresInit => CoresInv
  BY CoresAssumption DEF CoresInit, CoresInv, Due, Lengths

\* Every step of the cores, the bars and the sample keeps the invariant.
LEMMA CoresStep == CoresInv /\ [CoresNext]_coreVars => CoresInv'
  <1> SUFFICES ASSUME CoresInv, [CoresNext]_coreVars PROVE CoresInv'
    OBVIOUS
  <1> USE CoresAssumption DEF CoresInv, Due, Lengths
  <1>1. CASE CoresArrive
    BY <1>1 DEF CoresArrive
  <1>2. CASE CoresLeave
    BY <1>2 DEF CoresLeave
  <1>3. CASE MakeBars
    BY <1>3 DEF MakeBars
  <1>4. CASE GetAllCoresLoadThrows
    BY <1>4 DEF GetAllCoresLoadThrows, Comparable
  <1>5. CASE GetAllCoresLoad
    BY <1>5 DEF GetAllCoresLoad
  <1>6. CASE Refresh
    BY <1>6 DEF Refresh
  <1>7. CASE UNCHANGED coreVars
    BY <1>7 DEF coreVars
  <1>8. QED
    BY <1>1, <1>2, <1>3, <1>4, <1>5, <1>6, <1>7 DEF CoresNext

\* Every sample that getCpuPercList loses to a longer list of cores is paid for by
\* an arrival, at any time and in any number.
THEOREM SamplesLost == CoresSpec => []OneSamplePerArrival
  <1>1. CoresInv => OneSamplePerArrival
    BY DEF CoresInv, Due, OneSamplePerArrival
  <1>2. QED
    BY <1>1, CoresStart, CoresStep, PTL DEF CoresSpec
=============================================================================
