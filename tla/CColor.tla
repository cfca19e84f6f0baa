------------------------------- MODULE CColor -------------------------------
(***************************************************************************)
(* CColor.java and getLEDBar of ReCoMonBDataProvider.java: from a ratio to *)
(* the four bytes of one row of the matrix, a colour in every nibble.  A   *)
(* ratio is the double that n / d yields, kept as the two numbers; both    *)
(* casts to int round towards zero, and the cast of 0.0 / 0.0 is 0.  For   *)
(* numbers below 10^13 the double product with 100 is on the same side of  *)
(* every whole number as the exact one, but for the ratios in Short.       *)
(***************************************************************************)
EXTENDS Integers

Colors == 0..7
Black == 0  Red == 1  Green == 2  Yellow == 3
Blue == 4  Magenta == 5  Cyan == 6  White == 7

Throws == <<>>  \* in place of a row: ArrayIndexOutOfBoundsException

\* A quotient without its fraction.
Truncated(n, d) == IF n >= 0 THEN n \div d ELSE -((-n) \div d)

Percent(n, d) ==
    IF d > 0 THEN Truncated(100 * n, d) ELSE Truncated(-100 * n, -d)

\* The k below 200 whose hundredth, multiplied by 100 again, is a double below k.
Short == {29, 57, 58, 113, 114, 115, 116}

\* (int) (dataInPercent * 100)
Utilization(n, d) ==
    LET p == Percent(n, d)
    IN  IF d = 0 THEN 0
        ELSE IF p * d = 100 * n /\ p \in Short THEN p - 1
        ELSE IF p * d = 100 * n /\ -p \in Short THEN p + 1
        ELSE p

\* Faulty variant: rounds to the nearest bar.
BarsRounded(n, d) == Truncated(2 * Utilization(n, d) + 12, 25)

\* (int) (utilization / 12.5)
Bars(n, d) == Truncated(2 * Utilization(n, d), 25)

\* The loop runs no index of the eight past the ends of the array.
InBounds(start, length) == start < length => start >= 0 /\ length <= 8

FillData(color, start, length, data) ==
    [i \in 1..8 |-> IF start <= i - 1 /\ i - 1 < length THEN color ELSE data[i]]

\* Faulty variant: the colours of a pair change places.
CompressDataSwapped(data) ==
    [cnt \in 1..4 |-> data[2 * cnt - 1] + 16 * data[2 * cnt]]

\* Two colours to a byte, the first of a pair in the upper nibble.
CompressData(data) == [cnt \in 1..4 |-> 16 * data[2 * cnt - 1] + data[2 * cnt]]

GetLEDBar(n, d, firstColor, secondColor) ==
    LET bars == Bars(n, d)
        none == [i \in 1..8 |-> 0]
    IN  IF InBounds(0, bars) /\ InBounds(bars, 8)
          THEN CompressData(FillData(secondColor, bars, 8,
                                     FillData(firstColor, 0, bars, none)))
          ELSE Throws

\* The board's view of a row: the upper nibble of a byte is its first LED.
Led(bytes, i) ==
    IF i % 2 = 1 THEN bytes[(i + 1) \div 2] \div 16 ELSE bytes[i \div 2] % 16
=============================================================================
