------------------------------- MODULE LEDBar -------------------------------
(***************************************************************************)
(* One row of the matrix while its reading n moves in small steps and its  *)
(* scale d is any of some numbers: what getLEDBar sends, against what a    *)
(* row is for, a bar whose length is the ratio in steps of an eighth.      *)
(***************************************************************************)
EXTENDS CColor, FiniteSets

CONSTANTS
    Readings,  \* n, also negative and above the scale
    Scales,    \* d, the number that a ratio of one stands for
    Pairs      \* the colours of a row, lit and unlit

ASSUME LEDBarAssumption ==
    /\ Readings \subseteq Int /\ 0 \in Readings
    /\ Scales \subseteq Nat
    /\ Pairs \subseteq Colors \X Colors

VARIABLES n, d, colors, row

barVars == <<n, d, colors, row>>

RowOf(num, den, pair) == GetLEDBar(num, den, pair[1], pair[2])

\* The provider tests its scales for zero; only the space of no disks is 0 / 0.
Defined(num, den) == den = 0 => num = 0

BarInit ==
    /\ n = 0 /\ d \in Scales /\ colors \in Pairs
    /\ row = RowOf(n, d, colors)

\* The next sample of the same row: a little more or a little less.
Sample ==
    /\ n' \in Readings \cap {n - 1, n, n + 1}
    /\ Defined(n', d)
    /\ row' = RowOf(n', d, colors)
    /\ UNCHANGED <<d, colors>>

BarSpec == BarInit /\ [][Sample]_barVars

-----------------------------------------------------------------------------

\* The percentages at which one more LED lights: 12.5, 25, 37.5, ... rounded up.
Steps == {13, 25, 38, 50, 63, 75, 88, 100}

\* The steps that the ratio n / d has reached.
Reached == {s \in Steps : 100 * n >= s * d}

\* A row that is sent shows one LED of the first colour for every step that the
\* ratio has reached, from the first LED on, and the second colour in all others.
ShowsRatio ==
    row # Throws /\ d > 0 =>
        \A i \in 1..8 :
            Led(row, i) = colors[IF i <= Cardinality(Reached) THEN 1 ELSE 2]

\* Ratios in [0, 1] and 0 / 0 never leave the array, nor do those a little outside;
\* every other ratio does, and costs the sample its frame.  From -0.13 on a row is
\* lost, above 1.13 too, but 1.13 itself is multiplied to less than 113.
FailsFarOutside ==
    row = Throws <=> d > 0 /\ (100 * n > 113 * d \/ 100 * n <= -13 * d)
=============================================================================
