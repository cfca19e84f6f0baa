-------------------------- MODULE NetworkData_proofs --------------------------
(***************************************************************************)
(* For any interfaces, addresses and counters, and an int of any width: no *)
(* byte is reported twice, none is lost while no call fails, and a call    *)
(* that finds all interfaces succeeds.                                     *)
(***************************************************************************)
EXTENDS NetworkData, SharedLemmas

NetTypeOK ==
    /\ present \subseteq Interfaces
    /\ counter \in [Directions -> [Interfaces -> Nat]]
    /\ current \in [Directions -> [Interfaces -> Nat \cup {None}]]
    /\ base \in [Directions -> [Interfaces -> Nat \cup {None}]]
    /\ DOMAIN change = Directions
    /\ \A d \in Directions :
          /\ DOMAIN change[d] \subseteq Addresses
          /\ \A a \in DOMAIN change[d] : change[d][a] \in [sum : Int, n : Nat]
    /\ sent \in [Directions -> Int]
    /\ resets \in Nat
    /\ clean \in BOOLEAN

\* An interface has a first reading as soon as it has one.
ReadTogether ==
    \A d \in Directions, ni \in Interfaces :
        base[d][ni] = None <=> current[d][ni] = None

\* A list belongs to an interface that has been read: the next call that finds
\* the interface puts a change into it.
ListsHaveReaders ==
    \A d \in Directions : \A a \in DOMAIN change[d] :
        \E ni \in Interfaces : hwOf[ni] = a /\ current[d][ni] # None

\* The counters only go up.
Forward ==
    \A d \in Directions :
        /\ \A ni \in Interfaces : current[d][ni] # None =>
              base[d][ni] <= current[d][ni] /\ current[d][ni] <= counter[d][ni]
        /\ \A a \in DOMAIN change[d] : change[d][a].sum >= 0

\* What the lists hold for the next call that succeeds.
Pending(d) == SumFunctionOnSet([a \in Addresses |-> Changes(d, a).sum], Addresses)

Covered == \A d \in Directions : sent[d] + Pending(d) <= Growth(d)

\* While every call succeeds the lists are empty between two calls.
Settled ==
    \A d \in Directions :
        /\ sent[d] = Growth(d)
        /\ \A a \in DOMAIN change[d] : change[d][a] = NoChanges

NetInv ==
    /\ NetTypeOK
    /\ ReadTogether
    /\ ListsHaveReaders
    /\ resets = 0 => Forward /\ Covered
    /\ resets = 0 /\ clean /\ Distinct => Settled

Gain(d, read) == SumFunctionOnSet(Delta(d), Known(d, read))

LEMMA AddressesFinite == IsFiniteSet(Addresses)
  <1> DEFINE f == [ni \in Interfaces |-> hwOf[ni]]
  <1>1. f \in Surjection(Interfaces, Addresses)
    BY DEF Surjection, Addresses
  <1>2. QED BY <1>1, FS_Surjection, NetworkAssumption

LEMMA ChangesType ==
    ASSUME NetTypeOK, NEW d \in Directions, NEW a
    PROVE  Changes(d, a) \in [sum : Int, n : Nat]
  BY DEF NetTypeOK, Changes, NoChanges

LEMMA DeltaType ==
    ASSUME NetTypeOK, NEW d \in Directions
    PROVE  \A ni \in Interfaces : Delta(d)[ni] \in Int
  BY DEF NetTypeOK, Delta

LEMMA KnownFinite ==
    ASSUME NEW d \in Directions, NEW read \in SUBSET Interfaces, NEW a
    PROVE  /\ Known(d, read) \subseteq Interfaces
           /\ IsFiniteSet(Known(d, read))
           /\ IsFiniteSet({ni \in Known(d, read) : hwOf[ni] = a})
  BY NetworkAssumption, FS_Subset DEF Known

LEMMA ExtendedType ==
    ASSUME NetTypeOK, NEW d \in Directions, NEW read \in SUBSET Interfaces, NEW a
    PROVE  Extended(d, read, a) \in [sum : Int, n : Nat]
  <1> DEFINE known == {ni \in Known(d, read) : hwOf[ni] = a}
  <1>1. IsFiniteSet(known) /\ known \subseteq Interfaces
    BY KnownFinite
  <1>2. \A ni \in known : Delta(d)[ni] \in Int
    BY <1>1, DeltaType
  <1> HIDE DEF known
  <1>3. SumFunctionOnSet(Delta(d), known) \in Int /\ Cardinality(known) \in Nat
    BY <1>1, <1>2, SumInt, FS_CardinalityType
  <1>4. Extended(d, read, a) = [sum |-> Changes(d, a).sum + SumFunctionOnSet(Delta(d), known),
                                n   |-> Changes(d, a).n + Cardinality(known)]
    BY DEF Extended, known
  <1>5. QED BY <1>3, <1>4, ChangesType

\* An address that gets no list has nothing to report.
LEMMA Untouched ==
    ASSUME NEW d \in Directions, NEW read \in SUBSET Interfaces, NEW a,
           a \notin DOMAIN change[d] \cup {hwOf[ni] : ni \in Known(d, read)}
    PROVE  Extended(d, read, a) = NoChanges
  <1>1. {ni \in Known(d, read) : hwOf[ni] = a} = {}
    OBVIOUS
  <1>2. Extended(d, read, a) = [sum |-> 0 + SumFunctionOnSet(Delta(d), {}),
                                n   |-> 0 + Cardinality({})]
    BY <1>1 DEF Extended, Changes, NoChanges
  <1>3. QED BY <1>2, SumEmpty, FS_EmptySet DEF NoChanges

\* What the lists of all addresses hold after the saving.
LEMMA SavedSum ==
    ASSUME NetTypeOK, NEW d \in Directions, NEW read \in SUBSET Interfaces
    PROVE  /\ SumFunctionOnSet([a \in Addresses |-> Extended(d, read, a).sum], Addresses)
                = Pending(d) + Gain(d, read)
           /\ Pending(d) \in Int /\ Gain(d, read) \in Int
  <1> DEFINE group(a) == {ni \in Known(d, read) : hwOf[ni] = a}
             u == [a \in Addresses |-> Extended(d, read, a).sum]
             v == [a \in Addresses |-> Changes(d, a).sum]
             w == [a \in Addresses |-> SumFunctionOnSet(Delta(d), group(a))]
  <1>1. IsFiniteSet(Known(d, read)) /\ Known(d, read) \subseteq Interfaces
    BY KnownFinite
  <1>2. \A ni \in Known(d, read) : Delta(d)[ni] \in Int /\ hwOf[ni] \in Addresses
    BY <1>1, DeltaType DEF Addresses
  <1>3. SumFunctionOnSet(w, Addresses) = Gain(d, read)
    BY <1>1, <1>2, AddressesFinite, SumByGroup DEF Gain
  <1>4. ASSUME NEW a \in Addresses
        PROVE  v[a] \in Int /\ w[a] \in Int /\ u[a] = v[a] + w[a]
    <2>1. IsFiniteSet(group(a)) /\ \A ni \in group(a) : Delta(d)[ni] \in Int
      BY <1>2, KnownFinite
    <2>2. SumFunctionOnSet(Delta(d), group(a)) \in Int
      <3> HIDE DEF group
      <3>1. QED BY <2>1, SumInt
    <2>3. Changes(d, a).sum \in Int
      BY ChangesType
    <2>4. Extended(d, read, a).sum = Changes(d, a).sum + SumFunctionOnSet(Delta(d), group(a))
      BY DEF Extended
    <2> HIDE DEF group
    <2>5. QED BY <2>2, <2>3, <2>4
  <1>5. Pending(d) = SumFunctionOnSet(v, Addresses)
    BY DEF Pending
  <1> HIDE DEF u, v, w
  <1>6. SumFunctionOnSet(u, Addresses)
          = SumFunctionOnSet(v, Addresses) + SumFunctionOnSet(w, Addresses)
    BY <1>4, AddressesFinite, SumOfSums
  <1>7. SumFunctionOnSet(v, Addresses) \in Int /\ SumFunctionOnSet(w, Addresses) \in Int
    BY <1>4, AddressesFinite, SumInt
  <1>8. QED BY <1>3, <1>5, <1>6, <1>7 DEF u

\* Growth as a sum over all interfaces, and what a reading adds to it.
Moved(d) == [ni \in Interfaces |-> IF current[d][ni] = None THEN 0
                                   ELSE current[d][ni] - base[d][ni]]

LEMMA GrowthSum == ASSUME NEW d PROVE Growth(d) = SumFunctionOnSet(Moved(d), Interfaces)
  BY DEF Growth, Moved, SumFunction

LEMMA GrowthStep ==
    ASSUME NetTypeOK, ReadTogether, NEW d \in Directions,
           NEW read \in SUBSET Interfaces,
           current' = Readings(current, read), base' = FirstReadings(read)
    PROVE  Growth(d)' = Growth(d) + Gain(d, read) /\ Growth(d) \in Int
  <1> DEFINE w == [ni \in Interfaces |-> IF ni \in Known(d, read) THEN Delta(d)[ni] ELSE 0]
             v == Moved(d)
             u == Moved(d)'
  <1>1. ASSUME NEW ni \in Interfaces
        PROVE  v[ni] \in Int /\ w[ni] \in Int /\ u[ni] = v[ni] + w[ni]
    <2>1. v[ni] \in Int /\ w[ni] \in Int
      BY NetworkAssumption, DeltaType DEF NetTypeOK, Moved, ReadTogether
    <2>2. current'[d][ni] = IF ni \in read THEN counter[d][ni] ELSE current[d][ni]
      BY DEF Readings
    <2>3. base'[d][ni] = IF ni \in read /\ base[d][ni] = None
                         THEN counter[d][ni] ELSE base[d][ni]
      BY DEF FirstReadings
    <2>4. u[ni] = IF current'[d][ni] = None THEN 0 ELSE current'[d][ni] - base'[d][ni]
      BY DEF Moved
    <2>5. /\ counter[d][ni] \in Nat
          /\ current[d][ni] \in Nat \cup {None} /\ base[d][ni] \in Nat \cup {None}
          /\ base[d][ni] = None <=> current[d][ni] = None
      BY DEF NetTypeOK, ReadTogether
    <2>6. w[ni] = IF ni \in read /\ current[d][ni] # None
                  THEN counter[d][ni] - current[d][ni] ELSE 0
      BY DEF Known, Delta
    <2>7. v[ni] = IF current[d][ni] = None THEN 0 ELSE current[d][ni] - base[d][ni]
      BY DEF Moved
    <2> HIDE DEF u, v, w
    <2>8. QED BY <2>1, <2>2, <2>3, <2>4, <2>5, <2>6, <2>7, NetworkAssumption
  <1>2. SumFunctionOnSet(w, Interfaces) = SumFunctionOnSet(w, Known(d, read))
    <2>1. /\ Known(d, read) \in SUBSET Interfaces
          /\ \A ni \in Interfaces \ Known(d, read) : w[ni] = 0
      BY KnownFinite
    <2> HIDE DEF w
    <2>2. QED BY <1>1, <2>1, NetworkAssumption, SumOfSupport
  <1>3. SumFunctionOnSet(w, Known(d, read)) = Gain(d, read)
    <2>1. \A ni \in Known(d, read) : w[ni] = Delta(d)[ni]
      BY KnownFinite
    <2> HIDE DEF w
    <2>2. QED BY <2>1, KnownFinite, SumSame DEF Gain
  <1>4. Growth(d)' = SumFunctionOnSet(u, Interfaces) /\ Growth(d) = SumFunctionOnSet(v, Interfaces)
    BY DEF Growth, Moved, SumFunction
  <1> HIDE DEF u, v, w
  <1>5. SumFunctionOnSet(u, Interfaces)
          = SumFunctionOnSet(v, Interfaces) + SumFunctionOnSet(w, Interfaces)
    BY <1>1, NetworkAssumption, SumOfSums
  <1>6. SumFunctionOnSet(v, Interfaces) \in Int
    BY <1>1, NetworkAssumption, SumInt
  <1>7. QED BY <1>2, <1>3, <1>4, <1>5, <1>6

\* The lists of a call, and what they hold altogether.
LEMMA ListsOf ==
    ASSUME NetTypeOK, NEW d \in Directions, NEW read \in SUBSET Interfaces
    PROVE  /\ DOMAIN Saved(read) = Directions
           /\ DOMAIN Saved(read)[d]
                = DOMAIN change[d] \cup {hwOf[ni] : ni \in Known(d, read)}
           /\ DOMAIN Saved(read)[d] \subseteq Addresses
           /\ \A a \in DOMAIN Saved(read)[d] :
                 /\ Saved(read)[d][a] = Extended(d, read, a)
                 /\ Saved(read)[d][a] \in [sum : Int, n : Nat]
  <1>1. \A ni \in Known(d, read) : hwOf[ni] \in Addresses
    BY DEF Addresses, Known
  <1>2. QED BY <1>1, ExtendedType DEF Saved, NetTypeOK

LEMMA ListsSum ==
    ASSUME NetTypeOK, NEW d \in Directions, NEW read \in SUBSET Interfaces
    PROVE  SumFunctionOnSet([a \in DOMAIN Saved(read)[d] |-> Saved(read)[d][a].sum],
                            DOMAIN Saved(read)[d])
              = Pending(d) + Gain(d, read)
  <1> DEFINE D == DOMAIN Saved(read)[d]
             v == [a \in Addresses |-> Extended(d, read, a).sum]
             w == [a \in D |-> Saved(read)[d][a].sum]
  <1>1. D \in SUBSET Addresses /\ IsFiniteSet(D)
    BY ListsOf, AddressesFinite, FS_Subset
  <1>2. \A a \in Addresses : v[a] \in Int
    BY ExtendedType
  <1>3. \A a \in Addresses \ D : v[a] = 0
    BY ListsOf, Untouched DEF NoChanges
  <1>4. \A a \in D : w[a] = v[a]
    BY <1>1, ListsOf
  <1>5. SumFunctionOnSet(v, Addresses) = Pending(d) + Gain(d, read)
    BY SavedSum
  <1> HIDE DEF D, v, w
  <1>6. SumFunctionOnSet(w, D) = SumFunctionOnSet(v, D)
    BY <1>1, <1>4, SumSame
  <1>7. SumFunctionOnSet(v, Addresses) = SumFunctionOnSet(v, D)
    BY <1>1, <1>2, <1>3, AddressesFinite, SumOfSupport
  <1>8. QED BY <1>5, <1>6, <1>7 DEF w, D

\* The average of a list is at most its sum, whatever the int makes of it.
LEMMA AverageBound ==
    ASSUME NEW list \in [sum : Int, n : Nat], list.n # 0
    PROVE  /\ Average(list) \in Int
           /\ list.sum >= 0 => Average(list) <= list.sum
           /\ list.n = 1 => Average(list) = Wrap(list.sum)
  <1> DEFINE x == list.sum
             n == list.n
             y == Wrap(x)
  <1>1. x \in Int /\ n \in Nat \ {0} /\ Half \in Nat \ {0}
    BY NetworkAssumption
  <1>2. y \in Int /\ (x >= 0 => y <= x)
    <2>1. x + Half \in Int /\ 2 * Half \in Nat \ {0}
      BY <1>1
    <2> DEFINE m == 2 * Half
               z == x + Half
    <2>2. z % m \in Int /\ (z >= 0 => z % m <= z)
      <3> HIDE DEF m, z
      <3>1. QED BY <2>1 DEF m, z
    <2>3. y = (z % m) - Half
      BY DEF Wrap
    <2> HIDE DEF m
    <2>4. QED BY <1>1, <2>2, <2>3
  <1>3. Average(list) = IF y >= 0 THEN y \div n ELSE -((-y) \div n)
    BY DEF Average, Quotient
  <1> HIDE DEF x, n, y
  <1>4. CASE y >= 0
    <2>1. y \div n \in Nat /\ y \div n <= y /\ (n = 1 => y \div n = y)
      BY <1>1, <1>2, <1>4
    <2>2. QED BY <1>1, <1>2, <1>3, <1>4, <2>1 DEF x, n, y
  <1>5. CASE y < 0
    <2>1. (-y) \div n \in Nat /\ (n = 1 => (-y) \div n = -y)
      BY <1>1, <1>2, <1>5
    <2>2. QED BY <1>1, <1>2, <1>3, <1>5, <2>1 DEF x, n, y
  <1>6. QED BY <1>2, <1>4, <1>5

\* What a call reports is at most what its lists hold, and just that when no list
\* holds more than one change and none overflows.
LEMMA ReportBound ==
    ASSUME NetTypeOK, NEW d \in Directions, NEW read \in SUBSET Interfaces,
           \A a \in DOMAIN Saved(read)[d] : Saved(read)[d][a].n # 0
    PROVE  /\ Report(Saved(read))[d] \in Int
           /\ (\A a \in DOMAIN Saved(read)[d] : Saved(read)[d][a].sum >= 0) =>
                 Report(Saved(read))[d] <= Pending(d) + Gain(d, read)
           /\ (\A a \in DOMAIN Saved(read)[d] :
                 Saved(read)[d][a].n = 1 /\ Wrap(Saved(read)[d][a].sum) = Saved(read)[d][a].sum) =>
                 Report(Saved(read))[d] = Pending(d) + Gain(d, read)
  <1> DEFINE L == Saved(read)[d]
             D == DOMAIN L
             v == [a \in D |-> Average(L[a])]
             w == [a \in D |-> L[a].sum]
  <1>1. IsFiniteSet(D)
    BY ListsOf, AddressesFinite, FS_Subset
  <1>2. \A a \in D : L[a] \in [sum : Int, n : Nat] /\ L[a].n # 0
    BY ListsOf
  <1>3. Report(Saved(read))[d] = SumFunctionOnSet(v, D)
    BY ListsOf DEF Report, SumFunction
  <1>4. SumFunctionOnSet(w, D) = Pending(d) + Gain(d, read)
    BY ListsSum
  <1> HIDE DEF L
  <1>5. \A a \in D : /\ v[a] \in Int /\ w[a] \in Int
                     /\ L[a].sum >= 0 => v[a] <= w[a]
                     /\ L[a].n = 1 /\ Wrap(L[a].sum) = L[a].sum => v[a] = w[a]
    BY <1>2, AverageBound
  <1> HIDE DEF D, v, w
  <1>6. SumFunctionOnSet(v, D) \in Int
    BY <1>1, <1>5, SumInt
  <1>7. (\A a \in D : L[a].sum >= 0) => SumFunctionOnSet(v, D) <= SumFunctionOnSet(w, D)
    BY <1>1, <1>5, SumMonotone
  <1>8. (\A a \in D : L[a].n = 1 /\ Wrap(L[a].sum) = L[a].sum) =>
           SumFunctionOnSet(v, D) = SumFunctionOnSet(w, D)
    BY <1>1, <1>5, SumSame
  <1>9. QED BY <1>3, <1>4, <1>6, <1>7, <1>8 DEF L, D

-----------------------------------------------------------------------------
(* The invariant. *)

LEMMA NetStarts == Init => NetInv
  <1> SUFFICES ASSUME Init PROVE NetInv
    OBVIOUS
  <1>1. NetTypeOK /\ ReadTogether /\ ListsHaveReaders /\ Forward
    BY NetworkAssumption
       DEF Init, NetTypeOK, ReadTogether, ListsHaveReaders, Forward, Addresses
  <1>2. ASSUME NEW d \in Directions
        PROVE  Growth(d) = 0 /\ Pending(d) = 0 /\ sent[d] = 0 /\ DOMAIN change[d] = {}
    <2>1. \A ni \in Interfaces : Moved(d)[ni] = 0
      BY DEF Init, Moved
    <2>2. \A a \in Addresses : Changes(d, a).sum = 0
      BY DEF Init, Changes, NoChanges
    <2> DEFINE p == [a \in Addresses |-> Changes(d, a).sum]
               m == Moved(d)
    <2>3. (\A a \in Addresses : p[a] = 0) /\ (\A ni \in Interfaces : m[ni] = 0)
      BY <2>1, <2>2
    <2>4. Pending(d) = SumFunctionOnSet(p, Addresses) /\ Growth(d) = SumFunctionOnSet(m, Interfaces)
      BY GrowthSum DEF Pending
    <2>5. {} \in SUBSET Addresses /\ {} \in SUBSET Interfaces
      OBVIOUS
    <2> HIDE DEF p, m
    <2>6. SumFunctionOnSet(p, Addresses) = SumFunctionOnSet(p, {})
      BY <2>3, <2>5, AddressesFinite, SumOfSupport
    <2>7. SumFunctionOnSet(m, Interfaces) = SumFunctionOnSet(m, {})
      BY <2>3, <2>5, NetworkAssumption, SumOfSupport
    <2>8. QED BY <2>4, <2>6, <2>7, SumEmpty DEF Init
  <1>3. Covered /\ Settled
    BY <1>2 DEF Covered, Settled
  <1>4. QED BY <1>1, <1>3 DEF NetInv

LEMMA ListsUp ==
    ASSUME NetTypeOK, Forward, NEW d \in Directions, NEW read \in SUBSET Interfaces,
           NEW a \in DOMAIN Saved(read)[d]
    PROVE  Saved(read)[d][a].sum >= 0
  <1> DEFINE known == {ni \in Known(d, read) : hwOf[ni] = a}
             old == Changes(d, a).sum
  <1>1. IsFiniteSet(known)
    BY KnownFinite
  <1>2. ASSUME NEW ni \in known PROVE Delta(d)[ni] \in Nat
    <2>1. ni \in Interfaces /\ current[d][ni] # None
      BY DEF Known
    <2>2. counter[d][ni] \in Nat /\ current[d][ni] \in Nat
      BY <2>1 DEF NetTypeOK
    <2>3. current[d][ni] <= counter[d][ni]
      BY <2>1 DEF Forward
    <2>4. Delta(d)[ni] = counter[d][ni] - current[d][ni]
      BY <2>1 DEF Delta
    <2>5. QED BY <2>2, <2>3, <2>4
  <1>3. Saved(read)[d][a] = Extended(d, read, a)
    BY ListsOf
  <1>4. Extended(d, read, a).sum = old + SumFunctionOnSet(Delta(d), known)
    BY DEF Extended
  <1>5. old \in Int /\ old >= 0
    BY ChangesType DEF Forward, Changes, NoChanges
  <1> HIDE DEF known, old
  <1>6. SumFunctionOnSet(Delta(d), known) \in Nat
    BY <1>1, <1>2, SumNotNegative
  <1>7. QED BY <1>3, <1>4, <1>5, <1>6

\* A call keeps the lists and the readings together, whether it ends or throws.
LEMMA ReadingKeeps ==
    ASSUME NetInv, NEW read \in SUBSET Interfaces,
           current' = Readings(current, read), base' = FirstReadings(read),
           change' = Saved(read) \/ change' = Cleared(Saved(read)),
           UNCHANGED <<hwOf, present, counter, resets>>,
           sent' \in [Directions -> Int], clean' \in BOOLEAN
    PROVE  /\ NetTypeOK' /\ ReadTogether' /\ ListsHaveReaders'
           /\ resets = 0 => Forward'
  <1> USE DEF NetInv
  <1>1. ASSUME NEW d \in Directions, NEW ni \in Interfaces
        PROVE  /\ current'[d][ni] = IF ni \in read THEN counter[d][ni] ELSE current[d][ni]
               /\ base'[d][ni] = IF ni \in read /\ base[d][ni] = None
                                 THEN counter[d][ni] ELSE base[d][ni]
               /\ counter[d][ni] \in Nat /\ counter[d][ni] # None
    BY NetworkAssumption DEF Readings, FirstReadings, NetTypeOK
  <1>2. /\ current' \in [Directions -> [Interfaces -> Nat \cup {None}]]
        /\ base' \in [Directions -> [Interfaces -> Nat \cup {None}]]
    BY DEF Readings, FirstReadings, NetTypeOK
  <1>3. ReadTogether'
    BY <1>1 DEF ReadTogether
  <1>4. DOMAIN change' = Directions
    BY ListsOf DEF Cleared, Saved
  <1>5. ASSUME NEW d \in Directions
        PROVE  /\ DOMAIN change'[d] = DOMAIN Saved(read)[d]
               /\ \A a \in DOMAIN change'[d] :
                     \/ change'[d][a] = Saved(read)[d][a]
                     \/ change'[d][a] = NoChanges
    BY DEF Cleared
  <1>6. NoChanges \in [sum : Int, n : Nat] /\ NoChanges.sum = 0
    BY DEF NoChanges
  <1>7. ASSUME NEW d \in Directions
        PROVE  /\ DOMAIN change'[d] \subseteq Addresses'
               /\ \A a \in DOMAIN change'[d] : change'[d][a] \in [sum : Int, n : Nat]
    BY <1>5, <1>6, ListsOf DEF Addresses
  <1>8. NetTypeOK'
    BY <1>2, <1>4, <1>7 DEF NetTypeOK
  <1>9. ListsHaveReaders'
    <2> SUFFICES ASSUME NEW d \in Directions, NEW a \in DOMAIN change'[d]
                 PROVE  \E ni \in Interfaces : hwOf[ni] = a /\ current'[d][ni] # None
      BY DEF ListsHaveReaders
    <2>1. PICK ni \in Interfaces : hwOf[ni] = a /\ current[d][ni] # None
      BY <1>5, ListsOf DEF ListsHaveReaders, Known
    <2>2. QED BY <1>1, <2>1
  <1>10. ASSUME resets = 0 PROVE Forward'
    <2>1. ASSUME NEW d \in Directions, NEW ni \in Interfaces, current'[d][ni] # None
          PROVE  base'[d][ni] <= current'[d][ni] /\ current'[d][ni] <= counter'[d][ni]
      <3>1. CASE ni \in read /\ base[d][ni] = None
        BY <1>1, <3>1
      <3>2. CASE ni \in read /\ base[d][ni] # None
        <4>1. base[d][ni] <= current[d][ni] /\ current[d][ni] <= counter[d][ni]
          BY <1>10, <3>2 DEF Forward, ReadTogether
        <4>2. base[d][ni] \in Nat /\ current[d][ni] \in Nat
          BY <3>2 DEF NetTypeOK, ReadTogether
        <4>3. QED BY <1>1, <3>2, <4>1, <4>2
      <3>3. CASE ni \notin read
        BY <1>1, <1>10, <2>1, <3>3 DEF Forward
      <3>4. QED BY <3>1, <3>2, <3>3
    <2>2. ASSUME NEW d \in Directions, NEW a \in DOMAIN change'[d]
          PROVE  change'[d][a].sum >= 0
      BY <1>5, <1>6, <1>10, <2>2, ListsUp
    <2>3. QED BY <2>1, <2>2 DEF Forward
  <1>11. QED BY <1>3, <1>8, <1>9, <1>10

LEMMA ClearedPending ==
    ASSUME NetTypeOK, NEW d \in Directions, NEW read \in SUBSET Interfaces,
           change' = Cleared(Saved(read)), hwOf' = hwOf
    PROVE  Pending(d)' = 0
  <1> DEFINE v == [a \in Addresses |-> Changes(d, a).sum]'
  <1>1. Addresses' = Addresses
    BY DEF Addresses
  <1>2. ASSUME NEW a \in Addresses PROVE v[a] = 0
    <2>1. Changes(d, a)' = NoChanges
      BY DEF Changes, Cleared
    <2>2. QED BY <1>1, <2>1 DEF NoChanges
  <1>3. Pending(d)' = SumFunctionOnSet(v, Addresses)
    BY <1>1 DEF Pending
  <1> HIDE DEF v
  <1>4. SumFunctionOnSet(v, Addresses) = SumFunctionOnSet(v, {})
    <2>1. {} \in SUBSET Addresses
      OBVIOUS
    <2>2. QED BY <1>2, <2>1, AddressesFinite, SumOfSupport
  <1>5. QED BY <1>3, <1>4, SumEmpty

LEMMA SavedPending ==
    ASSUME NetTypeOK, NEW d \in Directions, NEW read \in SUBSET Interfaces,
           change' = Saved(read), hwOf' = hwOf
    PROVE  Pending(d)' = Pending(d) + Gain(d, read)
  <1> DEFINE v == [a \in Addresses |-> Changes(d, a).sum]'
             w == [a \in Addresses |-> Extended(d, read, a).sum]
  <1>1. Addresses' = Addresses
    BY DEF Addresses
  <1>2. ASSUME NEW a \in Addresses PROVE v[a] = w[a]
    <2>1. CASE a \in DOMAIN Saved(read)[d]
      BY <1>1, <2>1, ListsOf DEF Changes
    <2>2. CASE a \notin DOMAIN Saved(read)[d]
      <3>1. Extended(d, read, a) = NoChanges
        BY <2>2, ListsOf, Untouched
      <3>2. QED BY <1>1, <2>2, <3>1 DEF Changes
    <2>3. QED BY <2>1, <2>2
  <1>3. Pending(d)' = SumFunctionOnSet(v, Addresses)
    BY <1>1 DEF Pending
  <1>4. SumFunctionOnSet(w, Addresses) = Pending(d) + Gain(d, read)
    BY SavedSum
  <1> HIDE DEF v, w
  <1>5. SumFunctionOnSet(v, Addresses) = SumFunctionOnSet(w, Addresses)
    BY <1>2, AddressesFinite, SumSame
  <1>6. QED BY <1>3, <1>4, <1>5

LEMMA ThrowKeeps == NetInv /\ GetMetricThrows => NetInv'
  <1> SUFFICES ASSUME NetInv, GetMetricThrows PROVE NetInv'
    OBVIOUS
  <1> USE DEF NetInv
  <1>1. PICK read \in SUBSET present :
           /\ current' = Readings(current, read)
           /\ base' = FirstReadings(read)
           /\ change' = Saved(read)
    BY DEF GetMetricThrows
  <1>2. /\ UNCHANGED <<hwOf, present, counter, resets, sent>> /\ clean' = FALSE
        /\ read \in SUBSET Interfaces
    BY DEF GetMetricThrows, NetTypeOK
  <1>3. /\ NetTypeOK' /\ ReadTogether' /\ ListsHaveReaders'
        /\ resets = 0 => Forward'
    BY <1>1, <1>2, ReadingKeeps DEF NetTypeOK
  <1>4. ASSUME resets = 0, NEW d \in Directions
        PROVE  sent'[d] + Pending(d)' <= Growth(d)'
    <2>1. Growth(d)' = Growth(d) + Gain(d, read) /\ Growth(d) \in Int
      BY <1>1, <1>2, GrowthStep
    <2>2. Pending(d)' = Pending(d) + Gain(d, read)
      BY <1>1, <1>2, SavedPending
    <2>3. sent'[d] = sent[d] /\ sent[d] \in Int /\ sent[d] + Pending(d) <= Growth(d)
      BY <1>2, <1>4 DEF Covered, NetTypeOK
    <2>4. Pending(d) \in Int /\ Gain(d, read) \in Int
      BY <1>2, SavedSum
    <2>5. QED BY <2>1, <2>2, <2>3, <2>4
  <1>5. QED BY <1>2, <1>3, <1>4 DEF Covered

\* A call that succeeds has put a change into every list.
LEMMA GetMetricEnds ==
    ASSUME NetInv, GetMetric
    PROVE  \/ /\ change' = Saved(present) /\ clean' = FALSE /\ sent' = sent
              /\ outcome' = "arithmetic"
              /\ \E d \in Directions : \E a \in DOMAIN Saved(present)[d] :
                    Saved(present)[d][a].n = 0
           \/ /\ change' = Cleared(Saved(present)) /\ outcome' = "ok"
              /\ clean' = (clean /\ Fits(Saved(present)))
              /\ sent' = [d \in Directions |-> sent[d] + Report(Saved(present))[d]]
              /\ \A d \in Directions : \A a \in DOMAIN Saved(present)[d] :
                    Saved(present)[d][a].n # 0
  BY DEF GetMetric

\* When every list was empty and no address is shared, a list has one change.
LEMMA OneChangeEach ==
    ASSUME NetTypeOK, Settled, Distinct, NEW d \in Directions,
           NEW read \in SUBSET Interfaces,
           \A a \in DOMAIN Saved(read)[d] : Saved(read)[d][a].n # 0
    PROVE  /\ \A a \in DOMAIN Saved(read)[d] : Saved(read)[d][a].n = 1
           /\ Pending(d) = 0
  <1>1. ASSUME NEW a \in DOMAIN Saved(read)[d] PROVE Saved(read)[d][a].n = 1
    <2> DEFINE known == {ni \in Known(d, read) : hwOf[ni] = a}
    <2>1. Changes(d, a) = NoChanges
      BY DEF Settled, Changes
    <2>2. Saved(read)[d][a] = Extended(d, read, a)
      BY ListsOf
    <2>3. Extended(d, read, a).n = 0 + Cardinality(known)
      BY <2>1 DEF Extended, NoChanges
    <2>4. \A x, y \in known : x = y
      BY KnownFinite DEF Distinct
    <2>5. known = {} \/ \E x : known = {x}
      BY <2>4
    <2>6. Cardinality(known) = 0 \/ Cardinality(known) = 1
      BY <2>5, FS_EmptySet, FS_Singleton
    <2> HIDE DEF known
    <2>7. QED BY <2>2, <2>3, <2>6
  <1>2. Pending(d) = 0
    <2> DEFINE v == [a \in Addresses |-> Changes(d, a).sum]
    <2>1. \A a \in Addresses : v[a] = 0
      BY DEF Settled, Changes, NoChanges
    <2>2. Pending(d) = SumFunctionOnSet(v, Addresses)
      BY DEF Pending
    <2>3. {} \in SUBSET Addresses
      OBVIOUS
    <2> HIDE DEF v
    <2>4. SumFunctionOnSet(v, Addresses) = SumFunctionOnSet(v, {})
      BY <2>1, <2>3, AddressesFinite, SumOfSupport
    <2>5. QED BY <2>2, <2>4, SumEmpty
  <1>3. QED BY <1>1, <1>2

LEMMA GetMetricKeeps == NetInv /\ GetMetric => NetInv'
  <1> SUFFICES ASSUME NetInv, GetMetric PROVE NetInv'
    OBVIOUS
  <1> USE DEF NetInv
  <1> DEFINE lists == Saved(present)
  <1>1. /\ present \in SUBSET Interfaces
        /\ current' = Readings(current, present) /\ base' = FirstReadings(present)
        /\ UNCHANGED <<hwOf, present, counter, resets>>
    BY DEF GetMetric, NetTypeOK
  <1>2. /\ change' = lists \/ change' = Cleared(lists)
        /\ sent' \in [Directions -> Int] /\ clean' \in BOOLEAN
    <2>1. CASE outcome' = "arithmetic"
      BY <2>1, GetMetricEnds DEF NetTypeOK
    <2>2. CASE outcome' # "arithmetic"
      <3>1. /\ change' = Cleared(lists) /\ clean' = (clean /\ Fits(lists))
            /\ sent' = [d \in Directions |-> sent[d] + Report(lists)[d]]
            /\ \A d \in Directions : \A a \in DOMAIN lists[d] : lists[d][a].n # 0
        BY <2>2, GetMetricEnds
      <3>2. \A d \in Directions : Report(lists)[d] \in Int /\ sent[d] \in Int
        BY <1>1, <3>1, ReportBound DEF NetTypeOK
      <3> HIDE DEF lists
      <3>3. QED BY <3>1, <3>2
    <2>3. QED BY <2>1, <2>2
  <1>3. /\ NetTypeOK' /\ ReadTogether' /\ ListsHaveReaders'
        /\ resets = 0 => Forward'
    BY <1>1, <1>2, ReadingKeeps
  <1>4. ASSUME NEW d \in Directions
        PROVE  /\ Growth(d)' = Growth(d) + Gain(d, present)
               /\ Growth(d) \in Int /\ Gain(d, present) \in Int
               /\ Pending(d) \in Int /\ sent[d] \in Int
    BY <1>1, GrowthStep, SavedSum DEF NetTypeOK
  <1>5. ASSUME resets = 0, NEW d \in Directions
        PROVE  sent'[d] + Pending(d)' <= Growth(d)'
    <2>1. sent[d] + Pending(d) <= Growth(d)
      BY <1>5 DEF Covered
    <2>2. CASE change' = lists /\ sent' = sent
      <3>1. Pending(d)' = Pending(d) + Gain(d, present)
        BY <1>1, <2>2, SavedPending
      <3>2. QED BY <1>4, <2>1, <2>2, <3>1
    <2>3. CASE /\ change' = Cleared(lists)
               /\ sent' = [e \in Directions |-> sent[e] + Report(lists)[e]]
               /\ \A e \in Directions : \A a \in DOMAIN lists[e] : lists[e][a].n # 0
      <3>1. \A a \in DOMAIN lists[d] : lists[d][a].sum >= 0
        BY <1>1, <1>5, ListsUp
      <3>2. Report(lists)[d] \in Int /\ Report(lists)[d] <= Pending(d) + Gain(d, present)
        BY <1>1, <2>3, <3>1, ReportBound
      <3>3. Pending(d)' = 0
        BY <1>1, <2>3, ClearedPending
      <3>4. sent'[d] = sent[d] + Report(lists)[d]
        BY <2>3
      <3> HIDE DEF lists
      <3>5. QED BY <1>4, <2>1, <3>2, <3>3, <3>4
    <2>4. QED BY <2>2, <2>3, GetMetricEnds
  <1>6. ASSUME resets = 0, clean', Distinct' PROVE Settled'
    <2>1. /\ change' = Cleared(lists)
          /\ sent' = [e \in Directions |-> sent[e] + Report(lists)[e]]
          /\ \A e \in Directions : \A a \in DOMAIN lists[e] : lists[e][a].n # 0
          /\ clean /\ Fits(lists)
      BY <1>6, GetMetricEnds
    <2>2. Distinct /\ Settled
      BY <1>1, <1>6, <2>1 DEF Distinct
    <2>3. ASSUME NEW d \in Directions PROVE sent'[d] = Growth(d)'
      <3>1. /\ \A a \in DOMAIN lists[d] : lists[d][a].n = 1
            /\ Pending(d) = 0
        BY <1>1, <2>1, <2>2, OneChangeEach
      <3>2. \A a \in DOMAIN lists[d] : Wrap(lists[d][a].sum) = lists[d][a].sum
        BY <2>1 DEF Fits
      <3>3. Report(lists)[d] = Pending(d) + Gain(d, present)
        BY <1>1, <2>1, <3>1, <3>2, ReportBound
      <3>4. sent[d] = Growth(d)
        BY <2>2 DEF Settled
      <3>5. sent'[d] = sent[d] + Report(lists)[d]
        BY <2>1
      <3> HIDE DEF lists
      <3>6. QED BY <1>4, <3>1, <3>3, <3>4, <3>5
    <2>4. ASSUME NEW d \in Directions, NEW a \in DOMAIN change'[d]
          PROVE  change'[d][a] = NoChanges
      BY <2>1 DEF Cleared
    <2>5. QED BY <2>3, <2>4 DEF Settled
  <1>7. QED BY <1>1, <1>3, <1>5, <1>6 DEF Covered

\* What depends on neither the counters nor the interfaces that are there.
LEMMA NetSame ==
    ASSUME UNCHANGED <<hwOf, current, change, base, sent, clean>>
    PROVE  /\ ReadTogether => ReadTogether'
           /\ ListsHaveReaders => ListsHaveReaders'
           /\ Covered => Covered'
           /\ Settled => Settled'
           /\ Distinct' => Distinct
  BY DEF ReadTogether, ListsHaveReaders, Covered, Settled, Distinct, Pending,
         Growth, Changes, Addresses

LEMMA MachineKeeps ==
    NetInv /\ (Transfer \/ Reset \/ Plug \/ UNCHANGED netVars) => NetInv'
  <1> USE DEF NetInv
  <1>1. ASSUME NetInv, Transfer PROVE NetInv'
    <2>1. PICK e \in Directions, mi \in present :
             counter' = [counter EXCEPT ![e][mi] = @ + 1]
      BY <1>1 DEF Transfer
    <2>2. UNCHANGED <<hwOf, present, current, change, resets, base, sent, clean>>
      BY <1>1 DEF Transfer
    <2>3. \A d \in Directions, ni \in Interfaces :
             /\ counter'[d][ni] \in Nat /\ counter[d][ni] \in Nat
             /\ counter[d][ni] <= counter'[d][ni]
      BY <1>1, <2>1 DEF NetTypeOK
    <2>4. NetTypeOK'
      BY <1>1, <2>1, <2>2 DEF NetTypeOK, Addresses
    <2>5. ASSUME Forward PROVE Forward'
      <3>1. ASSUME NEW d \in Directions, NEW ni \in Interfaces, current[d][ni] # None
            PROVE  base[d][ni] <= current[d][ni] /\ current[d][ni] <= counter'[d][ni]
        <4>1. base[d][ni] <= current[d][ni] /\ current[d][ni] <= counter[d][ni]
          BY <2>5, <3>1 DEF Forward
        <4>2. current[d][ni] \in Nat
          BY <1>1, <3>1 DEF NetTypeOK
        <4>3. QED BY <2>3, <4>1, <4>2
      <3>2. QED BY <2>2, <2>5, <3>1 DEF Forward
    <2>6. QED BY <1>1, <2>2, <2>4, <2>5, NetSame
  <1>2. ASSUME NetInv, Reset PROVE NetInv'
    <2>1. UNCHANGED <<hwOf, present, current, change, base, sent, clean>>
      BY <1>2 DEF Reset
    <2>2. NetTypeOK' /\ resets' # 0
      BY <1>2, <2>1 DEF Reset, NetTypeOK, Addresses
    <2>3. QED BY <1>2, <2>1, <2>2, NetSame
  <1>3. ASSUME NetInv, Plug PROVE NetInv'
    <2>1. UNCHANGED <<hwOf, counter, current, change, resets, base, sent, clean>>
      BY <1>3 DEF Plug
    <2>2. NetTypeOK' /\ (Forward => Forward')
      BY <1>3, <2>1 DEF Plug, NetTypeOK, Addresses, Forward
    <2>3. QED BY <1>3, <2>1, <2>2, NetSame
  <1>4. ASSUME NetInv, UNCHANGED netVars PROVE NetInv'
    <2>1. NetTypeOK' /\ (Forward => Forward')
      BY <1>4 DEF netVars, NetTypeOK, Addresses, Forward
    <2>2. QED BY <1>4, <2>1, NetSame DEF netVars
  <1>5. QED BY <1>1, <1>2, <1>3, <1>4

LEMMA NetInvariant == Spec => []NetInv
  <1>1. NetInv /\ [Next]_netVars => NetInv'
    BY MachineKeeps, GetMetricKeeps, ThrowKeeps DEF Next
  <1>2. QED BY <1>1, NetStarts, PTL DEF Spec

\* The results of getMetric never add up to more than the interfaces moved.
THEOREM ReportsAtMostOnce == Spec => []NeverOverReports
  <1>1. NetInv => NeverOverReports
    <2> SUFFICES ASSUME NetInv, resets = 0, NEW d \in Directions
                 PROVE  sent[d] <= Growth(d)
      BY DEF NeverOverReports
    <2>1. sent[d] + Pending(d) <= Growth(d) /\ sent[d] \in Int
      BY DEF NetInv, Covered, NetTypeOK
    <2>2. Pending(d) \in Nat
      <3> DEFINE v == [a \in Addresses |-> Changes(d, a).sum]
      <3>1. ASSUME NEW a \in Addresses PROVE v[a] \in Nat
        <4>1. Changes(d, a).sum \in Int
          BY ChangesType DEF NetInv
        <4>2. Changes(d, a).sum >= 0
          BY DEF NetInv, Forward, Changes, NoChanges
        <4>3. QED BY <4>1, <4>2
      <3>2. Pending(d) = SumFunctionOnSet(v, Addresses)
        BY DEF Pending
      <3> HIDE DEF v
      <3>3. QED BY <3>1, <3>2, AddressesFinite, SumNotNegative
    <2>3. Growth(d) \in Int
      <3> DEFINE m == Moved(d)
      <3>1. \A ni \in Interfaces : m[ni] \in Int
        BY NetworkAssumption DEF NetInv, NetTypeOK, ReadTogether, Moved
      <3> HIDE DEF m
      <3>2. SumFunctionOnSet(m, Interfaces) \in Int
        BY <3>1, NetworkAssumption, SumInt
      <3>3. QED BY <3>2, GrowthSum DEF m
    <2>4. QED BY <2>1, <2>2, <2>3
  <1>2. QED BY <1>1, NetInvariant, PTL

\* While no call of getMetric fails or overflows, its results add up to what the
\* interfaces moved between their first and their last readings.
THEOREM ReportsAll == Spec => []NothingLost
  <1>1. NetInv => NothingLost
    BY DEF NetInv, Settled, NothingLost
  <1>2. QED BY <1>1, NetInvariant, PTL

\* A call of getMetric that finds all interfaces succeeds, whatever came before.
THEOREM PresentSucceeds == Spec => AllPresentSucceeds
  <1>1. ASSUME NetInv, present = Interfaces, GetMetric
        PROVE  outcome' = "ok"
    <2>1. ASSUME NEW d \in Directions, NEW a \in DOMAIN Saved(present)[d]
          PROVE  Saved(present)[d][a].n # 0
      <3> DEFINE known == {ni \in Known(d, present) : hwOf[ni] = a}
      <3>1. known # {}
        BY <1>1, ListsOf DEF NetInv, ListsHaveReaders, Known
      <3>2. IsFiniteSet(known)
        BY <1>1, KnownFinite
      <3>3. Saved(present)[d][a].n = Changes(d, a).n + Cardinality(known)
        <4>1. Saved(present)[d][a] = Extended(d, present, a)
          BY <1>1, ListsOf DEF NetInv, NetTypeOK
        <4>2. QED BY <4>1 DEF Extended
      <3> HIDE DEF known
      <3>4. Cardinality(known) \in Nat \ {0}
        BY <3>1, <3>2, FS_CardinalityType, FS_EmptySet
      <3>5. QED BY <1>1, <3>3, <3>4, ChangesType DEF NetInv
    <2>2. QED BY <1>1, <2>1, GetMetricEnds
  <1>2. NetInv => (present = Interfaces /\ GetMetric => outcome' = "ok")
    BY <1>1
  <1>3. QED BY <1>2, NetInvariant, PTL DEF AllPresentSucceeds
====
