------------------- MODULE ReCoMonBLoadDataProvider_proofs -------------------
(***************************************************************************)
(* For any disks, sizes and counters: the bytes that getHddData reports    *)
(* never exceed those moved and misread, none is lost while nothing        *)
(* throws, only exchanged and misread disks make a result negative, and    *)
(* the space bar stays between the emptiest and the fullest file system    *)
(* that answers.                                                           *)
(***************************************************************************)
EXTENDS ReCoMonBLoadDataProvider, SharedLemmas

DiskTypeOK ==
    /\ mounted \in Seq(Dirs)
    /\ \A i, j \in DOMAIN mounted : mounted[i] = mounted[j] => i = j
    /\ counter \in [Dirs -> Nat]
    /\ fsData \in [Dirs -> Int \cup {None}]
    /\ base \in [Dirs -> Int \cup {None}]
    /\ failures \in Nat /\ swaps \in Nat /\ misreads \in Nat /\ negatives \in Nat
    /\ owed \in Int /\ misled \in Nat

\* A disk has a first reading as soon as it has one.
ReadTogether == \A dir \in Dirs : base[dir] = None <=> fsData[dir] = None

\* The last reading is above the counter: of a disk that was exchanged for one with
\* a smaller counter, or of another device.
Behind == {dir \in Dirs : fsData[dir] # None /\ counter[dir] < fsData[dir]}

\* What the next true reading reports, not counting what it takes back.
Due == [dir \in Dirs |-> IF fsData[dir] = None \/ dir \in Behind THEN 0
                         ELSE counter[dir] - fsData[dir]]

\* What is still owed for a disk while no reading is dropped.
Left == [dir \in Dirs |-> counter[dir] - (IF fsData[dir] = None THEN 0
                                          ELSE fsData[dir] - base[dir])]

DiskInv ==
    /\ DiskTypeOK
    /\ ReadTogether
    /\ NothingLost
    /\ SumFunctionOnSet(Due, Dirs) <= owed + misled
    /\ negatives + Cardinality(Behind) <= swaps + misreads

-----------------------------------------------------------------------------
(* The sums of a call. *)

LEMMA MountedFinite ==
    ASSUME DiskTypeOK
    PROVE  /\ Mounted \in SUBSET Dirs /\ IsFiniteSet(Mounted)
           /\ DOMAIN mounted = 1..Len(mounted) /\ IsFiniteSet(DOMAIN mounted)
           /\ \A i \in DOMAIN mounted : mounted[i] \in Mounted
  <1>1. /\ Mounted \in SUBSET Dirs /\ DOMAIN mounted = 1..Len(mounted)
        /\ Len(mounted) \in Nat /\ \A i \in DOMAIN mounted : mounted[i] \in Mounted
    BY DEF DiskTypeOK, Mounted, Range
  <1>2. IsFiniteSet(Mounted)
    BY <1>1, DisksAssumption, FS_Subset
  <1>3. IsFiniteSet(1..Len(mounted))
    BY <1>1, FS_Interval
  <1>4. QED BY <1>1, <1>2, <1>3

\* What the loop adds for a disk; nothing for one that is not in the list.
Reported(list, usage) ==
    [dir \in Dirs |-> IF dir \in Range(list) THEN Change(dir, usage) ELSE 0]

\* The answers of a call have the types of the counters.
Heard(list, usage) ==
    /\ Range(list) \in SUBSET Dirs
    /\ \A dir \in Range(list) : usage[dir].of \in Dirs /\ usage[dir].count \in Int

LEMMA AnswersHeard ==
    ASSUME NEW list, Range(list) \in SUBSET Dirs, NEW usage \in Answers(list)
    PROVE  Heard(list, usage)
  <1>1. MaxCount \in Nat /\ NotImpl \in Int
    BY DisksAssumption DEF NotImpl
  <1>2. \A dir \in Range(list) : usage[dir] \in GetFileSystemUsage
    BY DEF Answers
  <1>3. \A u \in GetFileSystemUsage : u.of \in Dirs /\ u.count \in Int
    BY <1>1 DEF GetFileSystemUsage
  <1>4. QED BY <1>2, <1>3 DEF Heard

LEMMA ReportedType ==
    ASSUME DiskTypeOK, NEW list, NEW usage, Heard(list, usage)
    PROVE  /\ \A dir \in Dirs : Reported(list, usage)[dir] \in Int
           /\ \A dir \in Dirs : Misled(list, usage)[dir] \in Nat
           /\ SumFunctionOnSet(Reported(list, usage), Dirs) \in Int
           /\ SumFunctionOnSet(Misled(list, usage), Dirs) \in Nat
  <1>1. ASSUME NEW dir \in Dirs
        PROVE  Reported(list, usage)[dir] \in Int /\ Misled(list, usage)[dir] \in Nat
    <2>1. fsData[dir] \in Int \cup {None} /\ counter[dir] \in Nat
      BY DEF DiskTypeOK
    <2>2. dir \in Range(list) => usage[dir].count \in Int
      BY DEF Heard
    <2>3. QED BY <2>1, <2>2 DEF Reported, Change, Misled, Distance
  <1>2. IsFiniteSet(Dirs)
    BY DisksAssumption
  <1> DEFINE r == Reported(list, usage)
             m == Misled(list, usage)
  <1>3. \A dir \in Dirs : r[dir] \in Int /\ m[dir] \in Nat
    BY <1>1
  <1> HIDE DEF r, m
  <1>4. SumFunctionOnSet(r, Dirs) \in Int /\ SumFunctionOnSet(m, Dirs) \in Nat
    BY <1>2, <1>3, SumInt, SumNotNegative
  <1>5. QED BY <1>3, <1>4 DEF r, m

\* The list holds a disk once, so the loop adds up the changes of the disks.
LEMMA TotalReadSum ==
    ASSUME DiskTypeOK, NEW usage, Heard(mounted, usage)
    PROVE  TotalRead(mounted, usage) = SumFunctionOnSet(Reported(mounted, usage), Dirs)
  <1> DEFINE w == [i \in DOMAIN mounted |-> Change(mounted[i], usage)]
             of(g) == {i \in DOMAIN mounted : mounted[i] = g}
             v == [g \in Mounted |-> SumFunctionOnSet(w, of(g))]
             r == Reported(mounted, usage)
  <1>1. TotalRead(mounted, usage) = SumFunctionOnSet(w, DOMAIN mounted)
    BY DEF TotalRead, SumFunction
  <1>2. /\ \A dir \in Dirs : r[dir] \in Int
        /\ \A dir \in Dirs \ Mounted : r[dir] = 0
        /\ \A dir \in Mounted : r[dir] = Change(dir, usage)
    BY ReportedType, MountedFinite DEF Reported, Mounted
  <1>3. ASSUME NEW i \in DOMAIN mounted
        PROVE  w[i] \in Int /\ w[i] = r[mounted[i]] /\ mounted[i] \in Mounted
    <2>1. mounted[i] \in Mounted /\ mounted[i] \in Dirs
      BY MountedFinite
    <2>2. r[mounted[i]] = Change(mounted[i], usage) /\ r[mounted[i]] \in Int
      BY <1>2, <2>1
    <2> HIDE DEF r
    <2>3. QED BY <2>1, <2>2
  <1>4. ASSUME NEW g \in Mounted PROVE v[g] = r[g]
    <2>1. PICK i \in DOMAIN mounted : mounted[i] = g
      BY DEF Mounted, Range
    <2>2. of(g) = {i}
      BY <2>1 DEF DiskTypeOK
    <2>3. v[g] = SumFunctionOnSet(w, {i})
      BY <2>2
    <2>4. w[i] = r[g] /\ w[i] \in Int
      BY <1>3, <2>1
    <2> HIDE DEF w, v, r
    <2>5. QED BY <2>3, <2>4, SumOfOne
  <1>5. SumFunctionOnSet(v, Mounted) = SumFunctionOnSet(w, DOMAIN mounted)
    <2> DEFINE I == DOMAIN mounted
    <2>1. IsFiniteSet(I) /\ IsFiniteSet(Mounted)
      BY MountedFinite
    <2>2. \A i \in I : w[i] \in Int /\ mounted[i] \in Mounted
      BY <1>3
    <2> HIDE DEF w, I
    <2>3. SumFunctionOnSet([g \in Mounted |->
               SumFunctionOnSet(w, {i \in I : mounted[i] = g})], Mounted)
            = SumFunctionOnSet(w, I)
      BY <2>1, <2>2, SumByGroup
    <2>4. QED BY <2>3 DEF I
  <1> HIDE DEF w, v, r
  <1>6. SumFunctionOnSet(v, Mounted) = SumFunctionOnSet(r, Mounted)
    BY <1>4, MountedFinite, SumSame
  <1>7. SumFunctionOnSet(r, Dirs) = SumFunctionOnSet(r, Mounted)
    BY <1>2, MountedFinite, DisksAssumption, SumOfSupport
  <1>8. QED BY <1>1, <1>5, <1>6, <1>7 DEF r

TermsOK == \A dir \in Dirs : Due[dir] \in Nat /\ Left[dir] \in Int

LEMMA TermsType == DiskTypeOK /\ ReadTogether => TermsOK
  <1> SUFFICES ASSUME DiskTypeOK, ReadTogether, NEW dir \in Dirs
               PROVE  Due[dir] \in Nat /\ Left[dir] \in Int
    BY DEF TermsOK
  <1>1. /\ counter[dir] \in Nat /\ fsData[dir] \in Int \cup {None}
        /\ base[dir] \in Int \cup {None} /\ None \notin Int
    BY DisksAssumption DEF DiskTypeOK
  <1>2. Due[dir] \in Nat
    BY <1>1 DEF Due, Behind
  <1>3. QED BY <1>1, <1>2 DEF Left, ReadTogether

LEMMA TermsTypeNext == DiskTypeOK' /\ ReadTogether' => TermsOK'
  BY TermsType, PTL

LEMMA LeftSum ==
    NothingLost <=> (failures = 0 /\ swaps = 0 => owed = SumFunctionOnSet(Left, Dirs))
  BY DEF NothingLost, Left, SumFunction

LEMMA BehindFinite ==
    /\ IsFiniteSet(Behind) /\ Cardinality(Behind) \in Nat
    /\ \A B \in SUBSET Behind : IsFiniteSet(B) /\ Cardinality(B) \in Nat
                                /\ Cardinality(B) <= Cardinality(Behind)
  <1>1. Behind \in SUBSET Dirs
    BY DEF Behind
  <1>2. IsFiniteSet(Behind)
    BY <1>1, DisksAssumption, FS_Subset
  <1> HIDE DEF Behind
  <1>3. ASSUME NEW B \in SUBSET Behind
        PROVE  IsFiniteSet(B) /\ Cardinality(B) \in Nat /\ Cardinality(B) <= Cardinality(Behind)
    BY <1>2, FS_Subset, FS_CardinalityType
  <1>4. QED BY <1>2, <1>3, FS_CardinalityType

\* Two finite sets cover no more than both have.
LEMMA CoveredBy ==
    ASSUME NEW A, IsFiniteSet(A), NEW B, IsFiniteSet(B), NEW C \in SUBSET (A \cup B)
    PROVE  /\ Cardinality(A) \in Nat /\ Cardinality(B) \in Nat
           /\ Cardinality(C) \in Nat
           /\ Cardinality(C) <= Cardinality(A) + Cardinality(B)
  <1>1. /\ IsFiniteSet(A \cup B)
        /\ Cardinality(A \cup B) = Cardinality(A) + Cardinality(B) - Cardinality(A \cap B)
    BY FS_Union
  <1>2. IsFiniteSet(A \cap B) /\ IsFiniteSet(C) /\ Cardinality(C) <= Cardinality(A \cup B)
    BY <1>1, FS_Subset
  <1>3. /\ Cardinality(A) \in Nat /\ Cardinality(B) \in Nat /\ Cardinality(C) \in Nat
        /\ Cardinality(A \cap B) \in Nat /\ Cardinality(A \cup B) \in Nat
    BY <1>1, <1>2, FS_CardinalityType
  <1>4. QED BY <1>1, <1>2, <1>3

-----------------------------------------------------------------------------
(* Disks are read, by a call that succeeds or that throws later. *)

LEMMA ReadingDone ==
    ASSUME DiskInv, NEW list, NEW usage, Heard(list, usage), ReadDisks(list, usage),
           NEW dir \in Dirs
    PROVE  /\ fsData'[dir] = IF dir \in Range(list) THEN usage[dir].count ELSE fsData[dir]
           /\ base'[dir] = IF dir \in Range(list) /\ base[dir] = None
                           THEN usage[dir].count ELSE base[dir]
           /\ counter' = counter /\ counter[dir] \in Nat
           /\ fsData[dir] \in Int \cup {None} /\ base[dir] \in Int \cup {None}
           /\ base[dir] = None <=> fsData[dir] = None
           /\ dir \in Range(list) => usage[dir].count \in Int
  BY DEF ReadDisks, Readings, FirstReadings, DiskInv, DiskTypeOK, ReadTogether, Heard

LEMMA ReadingTyped ==
    ASSUME DiskInv, NEW list, NEW usage, Heard(list, usage), ReadDisks(list, usage)
    PROVE  /\ fsData' \in [Dirs -> Int \cup {None}] /\ base' \in [Dirs -> Int \cup {None}]
           /\ ReadTogether'
           /\ IsFiniteSet(Misread(list, usage))
           /\ Cardinality(Misread(list, usage)) \in Nat
           /\ misreads' \in Nat /\ misled' \in Nat
  <1>1. /\ fsData' \in [Dirs -> Int \cup {None}]
        /\ base' \in [Dirs -> Int \cup {None}]
    BY DEF ReadDisks, Readings, FirstReadings, DiskInv, DiskTypeOK, Heard
  <1>2. ReadTogether'
    BY ReadingDone, DisksAssumption DEF ReadTogether
  <1>3. Misread(list, usage) \in SUBSET Dirs
    BY DEF Misread, Heard
  <1>4. IsFiniteSet(Misread(list, usage)) /\ Cardinality(Misread(list, usage)) \in Nat
    BY <1>3, DisksAssumption, FS_Subset, FS_CardinalityType
  <1>5. misreads' \in Nat /\ misled' \in Nat
    <2>1. SumFunctionOnSet(Misled(list, usage), Dirs) \in Nat
      BY ReportedType DEF DiskInv
    <2>2. QED BY <1>4, <2>1 DEF ReadDisks, DiskInv, DiskTypeOK
  <1>6. QED BY <1>1, <1>2, <1>4, <1>5

LEMMA ReadingTerms ==
    ASSUME DiskInv, NEW list, NEW usage, Heard(list, usage), ReadDisks(list, usage),
           NEW dir \in Dirs
    PROVE  /\ Left'[dir] + Reported(list, usage)[dir] = Left[dir]
           /\ Due'[dir] + Reported(list, usage)[dir] <= Due[dir] + Misled(list, usage)[dir]
           /\ Due'[dir] <= Due[dir] + Misled(list, usage)[dir]
           /\ dir \in Behind' => dir \in (Behind \ Range(list)) \cup Misread(list, usage)
           /\ Reported(list, usage)[dir] < 0 =>
                 /\ dir \in Range(list)
                 /\ dir \in Behind \/ dir \in Misread(list, usage) \ Behind'
           /\ Left'[dir] \in Int /\ Due'[dir] \in Int
  <1> DEFINE c == counter[dir]
             f == fsData[dir]
             b == base[dir]
             u == usage[dir].count
             f2 == fsData'[dir]
             b2 == base'[dir]
             m == dir \in Range(list)
             wrong == dir \in Misread(list, usage)
             rep == Reported(list, usage)[dir]
             off == Misled(list, usage)[dir]
  <1>1. /\ f2 = (IF m THEN u ELSE f) /\ b2 = (IF m /\ b = None THEN u ELSE b)
        /\ c \in Nat /\ f \in Int \cup {None} /\ b \in Int \cup {None}
        /\ (m => u \in Int)
        /\ (b = None <=> f = None) /\ None \notin Int
    BY ReadingDone, DisksAssumption
  <1>2. /\ Left[dir] = c - (IF f = None THEN 0 ELSE f - b)
        /\ Left'[dir] = c - (IF f2 = None THEN 0 ELSE f2 - b2)
    BY ReadingDone DEF Left
  <1>3. /\ dir \in Behind <=> f # None /\ c < f
        /\ dir \in Behind' <=> f2 # None /\ c < f2
    BY ReadingDone DEF Behind
  <1>4. /\ Due[dir] = IF f = None \/ dir \in Behind THEN 0 ELSE c - f
        /\ Due'[dir] = IF f2 = None \/ dir \in Behind' THEN 0 ELSE c - f2
    BY ReadingDone DEF Due
  <1>5. rep = IF m /\ f # None THEN u - f ELSE 0
    BY DEF Reported, Change
  <1>6. off = IF m THEN (IF u < c THEN c - u ELSE u - c) ELSE 0
    BY DEF Misled, Distance
  <1>7. m /\ u # c => wrong
    BY DEF Misread, Own
  <1> HIDE DEF c, f, b, u, f2, b2, m, wrong, rep, off
  <1>8. Left'[dir] + rep = Left[dir] /\ Left'[dir] \in Int
    BY <1>1, <1>2, <1>5
  <1>9. /\ Due'[dir] + rep <= Due[dir] + off /\ Due'[dir] \in Int
        /\ Due'[dir] <= Due[dir] + off
    BY <1>1, <1>3, <1>4, <1>5, <1>6
  <1>10. dir \in Behind' => (dir \in Behind /\ ~m) \/ wrong
    BY <1>1, <1>3, <1>7
  <1>11. rep < 0 => m /\ (dir \in Behind \/ (wrong /\ dir \notin Behind'))
    BY <1>1, <1>3, <1>5, <1>7
  <1>12. QED BY <1>8, <1>9, <1>10, <1>11 DEF m, wrong, rep, off

LEMMA ReadingSums ==
    ASSUME DiskInv, NEW list, NEW usage, Heard(list, usage), ReadDisks(list, usage)
    PROVE  /\ SumFunctionOnSet(Left, Dirs)
                = SumFunctionOnSet(Left', Dirs) + SumFunctionOnSet(Reported(list, usage), Dirs)
           /\ SumFunctionOnSet(Left', Dirs) \in Int
           /\ SumFunctionOnSet(Due', Dirs) \in Int
           /\ SumFunctionOnSet(Due', Dirs) <= owed + misled'
           /\ SumFunctionOnSet(Due', Dirs) + SumFunctionOnSet(Reported(list, usage), Dirs)
                <= owed + misled'
  <1> DEFINE l2 == Left'
             d2 == Due'
             l == Left
             d == Due
             r == Reported(list, usage)
             m == Misled(list, usage)
             u == [dir \in Dirs |-> d2[dir] + r[dir]]
             v == [dir \in Dirs |-> d[dir] + m[dir]]
  <1>1. DiskTypeOK /\ ReadTogether /\ IsFiniteSet(Dirs)
    BY DisksAssumption DEF DiskInv
  <1>2. /\ misled' = misled + SumFunctionOnSet(m, Dirs)
        /\ SumFunctionOnSet(m, Dirs) \in Nat /\ SumFunctionOnSet(r, Dirs) \in Int
    BY <1>1, ReportedType DEF ReadDisks
  <1>3. \A dir \in Dirs :
           /\ l2[dir] \in Int /\ l[dir] \in Int /\ d2[dir] \in Int /\ d[dir] \in Int
           /\ r[dir] \in Int /\ m[dir] \in Int
           /\ l[dir] = l2[dir] + r[dir]
           /\ d2[dir] + r[dir] <= d[dir] + m[dir]
           /\ d2[dir] <= d[dir] + m[dir]
    <2> SUFFICES ASSUME NEW dir \in Dirs
                 PROVE  /\ l2[dir] \in Int /\ l[dir] \in Int /\ d2[dir] \in Int /\ d[dir] \in Int
                        /\ r[dir] \in Int /\ m[dir] \in Int
                        /\ l[dir] = l2[dir] + r[dir]
                        /\ d2[dir] + r[dir] <= d[dir] + m[dir]
                        /\ d2[dir] <= d[dir] + m[dir]
      OBVIOUS
    <2>1. d[dir] \in Nat /\ l[dir] \in Int
      BY <1>1, TermsType DEF TermsOK
    <2>2. r[dir] \in Int /\ m[dir] \in Nat
      BY <1>1, ReportedType
    <2>3. /\ l2[dir] + r[dir] = l[dir] /\ l2[dir] \in Int /\ d2[dir] \in Int
          /\ d2[dir] + r[dir] <= d[dir] + m[dir] /\ d2[dir] <= d[dir] + m[dir]
      BY ReadingTerms
    <2> HIDE DEF l, l2, d, d2, r, m
    <2>4. QED BY <2>1, <2>2, <2>3
  <1> HIDE DEF l, l2, d, d2, r, m
  <1>4. SumFunctionOnSet(l, Dirs) = SumFunctionOnSet(l2, Dirs) + SumFunctionOnSet(r, Dirs)
    BY <1>1, <1>3, SumOfSums
  <1>5. \A dir \in Dirs : /\ u[dir] = d2[dir] + r[dir] /\ v[dir] = d[dir] + m[dir]
                          /\ u[dir] \in Int /\ v[dir] \in Int
                          /\ u[dir] <= v[dir] /\ d2[dir] <= v[dir]
    BY <1>3
  <1> HIDE DEF u, v
  <1>6. /\ SumFunctionOnSet(u, Dirs) = SumFunctionOnSet(d2, Dirs) + SumFunctionOnSet(r, Dirs)
        /\ SumFunctionOnSet(v, Dirs) = SumFunctionOnSet(d, Dirs) + SumFunctionOnSet(m, Dirs)
    BY <1>1, <1>3, <1>5, SumOfSums
  <1>7. /\ SumFunctionOnSet(u, Dirs) <= SumFunctionOnSet(v, Dirs)
        /\ SumFunctionOnSet(d2, Dirs) <= SumFunctionOnSet(v, Dirs)
    BY <1>1, <1>3, <1>5, SumMonotone
  <1>8. /\ SumFunctionOnSet(l2, Dirs) \in Int /\ SumFunctionOnSet(d2, Dirs) \in Int
        /\ SumFunctionOnSet(d, Dirs) \in Int
    BY <1>1, <1>3, SumInt
  <1>9. SumFunctionOnSet(d, Dirs) <= owed + misled /\ owed \in Int /\ misled \in Nat
    BY DEF DiskInv, DiskTypeOK, d
  <1>10. /\ SumFunctionOnSet(d2, Dirs) <= owed + misled'
         /\ SumFunctionOnSet(d2, Dirs) + SumFunctionOnSet(r, Dirs) <= owed + misled'
    BY <1>2, <1>6, <1>7, <1>8, <1>9
  <1>11. QED BY <1>4, <1>8, <1>10 DEF l, l2, d2, r

\* The counts of a call: a misreading pays for what it puts behind, or for the
\* negative result, never for both.
LEMMA ReadingCounts ==
    ASSUME DiskInv, NEW list, NEW usage, Heard(list, usage), ReadDisks(list, usage)
    PROVE  /\ Cardinality(Behind') \in Nat
           /\ negatives + Cardinality(Behind') <= swaps' + misreads'
           /\ (\E dir \in Dirs : Reported(list, usage)[dir] < 0) =>
                 (negatives + 1) + Cardinality(Behind') <= swaps' + misreads'
  <1> DEFINE mis == Misread(list, usage)
             b2 == Behind'
  <1>1. /\ IsFiniteSet(mis) /\ Cardinality(mis) \in Nat
        /\ misreads' = misreads + Cardinality(mis) /\ swaps' = swaps
    BY ReadingTyped DEF ReadDisks
  <1>2. /\ negatives + Cardinality(Behind) <= swaps + misreads
        /\ negatives \in Nat /\ swaps \in Nat /\ misreads \in Nat
        /\ Cardinality(Behind) \in Nat /\ IsFiniteSet(Behind)
    BY BehindFinite DEF DiskInv, DiskTypeOK
  <1>3. b2 \in SUBSET ((Behind \ Range(list)) \cup mis)
    <2>1. \A dir \in b2 : dir \in Dirs
      BY DEF Behind
    <2>2. \A dir \in Dirs : dir \in b2 => dir \in (Behind \ Range(list)) \cup mis
      BY ReadingTerms
    <2> HIDE DEF b2, mis
    <2>3. QED BY <2>1, <2>2
  <1>4. ASSUME NEW dir \in Dirs, Reported(list, usage)[dir] < 0
        PROVE  dir \in Range(list) /\ (dir \in Behind \/ dir \in mis \ b2)
    BY <1>4, ReadingTerms
  <1> HIDE DEF mis, b2
  <1>5. Cardinality(b2) \in Nat /\ Cardinality(b2) <= Cardinality(Behind) + Cardinality(mis)
    <2>1. b2 \in SUBSET (Behind \cup mis)
      BY <1>3
    <2>2. QED BY <1>1, <1>2, <2>1, CoveredBy
  <1>6. ASSUME NEW dir \in Dirs, Reported(list, usage)[dir] < 0
        PROVE  Cardinality(b2) + 1 <= Cardinality(Behind) + Cardinality(mis)
    <2>1. CASE dir \in Behind
      <3>1. b2 \in SUBSET ((Behind \ {dir}) \cup mis)
        BY <1>3, <1>4, <1>6
      <3>2. /\ IsFiniteSet(Behind \ {dir})
            /\ Cardinality(Behind \ {dir}) = Cardinality(Behind) - 1
        BY <1>2, <2>1, FS_RemoveElement
      <3>3. Cardinality(b2) <= Cardinality(Behind \ {dir}) + Cardinality(mis)
        BY <1>1, <3>1, <3>2, CoveredBy
      <3>4. QED BY <1>1, <1>2, <1>5, <3>2, <3>3
    <2>2. CASE dir \in mis \ b2
      <3>1. b2 \in SUBSET (Behind \cup (mis \ {dir}))
        BY <1>3, <2>2
      <3>2. /\ IsFiniteSet(mis \ {dir})
            /\ Cardinality(mis \ {dir}) = Cardinality(mis) - 1
        BY <1>1, <2>2, FS_RemoveElement
      <3>3. Cardinality(b2) <= Cardinality(Behind) + Cardinality(mis \ {dir})
        BY <1>2, <3>1, <3>2, CoveredBy
      <3>4. QED BY <1>1, <1>2, <1>5, <3>2, <3>3
    <2>3. QED BY <1>4, <1>6, <2>1, <2>2
  <1>7. negatives + Cardinality(b2) <= swaps' + misreads'
    BY <1>1, <1>2, <1>5
  <1>8. ASSUME NEW dir \in Dirs, Reported(list, usage)[dir] < 0
        PROVE  (negatives + 1) + Cardinality(b2) <= swaps' + misreads'
    BY <1>1, <1>2, <1>5, <1>6, <1>8
  <1>9. QED BY <1>5, <1>7, <1>8 DEF b2

LEMMA ReadingKeeps == DiskInv /\ GetHddData => DiskInv'
  <1> SUFFICES ASSUME DiskInv, GetHddData PROVE DiskInv'
    OBVIOUS
  <1>1. PICK usage \in Answers(mounted) :
           /\ ReadDisks(mounted, usage)
           /\ owed' = owed - TotalRead(mounted, usage)
           /\ negatives' = negatives + (IF TotalRead(mounted, usage) < 0 THEN 1 ELSE 0)
           /\ UNCHANGED failures
    BY DEF GetHddData
  <1> DEFINE total == TotalRead(mounted, usage)
             r == Reported(mounted, usage)
  <1>2. DiskTypeOK /\ Heard(mounted, usage)
    <2>1. Range(mounted) \in SUBSET Dirs
      BY MountedFinite DEF DiskInv, Mounted
    <2>2. QED BY <2>1, AnswersHeard DEF DiskInv
  <1>3. UNCHANGED <<mounted, counter, swaps>>
    BY <1>1 DEF ReadDisks
  <1>4. /\ total = SumFunctionOnSet(r, Dirs) /\ total \in Int
        /\ \A dir \in Dirs : r[dir] \in Int
    BY <1>2, TotalReadSum, ReportedType
  <1>5. owed' \in Int /\ negatives' \in Nat
    BY <1>1, <1>2, <1>4 DEF DiskTypeOK
  <1>6. DiskTypeOK' /\ ReadTogether'
    BY <1>1, <1>2, <1>3, <1>5, ReadingTyped DEF DiskTypeOK
  <1>7. NothingLost'
    <2>1. failures = 0 /\ swaps = 0 => owed = SumFunctionOnSet(Left, Dirs)
      BY LeftSum DEF DiskInv
    <2>2. /\ SumFunctionOnSet(Left, Dirs) = SumFunctionOnSet(Left', Dirs) + total
          /\ SumFunctionOnSet(Left', Dirs) \in Int
      BY <1>1, <1>2, <1>4, ReadingSums
    <2> HIDE DEF total
    <2>3. failures' = 0 /\ swaps' = 0 => owed' = SumFunctionOnSet(Left', Dirs)
      BY <1>1, <1>3, <1>4, <2>1, <2>2 DEF total
    <2>4. NothingLost' <=> (failures' = 0 /\ swaps' = 0 =>
                                owed' = SumFunctionOnSet(Left, Dirs)')
      BY DEF NothingLost, Left, SumFunction
    <2>5. QED BY <2>3, <2>4
  <1>8. SumFunctionOnSet(Due', Dirs) <= owed' + misled'
    <2>1. /\ SumFunctionOnSet(Due', Dirs) + total <= owed + misled'
          /\ SumFunctionOnSet(Due', Dirs) \in Int
      BY <1>1, <1>2, <1>4, ReadingSums
    <2>2. misled' \in Int /\ owed \in Int /\ owed' = owed - total
      BY <1>1, <1>2, <1>6 DEF DiskTypeOK
    <2> HIDE DEF total
    <2>3. QED BY <1>4, <2>1, <2>2
  <1>9. negatives' + Cardinality(Behind') <= swaps' + misreads'
    <2> HIDE DEF total, r
    <2>1. total < 0 => \E dir \in Dirs : r[dir] < 0
      <3>1. SUFFICES ASSUME \A dir \in Dirs : ~(r[dir] < 0) PROVE ~(total < 0)
        OBVIOUS
      <3>2. \A dir \in Dirs : r[dir] \in Nat
        BY <1>4, <3>1
      <3>3. QED BY <1>4, <3>2, DisksAssumption, SumNotNegative
    <2>2. /\ negatives + Cardinality(Behind') <= swaps' + misreads'
          /\ (\E dir \in Dirs : r[dir] < 0) =>
                (negatives + 1) + Cardinality(Behind') <= swaps' + misreads'
      BY <1>1, <1>2, ReadingCounts DEF r
    <2>3. negatives \in Nat /\ negatives' = negatives + (IF total < 0 THEN 1 ELSE 0)
      BY <1>1, <1>2 DEF DiskTypeOK, total
    <2>4. QED BY <2>1, <2>2, <2>3
  <1>10. QED BY <1>6, <1>7, <1>8, <1>9 DEF DiskInv

LEMMA ThrowKeeps == DiskInv /\ GetHddDataThrows => DiskInv'
  <1> SUFFICES ASSUME DiskInv, GetHddDataThrows PROVE DiskInv'
    OBVIOUS
  <1>1. PICK k \in 0..(Len(mounted) - 1) :
           \E usage \in Answers(SubSeq(mounted, 1, k)) :
              ReadDisks(SubSeq(mounted, 1, k), usage)
    BY DEF GetHddDataThrows
  <1> DEFINE list == SubSeq(mounted, 1, k)
  <1>2. PICK usage \in Answers(list) : ReadDisks(list, usage)
    BY <1>1
  <1>3. DiskTypeOK /\ Range(list) \in SUBSET Dirs
    <2>1. mounted \in Seq(Dirs) /\ DiskTypeOK
      BY DEF DiskInv, DiskTypeOK
    <2>2. list \in Seq(Dirs)
      BY <2>1
    <2> HIDE DEF list
    <2>3. QED BY <2>1, <2>2 DEF Range
  <1> HIDE DEF list
  <1>4. Heard(list, usage)
    BY <1>3, AnswersHeard
  <1>5. UNCHANGED <<mounted, counter, swaps, owed, negatives>> /\ failures' = failures + 1
    BY <1>2 DEF GetHddDataThrows, ReadDisks
  <1>6. DiskTypeOK' /\ ReadTogether' /\ failures' # 0
    BY <1>2, <1>3, <1>4, <1>5, ReadingTyped DEF DiskTypeOK
  <1>7. SumFunctionOnSet(Due', Dirs) <= owed' + misled'
    BY <1>2, <1>4, <1>5, ReadingSums
  <1>8. negatives' + Cardinality(Behind') <= swaps' + misreads'
    BY <1>2, <1>4, <1>5, ReadingCounts
  <1>9. QED BY <1>6, <1>7, <1>8 DEF DiskInv, NothingLost

-----------------------------------------------------------------------------
(* The other steps. *)

LEMMA TransferKeeps == DiskInv /\ Transfer => DiskInv'
  <1> SUFFICES ASSUME DiskInv, Transfer PROVE DiskInv'
    OBVIOUS
  <1>1. PICK dir \in Dirs : counter' = [counter EXCEPT ![dir] = @ + 1]
    BY MountedFinite DEF Transfer, DiskInv
  <1>2. /\ UNCHANGED <<mounted, fsData, failures, swaps, misreads, base, negatives, misled>>
        /\ owed' = owed + 1
    BY DEF Transfer
  <1>3. DiskTypeOK /\ ReadTogether /\ DiskTypeOK' /\ ReadTogether'
    BY <1>1, <1>2 DEF DiskInv, DiskTypeOK, ReadTogether
  <1>4. \A d \in Dirs : /\ counter'[d] = IF d = dir THEN counter[d] + 1 ELSE counter[d]
                        /\ counter[d] \in Nat /\ fsData[d] \in Int \cup {None}
    BY <1>1, <1>3 DEF DiskTypeOK
  <1>5. Behind' \subseteq Behind
    BY <1>2, <1>4, DisksAssumption DEF Behind
  <1> DEFINE d2 == Due'
             l2 == Left'
  <1>6. \A d \in Dirs : /\ d2[d] \in Int /\ Due[d] \in Int
                        /\ Left[d] \in Int /\ l2[d] \in Int
    BY <1>3, TermsType, TermsTypeNext DEF TermsOK
  <1>7. \A d \in Dirs \ {dir} : d2[d] = Due[d] /\ l2[d] = Left[d]
    BY <1>2, <1>4 DEF Due, Left, Behind
  <1>8. d2[dir] <= Due[dir] + 1
    BY <1>2, <1>4, DisksAssumption DEF Due, Behind
  <1>9. l2[dir] = Left[dir] + 1
    <2>1. /\ Left[dir] = counter[dir] - (IF fsData[dir] = None THEN 0 ELSE fsData[dir] - base[dir])
          /\ l2[dir] = counter'[dir] - (IF fsData[dir] = None THEN 0 ELSE fsData[dir] - base[dir])
      BY <1>2 DEF Left
    <2>2. (IF fsData[dir] = None THEN 0 ELSE fsData[dir] - base[dir]) \in Int
      BY <1>3, DisksAssumption DEF DiskTypeOK, ReadTogether
    <2>3. QED BY <1>4, <2>1, <2>2
  <1>10. NothingLost' <=> (failures' = 0 /\ swaps' = 0 => owed' = SumFunctionOnSet(l2, Dirs))
    BY DEF NothingLost, Left, SumFunction
  <1> HIDE DEF d2, l2
  <1>11. /\ SumFunctionOnSet(d2, Dirs) = SumFunctionOnSet(Due, Dirs) + (d2[dir] - Due[dir])
         /\ SumFunctionOnSet(l2, Dirs) = SumFunctionOnSet(Left, Dirs) + (l2[dir] - Left[dir])
    <2> DEFINE v == Due
               l == Left
    <2>1. \A d \in Dirs : /\ d2[d] \in Int /\ v[d] \in Int /\ l2[d] \in Int /\ l[d] \in Int
                          /\ d # dir => v[d] = d2[d] /\ l[d] = l2[d]
      BY <1>6, <1>7
    <2>2. IsFiniteSet(Dirs)
      BY DisksAssumption
    <2> HIDE DEF v, l
    <2>3. SumFunctionOnSet(d2, Dirs) = SumFunctionOnSet(v, Dirs) + (d2[dir] - v[dir])
      BY <2>1, <2>2, SumOfChanged
    <2>4. SumFunctionOnSet(l2, Dirs) = SumFunctionOnSet(l, Dirs) + (l2[dir] - l[dir])
      BY <2>1, <2>2, SumOfChanged
    <2>5. QED BY <2>3, <2>4 DEF v, l
  <1>12. /\ SumFunctionOnSet(Due, Dirs) \in Int /\ SumFunctionOnSet(Left, Dirs) \in Int
    BY <1>6, DisksAssumption, SumInt
  <1>13. SumFunctionOnSet(d2, Dirs) <= owed' + misled'
    BY <1>2, <1>3, <1>6, <1>8, <1>11, <1>12 DEF DiskInv, DiskTypeOK
  <1>14. NothingLost'
    BY <1>2, <1>6, <1>9, <1>10, <1>11, <1>12, LeftSum DEF DiskInv
  <1>15. negatives' + Cardinality(Behind') <= swaps' + misreads'
    <2>1. Cardinality(Behind') \in Nat /\ Cardinality(Behind') <= Cardinality(Behind)
      BY <1>5, BehindFinite
    <2>2. QED BY <1>2, <1>3, <2>1, BehindFinite DEF DiskInv, DiskTypeOK
  <1>16. QED BY <1>3, <1>13, <1>14, <1>15 DEF DiskInv, d2

LEMMA SwapKeeps == DiskInv /\ Swap => DiskInv'
  <1> SUFFICES ASSUME DiskInv, Swap PROVE DiskInv'
    OBVIOUS
  <1>1. PICK dir \in Dirs, c \in 0..MaxCount :
           counter' = [counter EXCEPT ![dir] = c] /\ owed' = owed + c
    BY DEF Swap
  <1>2. /\ UNCHANGED <<mounted, fsData, failures, misreads, base, negatives, misled>>
        /\ swaps' = swaps + 1 /\ c \in Nat
    BY DisksAssumption DEF Swap
  <1>3. DiskTypeOK /\ ReadTogether /\ DiskTypeOK' /\ ReadTogether'
    BY <1>1, <1>2 DEF DiskInv, DiskTypeOK, ReadTogether
  <1>4. \A d \in Dirs : /\ counter'[d] = IF d = dir THEN c ELSE counter[d]
                        /\ counter[d] \in Nat /\ fsData[d] \in Int \cup {None}
    BY <1>1, <1>3 DEF DiskTypeOK
  <1>5. Behind' \subseteq Behind \cup {dir}
    BY <1>2, <1>4 DEF Behind
  <1> DEFINE d2 == Due'
  <1>6. \A d \in Dirs : d2[d] \in Nat /\ Due[d] \in Nat
    BY <1>3, TermsType, TermsTypeNext DEF TermsOK
  <1>7. \A d \in Dirs \ {dir} : d2[d] = Due[d]
    BY <1>2, <1>4 DEF Due, Behind
  <1>8. d2[dir] <= Due[dir] + c
    BY <1>2, <1>4, DisksAssumption DEF Due, Behind
  <1> HIDE DEF d2
  <1>9. SumFunctionOnSet(d2, Dirs) = SumFunctionOnSet(Due, Dirs) + (d2[dir] - Due[dir])
    <2> DEFINE v == Due
    <2>1. \A d \in Dirs : /\ d2[d] \in Int /\ v[d] \in Int
                          /\ d # dir => v[d] = d2[d]
      BY <1>6, <1>7
    <2>2. IsFiniteSet(Dirs)
      BY DisksAssumption
    <2> HIDE DEF v
    <2>3. SumFunctionOnSet(d2, Dirs) = SumFunctionOnSet(v, Dirs) + (d2[dir] - v[dir])
      BY <2>1, <2>2, SumOfChanged
    <2>4. QED BY <2>3 DEF v
  <1>10. SumFunctionOnSet(Due, Dirs) \in Nat
    BY <1>6, DisksAssumption, SumNotNegative
  <1>11. SumFunctionOnSet(d2, Dirs) <= owed' + misled'
    <2>1. owed \in Int /\ misled \in Nat /\ SumFunctionOnSet(Due, Dirs) <= owed + misled
      BY <1>3 DEF DiskInv, DiskTypeOK
    <2>2. d2[dir] \in Nat /\ Due[dir] \in Nat
      BY <1>6
    <2>3. QED BY <1>1, <1>2, <1>8, <1>9, <1>10, <2>1, <2>2
  <1>12. negatives' + Cardinality(Behind') <= swaps' + misreads'
    <2>1. /\ IsFiniteSet(Behind \cup {dir})
          /\ Cardinality(Behind \cup {dir}) \in Nat
          /\ Cardinality(Behind \cup {dir}) <= Cardinality(Behind) + 1
      BY BehindFinite, FS_AddElement, FS_CardinalityType
    <2>2. Cardinality(Behind') \in Nat /\ Cardinality(Behind') <= Cardinality(Behind \cup {dir})
      BY <1>5, <2>1, FS_Subset, FS_CardinalityType
    <2>3. QED BY <1>2, <1>3, <2>1, <2>2, BehindFinite DEF DiskInv, DiskTypeOK
  <1>13. NothingLost'
    BY <1>2, <1>3 DEF NothingLost, DiskTypeOK
  <1>14. QED BY <1>3, <1>11, <1>12, <1>13 DEF DiskInv, d2

\* What the mounted disks have nothing to do with.
LEMMA DiskSame ==
    ASSUME DiskInv, DiskTypeOK',
           UNCHANGED <<counter, fsData, base, failures, swaps, misreads, owed, negatives,
                       misled>>
    PROVE  DiskInv'
  BY DEF DiskInv, ReadTogether, NothingLost, Due, Behind

LEMMA MountKeeps == DiskInv /\ Mount => DiskInv'
  <1> SUFFICES ASSUME DiskInv, Mount PROVE DiskInv'
    OBVIOUS
  <1>1. PICK dir \in Dirs \ Mounted : mounted' = Append(mounted, dir)
    BY DEF Mount
  <1>2. UNCHANGED <<counter, fsData, base, failures, swaps, misreads, owed, negatives,
                       misled>>
    BY DEF Mount
  <1>3. mounted \in Seq(Dirs) /\ \A i \in DOMAIN mounted : mounted[i] # dir
    BY DEF DiskInv, DiskTypeOK, Mounted, Range
  <1>4. /\ mounted' \in Seq(Dirs)
        /\ \A i, j \in DOMAIN mounted' : mounted'[i] = mounted'[j] => i = j
    BY <1>1, <1>3 DEF DiskInv, DiskTypeOK
  <1>5. DiskTypeOK'
    BY <1>2, <1>4 DEF DiskInv, DiskTypeOK
  <1>6. QED BY <1>2, <1>5, DiskSame

LEMMA UnmountKeeps == DiskInv /\ Unmount => DiskInv'
  <1> SUFFICES ASSUME DiskInv, Unmount PROVE DiskInv'
    OBVIOUS
  <1>1. PICK i \in DOMAIN mounted : mounted' = RemoveAt(mounted, i)
    BY DEF Unmount
  <1>2. UNCHANGED <<counter, fsData, base, failures, swaps, misreads, owed, negatives,
                       misled>>
    BY DEF Unmount
  <1> DEFINE n == Len(mounted)
             front == SubSeq(mounted, 1, i - 1)
             back == SubSeq(mounted, i + 1, n)
  <1>3. /\ mounted \in Seq(Dirs) /\ n \in Nat /\ i \in 1..n
        /\ \A j, k \in 1..n : mounted[j] = mounted[k] => j = k
    BY DEF DiskInv, DiskTypeOK
  <1>4. /\ front \in Seq(Dirs) /\ Len(front) = i - 1
        /\ \A j \in 1..i-1 : front[j] = mounted[j]
        /\ back \in Seq(Dirs) /\ Len(back) = n - i
        /\ \A j \in 1..n-i : back[j] = mounted[i + j]
    BY <1>3
  <1>5. mounted' = front \o back
    BY <1>1 DEF RemoveAt
  <1> HIDE DEF front, back, n
  <1>6. /\ mounted' \in Seq(Dirs) /\ Len(mounted') = n - 1
        /\ \A j \in 1..n-1 : mounted'[j] = IF j < i THEN mounted[j] ELSE mounted[j + 1]
    <2> DEFINE m == i - 1
    <2>1. /\ front \in Seq(Dirs) /\ back \in Seq(Dirs) /\ m \in Nat /\ n - i \in Nat
          /\ Len(front) = m /\ Len(back) = n - i
      BY <1>3, <1>4
    <2> HIDE DEF m
    <2>2. /\ mounted' \in Seq(Dirs) /\ Len(mounted') = m + (n - i)
          /\ \A j \in 1..m + (n - i) : mounted'[j] = IF j <= m THEN front[j] ELSE back[j - m]
      BY <1>5, <2>1
    <2>3. m + (n - i) = n - 1 /\ m = i - 1
      BY <1>3 DEF m
    <2>4. ASSUME NEW j \in 1..n-1, j < i
          PROVE  mounted'[j] = mounted[j]
      <3>1. j \in 1..m + (n - i) /\ j <= m /\ j \in 1..i-1
        BY <1>3, <2>3, <2>4
      <3>2. front[j] = mounted[j]
        BY <1>4, <3>1
      <3>3. QED BY <2>2, <3>1, <3>2
    <2>5. ASSUME NEW j \in 1..n-1, ~(j < i)
          PROVE  mounted'[j] = mounted[j + 1]
      <3>1. /\ j \in 1..m + (n - i) /\ ~(j <= m)
            /\ j - m \in 1..n-i /\ i + (j - m) = j + 1
        BY <1>3, <2>3, <2>5
      <3>2. back[j - m] = mounted[i + (j - m)]
        BY <1>4, <3>1
      <3>3. QED BY <2>2, <3>1, <3>2
    <2>6. QED BY <2>2, <2>3, <2>4, <2>5
  <1>7. \A j, k \in DOMAIN mounted' : mounted'[j] = mounted'[k] => j = k
    BY <1>3, <1>6
  <1>8. DiskTypeOK'
    BY <1>2, <1>6, <1>7 DEF DiskInv, DiskTypeOK
  <1>9. QED BY <1>2, <1>8, DiskSame

LEMMA DiskStarts == Init => DiskInv
  <1> SUFFICES ASSUME Init PROVE DiskInv
    OBVIOUS
  <1>1. PICK D \in SUBSET Dirs : mounted = SetToSeq(D)
    BY DEF Init
  <1>2. /\ mounted \in Seq(Dirs)
        /\ \A i, j \in DOMAIN mounted : mounted[i] = mounted[j] => i = j
    <2> DEFINE n == Cardinality(D)
    <2>1. n \in Nat /\ ExistsBijection(1..n, D)
      BY DisksAssumption, FS_Subset, FS_CardinalityType
    <2>2. \E f \in [1..n -> D] : IsInjective(f)
      BY <2>1 DEF ExistsBijection, Bijection, Injection
    <2>3. mounted \in [1..n -> D] /\ IsInjective(mounted)
      BY <1>1, <2>2 DEF SetToSeq
    <2> HIDE DEF n
    <2>4. QED BY <2>1, <2>3 DEF IsInjective
  <1>3. DiskTypeOK /\ ReadTogether
    BY <1>2, DisksAssumption DEF Init, DiskTypeOK, ReadTogether
  <1>4. Behind = {} /\ \A dir \in Dirs : Due[dir] = 0 /\ Left[dir] = 0
    BY DEF Init, Behind, Due, Left
  <1>5. SumFunctionOnSet(Due, Dirs) = 0 /\ SumFunctionOnSet(Left, Dirs) = 0
    <2>1. /\ {} \in SUBSET Dirs
          /\ \A dir \in Dirs : Due[dir] \in Int /\ Left[dir] \in Int
      BY <1>4
    <2>2. /\ SumFunctionOnSet(Due, Dirs) = SumFunctionOnSet(Due, {})
          /\ SumFunctionOnSet(Left, Dirs) = SumFunctionOnSet(Left, {})
      BY <1>4, <2>1, DisksAssumption, SumOfSupport
    <2>3. QED BY <2>2, SumEmpty
  <1>6. QED BY <1>3, <1>4, <1>5, LeftSum, FS_EmptySet DEF Init, DiskInv

LEMMA DiskInvariant == Spec => []DiskInv
  <1>1. DiskInv /\ UNCHANGED diskVars => DiskInv'
    <2>1. DiskInv /\ UNCHANGED diskVars => DiskTypeOK'
      BY DEF diskVars, DiskInv, DiskTypeOK
    <2>2. QED BY <2>1, DiskSame DEF diskVars
  <1>2. DiskInv /\ [Next]_diskVars => DiskInv'
    BY <1>1, TransferKeeps, MountKeeps, UnmountKeeps, SwapKeeps, ReadingKeeps,
       ThrowKeeps DEF Next
  <1>3. QED BY <1>2, DiskStarts, PTL DEF Spec

\* The results never add up to more than the disks have moved and the misreadings
\* were off.
THEOREM ReportsAtMostOnce == Spec => []NeverOverReports
  <1>1. DiskInv => NeverOverReports
    <2> SUFFICES ASSUME DiskInv PROVE owed + misled >= 0
      BY DEF NeverOverReports
    <2>1. \A dir \in Dirs : Due[dir] \in Nat
      BY TermsType DEF DiskInv, TermsOK
    <2>2. SumFunctionOnSet(Due, Dirs) \in Nat
      BY <2>1, DisksAssumption, SumNotNegative
    <2>3. QED BY <2>2 DEF DiskInv, DiskTypeOK
  <1>2. QED BY <1>1, DiskInvariant, PTL

\* While no call throws and no disk is exchanged, what is reported of a disk is its
\* last reading less its first.
THEOREM ReportsAll == Spec => []NothingLost
  <1>1. DiskInv => NothingLost
    BY DEF DiskInv
  <1>2. QED BY <1>1, DiskInvariant, PTL

\* A negative result needs an exchanged disk or a misreading, one each.
THEOREM NegativesPaidFor == Spec => []OneNegativePerCause
  <1>1. DiskInv => OneNegativePerCause
    BY BehindFinite DEF DiskInv, DiskTypeOK, OneNegativePerCause
  <1>2. QED BY <1>1, DiskInvariant, PTL

-----------------------------------------------------------------------------
(* The space bar. *)

\* The totals after 0, 1, ... n disks of the list.
Totals(t, amount, list, n) ==
    t = [m \in 0..n |-> IF m = 0 THEN 0
                        ELSE t[m - 1] + (t[m - 1] + amount[list[m]])]

LEMMA TotalsExist ==
    ASSUME NEW amount, NEW list, NEW n \in Nat
    PROVE  \E t : Totals(t, amount, list, n)
  <1> DEFINE Bad == {m \in Nat : ~\E t : Totals(t, amount, list, m)}
  <1> SUFFICES ASSUME Bad # {} PROVE FALSE
    OBVIOUS
  <1>1. PICK m \in Bad : \A k \in Bad : m <= k
    <2> HIDE DEF Bad
    <2>1. Bad \in SUBSET Nat
      BY DEF Bad
    <2>2. QED BY <2>1, SmallestNumber
  <1>2. m \in Nat /\ ~\E t : Totals(t, amount, list, m)
    BY <1>1
  <1>3. m # 0
    <2>1. ASSUME m = 0 PROVE \E t : Totals(t, amount, list, m)
      <3> DEFINE t == [k \in 0..m |-> 0]
      <3>1. t = [k \in 0..m |-> IF k = 0 THEN 0
                                ELSE t[k - 1] + (t[k - 1] + amount[list[k]])]
        BY <2>1
      <3>2. QED BY <3>1 DEF Totals
    <2>2. QED BY <1>2, <2>1
  <1>4. m - 1 \in Nat /\ m - 1 \notin Bad
    BY <1>1, <1>2, <1>3
  <1>5. PICK t : Totals(t, amount, list, m - 1)
    BY <1>4
  <1> DEFINE u == [k \in 0..m |-> IF k = m THEN t[m - 1] + (t[m - 1] + amount[list[m]])
                                  ELSE t[k]]
  <1>6. ASSUME NEW k \in 0..m
        PROVE  u[k] = IF k = 0 THEN 0 ELSE u[k - 1] + (u[k - 1] + amount[list[k]])
    <2>1. CASE k = m
      <3>1. m - 1 \in 0..m /\ m - 1 # m
        BY <1>2, <1>3
      <3>2. QED BY <1>3, <2>1, <3>1
    <2>2. CASE k # m
      <3>1. k \in 0..m-1 /\ (k # 0 => k - 1 \in 0..m /\ k - 1 # m)
        BY <1>2, <2>2
      <3>2. t[k] = IF k = 0 THEN 0 ELSE t[k - 1] + (t[k - 1] + amount[list[k]])
        BY <1>5, <3>1 DEF Totals
      <3>3. QED BY <2>2, <3>1, <3>2
    <2>3. QED BY <2>1, <2>2
  <1>7. Totals(u, amount, list, m)
    <2>1. u = [k \in 0..m |-> u[k]]
      OBVIOUS
    <2> HIDE DEF u
    <2>2. QED BY <1>6, <2>1 DEF Totals
  <1>8. QED BY <1>2, <1>7

LEMMA DoubledTotals ==
    ASSUME NEW amount, NEW list, Len(list) \in Nat
    PROVE  \E t : /\ Doubled(amount, list) = t[Len(list)]
                  /\ t[0] = 0
                  /\ \A m \in 1..Len(list) :
                        t[m] = t[m - 1] + (t[m - 1] + amount[list[m]])
  <1> DEFINE t == CHOOSE t : Totals(t, amount, list, Len(list))
  <1>1. Doubled(amount, list) = t[Len(list)]
    BY DEF Doubled, Totals
  <1>2. Totals(t, amount, list, Len(list))
    BY TotalsExist
  <1> HIDE DEF t
  <1>3. t[0] = 0 /\ \A m \in 1..Len(list) :
                       t[m] = t[m - 1] + (t[m - 1] + amount[list[m]])
    BY <1>2 DEF Totals
  <1>4. QED BY <1>1, <1>3

LEMMA DoubledNat ==
    ASSUME NEW list \in Seq(Dirs), NEW v \in [Dirs -> Nat]
    PROVE  Doubled(v, list) \in Nat
  <1> DEFINE n == Len(list)
  <1>1. n \in Nat /\ \A i \in 1..n : v[list[i]] \in Nat
    OBVIOUS
  <1>2. PICK t : /\ Doubled(v, list) = t[n] /\ t[0] = 0
                 /\ \A m \in 1..n : t[m] = t[m - 1] + (t[m - 1] + v[list[m]])
    BY <1>1, DoubledTotals
  <1> DEFINE Bad == {m \in 0..n : t[m] \notin Nat}
  <1>3. ASSUME Bad # {} PROVE FALSE
    <2>1. PICK m \in Bad : \A k \in Bad : m <= k
      <3> HIDE DEF Bad
      <3>1. Bad \in SUBSET Nat
        BY <1>1 DEF Bad
      <3>2. QED BY <1>3, <3>1, SmallestNumber
    <2>2. m # 0
      BY <1>2, <2>1
    <2>3. m - 1 \in 0..n /\ m - 1 \notin Bad /\ m \in 1..n
      BY <1>1, <2>1, <2>2
    <2>4. t[m - 1] \in Nat /\ t[m] \notin Nat
      BY <2>1, <2>3
    <2>5. QED BY <1>1, <1>2, <2>3, <2>4
  <1>4. QED BY <1>1, <1>2, <1>3

\* Induction up to n, over a set of numbers.
LEMMA UpTo ==
    ASSUME NEW n \in Nat, NEW Good, 0 \in Good,
           \A m \in 1..n : m - 1 \in Good => m \in Good
    PROVE  n \in Good
  <1> DEFINE Bad == {m \in 0..n : m \notin Good}
  <1>1. ASSUME Bad # {} PROVE FALSE
    <2>1. PICK m \in Bad : \A k \in Bad : m <= k
      <3> HIDE DEF Bad
      <3>1. Bad \in SUBSET Nat
        BY DEF Bad
      <3>2. QED BY <1>1, <3>1, SmallestNumber
    <2>2. m \in 1..n /\ m - 1 \in 0..n /\ m - 1 \notin Bad
      BY <2>1
    <2>3. QED BY <2>1, <2>2
  <1>2. QED BY <1>1

\* t doubles at every step and takes in x.
Doubles(t, x, n) == t[0] = 0 /\ \A m \in 1..n : t[m] = t[m - 1] + (t[m - 1] + x[m])

LEMMA DoubledOverList ==
    ASSUME NEW list \in Seq(Dirs), NEW v
    PROVE  \E t : /\ Doubled(v, list) = t[Len(list)]
                  /\ Doubles(t, [i \in 1..Len(list) |-> v[list[i]]], Len(list))
  <1>1. Len(list) \in Nat
    OBVIOUS
  <1>2. QED BY <1>1, DoubledTotals DEF Doubles

Above(x, y, n) == \A m \in 1..n : x[m] \in Nat /\ y[m] \in Nat /\ x[m] > y[m]

LEMMA DoublesInOrder ==
    ASSUME NEW n \in Nat \ {0}, NEW x, NEW y, NEW t, NEW u, Above(x, y, n),
           Doubles(t, x, n), Doubles(u, y, n)
    PROVE  t[n] > u[n]
  <1> DEFINE Good == {m \in 0..n : /\ t[m] \in Nat /\ u[m] \in Nat
                                   /\ t[m] >= u[m] /\ (m # 0 => t[m] > u[m])}
  <1>1. 0 \in Good
    BY DEF Doubles
  <1>2. ASSUME NEW m \in 1..n, m - 1 \in Good PROVE m \in Good
    <2>1. t[m - 1] \in Nat /\ u[m - 1] \in Nat /\ t[m - 1] >= u[m - 1]
      BY <1>2
    <2>2. x[m] \in Nat /\ y[m] \in Nat /\ x[m] > y[m]
      BY DEF Above
    <2>3. t[m] = t[m - 1] + (t[m - 1] + x[m]) /\ u[m] = u[m - 1] + (u[m - 1] + y[m])
      BY DEF Doubles
    <2>4. t[m] \in Nat /\ u[m] \in Nat /\ t[m] > u[m]
      BY <2>1, <2>2, <2>3
    <2>5. QED BY <2>4
  <1>3. n \in Good
    <2> HIDE DEF Good
    <2>1. QED BY <1>1, <1>2, UpTo
  <1>4. QED BY <1>3

\* Doubling keeps the order of two quantities that all disks agree on.
LEMMA DoubledInOrder ==
    ASSUME NEW list \in Seq(Dirs), Len(list) > 0,
           NEW v \in [Dirs -> Nat], NEW w \in [Dirs -> Nat],
           Above([i \in 1..Len(list) |-> v[list[i]]],
                 [i \in 1..Len(list) |-> w[list[i]]], Len(list))
    PROVE  Doubled(v, list) > Doubled(w, list)
  <1> DEFINE n == Len(list)
             x == [i \in 1..Len(list) |-> v[list[i]]]
             y == [i \in 1..Len(list) |-> w[list[i]]]
  <1>1. n \in Nat \ {0}
    OBVIOUS
  <1>2. PICK t : Doubled(v, list) = t[n] /\ Doubles(t, x, n)
    BY DoubledOverList
  <1>3. PICK u : Doubled(w, list) = u[n] /\ Doubles(u, y, n)
    BY DoubledOverList
  <1>4. Above(x, y, n)
    OBVIOUS
  <1> HIDE DEF n, x, y
  <1>5. t[n] > u[n]
    BY <1>1, <1>2, <1>3, <1>4, DoublesInOrder
  <1>6. QED BY <1>2, <1>3, <1>5

\* f passes through a doubling.
Passes(f) ==
    f[0] = 0 /\ \A x, y \in Nat : f[x + (x + y)] = f[x] + (f[x] + f[y])

Mapped(f, x, y, n) == \A m \in 1..n : x[m] \in Nat /\ y[m] = f[x[m]]

LEMMA DoublesMapped ==
    ASSUME NEW n \in Nat, NEW x, NEW y, NEW t, NEW u, NEW f, Passes(f),
           Mapped(f, x, y, n), Doubles(t, x, n), Doubles(u, y, n)
    PROVE  u[n] = f[t[n]]
  <1> DEFINE Good == {m \in 0..n : t[m] \in Nat /\ u[m] = f[t[m]]}
  <1>1. 0 \in Good
    <2>1. t[0] = 0 /\ u[0] = 0
      BY DEF Doubles
    <2>2. f[0] = 0
      BY DEF Passes
    <2>3. t[0] \in Nat /\ u[0] = f[t[0]]
      BY <2>1, <2>2
    <2>4. QED BY <2>3
  <1>2. ASSUME NEW m \in 1..n, m - 1 \in Good PROVE m \in Good
    <2>1. t[m - 1] \in Nat /\ u[m - 1] = f[t[m - 1]]
      BY <1>2
    <2>2. x[m] \in Nat /\ y[m] = f[x[m]]
      BY DEF Mapped
    <2>3. t[m] = t[m - 1] + (t[m - 1] + x[m]) /\ u[m] = u[m - 1] + (u[m - 1] + y[m])
      BY DEF Doubles
    <2>4. f[t[m - 1] + (t[m - 1] + x[m])] = f[t[m - 1]] + (f[t[m - 1]] + f[x[m]])
      BY <2>1, <2>2 DEF Passes
    <2>5. t[m] \in Nat /\ u[m] = f[t[m]]
      BY <2>1, <2>2, <2>3, <2>4
    <2>6. QED BY <2>5
  <1>3. n \in Good
    <2> HIDE DEF Good
    <2>1. QED BY <1>1, <1>2, UpTo
  <1>4. QED BY <1>3

LEMMA Distributes ==
    ASSUME NEW a \in Nat, NEW x \in Nat, NEW y \in Nat
    PROVE  a * (x + (x + y)) = (a * x) + ((a * x) + (a * y))
  OBVIOUS

Scaled(w, a, v) == \A dir \in Dirs : w[dir] = a * v[dir]

\* A factor can be taken out.
LEMMA DoubledScaled ==
    ASSUME NEW list \in Seq(Dirs), NEW v \in [Dirs -> Nat], NEW w, NEW a \in Nat,
           Scaled(w, a, v)
    PROVE  Doubled(w, list) = a * Doubled(v, list)
  <1> DEFINE n == Len(list)
             x == [i \in 1..Len(list) |-> v[list[i]]]
             y == [i \in 1..Len(list) |-> w[list[i]]]
             f == [k \in Nat |-> a * k]
  <1>1. n \in Nat /\ \A i \in 1..n : list[i] \in Dirs
    OBVIOUS
  <1>2. PICK t : Doubled(v, list) = t[n] /\ Doubles(t, x, n)
    BY DoubledOverList
  <1>3. PICK u : Doubled(w, list) = u[n] /\ Doubles(u, y, n)
    BY DoubledOverList
  <1>4. Passes(f)
    <2>1. f[0] = 0
      OBVIOUS
    <2>2. ASSUME NEW k \in Nat, NEW l \in Nat
          PROVE  f[k + (k + l)] = f[k] + (f[k] + f[l])
      <3>1. k + (k + l) \in Nat
        OBVIOUS
      <3>2. f[k + (k + l)] = a * (k + (k + l)) /\ f[k] = a * k /\ f[l] = a * l
        BY <3>1
      <3>3. QED BY <3>2, Distributes
    <2> HIDE DEF f
    <2>3. QED BY <2>1, <2>2 DEF Passes
  <1>5. Mapped(f, x, y, n)
    <2>1. ASSUME NEW m \in 1..n PROVE x[m] \in Nat /\ y[m] = f[x[m]]
      <3>1. list[m] \in Dirs
        BY <1>1
      <3>2. x[m] = v[list[m]] /\ y[m] = w[list[m]] /\ v[list[m]] \in Nat
        BY <3>1
      <3>3. y[m] = a * v[list[m]]
        BY <3>1, <3>2 DEF Scaled
      <3>4. QED BY <3>2, <3>3
    <2> HIDE DEF f, x, y, n
    <2>2. QED BY <2>1 DEF Mapped
  <1>6. f[Doubled(v, list)] = a * Doubled(v, list)
    BY DoubledNat
  <1> HIDE DEF f, x, y, n
  <1>7. u[n] = f[t[n]]
    BY <1>1, <1>2, <1>3, <1>4, <1>5, DoublesMapped
  <1>8. QED BY <1>2, <1>3, <1>6, <1>7

LEMMA ProductNat == \A x, y \in Nat : x * y \in Nat /\ x * y = y * x
  OBVIOUS

\* Quantities that all disks agree on stay in order when they are weighed crosswise.
LEMMA CrosswiseOnce ==
    ASSUME NEW list \in Seq(Dirs), Len(list) > 0,
           NEW v \in [Dirs -> Nat], NEW w \in [Dirs -> Nat]
    PROVE  \E i \in DOMAIN list :
              v[list[i]] * Doubled(w, list) <= Doubled(v, list) * w[list[i]]
  <1> DEFINE x == Doubled(v, list)
             y == Doubled(w, list)
             p == [dir \in Dirs |-> y * v[dir]]
             q == [dir \in Dirs |-> x * w[dir]]
  <1>1. x \in Nat /\ y \in Nat
    BY DoubledNat
  <1>2. Doubled(p, list) = y * Doubled(v, list)
    <2>1. Scaled(p, y, v)
      BY DEF Scaled
    <2> HIDE DEF p, y
    <2>2. QED BY <1>1, <2>1, DoubledScaled
  <1>3. Doubled(q, list) = x * Doubled(w, list)
    <2>1. Scaled(q, x, w)
      BY DEF Scaled
    <2> HIDE DEF q, x
    <2>2. QED BY <1>1, <2>1, DoubledScaled
  <1> HIDE DEF x, y
  <1>4. /\ \A dir \in Dirs : v[dir] \in Nat /\ w[dir] \in Nat
        /\ \A i \in DOMAIN list : list[i] \in Dirs
    OBVIOUS
  <1>5. /\ p \in [Dirs -> Nat] /\ q \in [Dirs -> Nat]
        /\ \A dir \in Dirs : p[dir] = v[dir] * y /\ q[dir] = x * w[dir]
    BY <1>1, <1>4, ProductNat
  <1>6. Doubled(p, list) = Doubled(q, list) /\ Doubled(p, list) \in Nat
    BY <1>1, <1>2, <1>3, ProductNat DEF x, y
  <1> HIDE DEF p, q
  <1>7. PICK i \in DOMAIN list : ~(p[list[i]] > q[list[i]])
    <2>1. ASSUME \A i \in DOMAIN list : p[list[i]] > q[list[i]] PROVE FALSE
      <3>1. Above([i \in 1..Len(list) |-> p[list[i]]],
                  [i \in 1..Len(list) |-> q[list[i]]], Len(list))
        BY <1>4, <1>5, <2>1 DEF Above
      <3>2. Doubled(p, list) > Doubled(q, list)
        BY <1>5, <3>1, DoubledInOrder
      <3>3. QED BY <1>6, <3>2
    <2>2. QED BY <2>1
  <1>8. p[list[i]] <= q[list[i]]
    <2>1. p[list[i]] \in Nat /\ q[list[i]] \in Nat
      BY <1>4, <1>5
    <2>2. QED BY <1>7, <2>1
  <1>9. QED BY <1>4, <1>5, <1>8 DEF x, y

\* However often a mount point comes and goes, the space bar lies between the
\* emptiest and the fullest file system that answers the call, the doubling
\* notwithstanding.
THEOREM SpaceBarBetween == Spec => SpaceBetween
  <1>1. ASSUME DiskInv, GetHddData, mounted # <<>>
        PROVE  /\ \E dir \in heard' :
                     Space[dir].used * result'.total <= result'.used * Space[dir].total
               /\ \E dir \in heard' :
                     result'.used * Space[dir].total <= Space[dir].used * result'.total
    <2>1. PICK usage \in Answers(mounted) :
             /\ ReadDisks(mounted, usage)
             /\ result'.used = TotalUsed(mounted, usage)
             /\ result'.total = TotalTotal(mounted, usage)
      BY <1>1 DEF GetHddData
    <2> DEFINE list == Answering(mounted, usage)
               RU == TotalUsed(mounted, usage)
               RT == TotalTotal(mounted, usage)
    <2>2. Heard(mounted, usage)
      <3>1. Range(mounted) \in SUBSET Dirs
        BY <1>1, MountedFinite DEF DiskInv, Mounted
      <3>2. QED BY <3>1, AnswersHeard
    <2>3. /\ list \in Seq(Dirs) /\ Len(list) > 0
          /\ \A i \in DOMAIN list : list[i] \in heard' /\ list[i] \in Dirs
      <3>1. mounted \in Seq(Dirs) /\ Len(mounted) > 0
        BY <1>1 DEF DiskInv, DiskTypeOK
      <3>2. \A i \in 1..Len(mounted) :
               usage[mounted[i]].of \in Dirs /\ usage[mounted[i]].of \in heard'
        BY <2>1, <2>2, <3>1 DEF Heard, ReadDisks, Range
      <3>3. list = [i \in 1..Len(mounted) |-> usage[mounted[i]].of]
        BY <3>1 DEF Answering
      <3> HIDE DEF list
      <3>4. QED BY <3>1, <3>2, <3>3
    <2>4. /\ Used \in [Dirs -> Nat] /\ Total \in [Dirs -> Nat]
          /\ \A dir \in Dirs : Used[dir] = Space[dir].used /\ Total[dir] = Space[dir].total
      BY DisksAssumption DEF Used, Total
    <2>5. RU = Doubled(Used, list) /\ RT = Doubled(Total, list)
      BY DEF TotalUsed, TotalTotal
    <2> HIDE DEF RU, RT, list
    <2>6. PICK i \in DOMAIN list : Used[list[i]] * RT <= RU * Total[list[i]]
      BY <2>3, <2>4, <2>5, CrosswiseOnce
    <2>7. PICK j \in DOMAIN list : Total[list[j]] * RU <= RT * Used[list[j]]
      BY <2>3, <2>4, <2>5, CrosswiseOnce
    <2>8. RU \in Nat /\ RT \in Nat
      BY <2>3, <2>4, <2>5, DoubledNat
    <2>9. /\ list[i] \in heard' /\ list[i] \in Dirs
          /\ list[j] \in heard' /\ list[j] \in Dirs
      BY <2>3
    <2>10. /\ Total[list[j]] * RU = RU * Space[list[j]].total
           /\ RT * Used[list[j]] = Space[list[j]].used * RT
      BY <2>4, <2>8, <2>9, ProductNat
    <2>11. result'.used = RU /\ result'.total = RT
      BY <2>1 DEF RU, RT
    <2>12. QED BY <2>4, <2>6, <2>7, <2>9, <2>10, <2>11
  <1>2. DiskInv /\ [Next]_diskVars =>
          [GetHddData /\ mounted # <<>> =>
              /\ \E dir \in heard' :
                    Space[dir].used * result'.total <= result'.used * Space[dir].total
              /\ \E dir \in heard' :
                    result'.used * Space[dir].total <= Space[dir].used * result'.total
          ]_diskVars
    BY <1>1
  <1>3. QED BY <1>2, DiskInvariant, PTL DEF Spec, SpaceBetween
====
