------------------------- MODULE SigarParts_proofs --------------------------
(***************************************************************************)
(* The parts of the library that keep a state in a handle. The cache, for  *)
(* any keys, values and initial size: a table never loses a cell,          *)
(* destroying it frees all that was allocated for it, and it is a          *)
(* dictionary.  The record of the last process, for any pids, clock,       *)
(* expiry, number of cores and platform: it is never ahead of the process, *)
(* an answer mixes processes only after a failed read, and the totals      *)
(* behind the CPU percentage go back only with their process.  The walks   *)
(* over the connections, for any sockets and platform: the cache of        *)
(* listening ports is what the walks met, no walk changes its mind about a *)
(* port, and the Solaris stream is left half read by one call only. The    *)
(* queries, for any processes, conditions and platform: a search finds     *)
(* what all the conditions of its query hold for.                          *)
(***************************************************************************)
EXTENDS SigarCache, SigarProcess, SigarConnections, SigarPtql, SharedLemmas

(***************************************************************************)
(* The cache.                                                              *)
(***************************************************************************)

LEMMA BucketRange ==
    ASSUME NEW k \in Nat, NEW n \in Nat \ {0}
    PROVE  Bucket(k, n) \in 0..n-1
  BY DEF Bucket

\* A table of n buckets in which every one of the cells 1..m sits in its bucket.
Filed(n, m, ch, ce) ==
    /\ ch \in [0..n-1 -> SUBSET (1..m)]
    /\ \A b \in 0..n-1 : \A e \in ch[b] : Bucket(ce[e].id, n) = b
    /\ \A e \in 1..m : e \in ch[Bucket(ce[e].id, n)]

\* The buckets together hold all cells: what the growing table hands over.
LEMMA AllCells ==
    ASSUME CacheIInv
    PROVE  UNION {chains[c] : c \in 0..size-1} = 1..count
  <1>1. \A e \in 1..count : e \in UNION {chains[c] : c \in 0..size-1}
    <2>1. SUFFICES ASSUME NEW e \in 1..count
                   PROVE  e \in UNION {chains[c] : c \in 0..size-1}
      OBVIOUS
    <2>2. Bucket(cells[e].id, size) \in 0..size-1
      <3>1. cells[e].id \in Nat /\ size \in Nat \ {0}
        BY CacheAssumption DEF CacheIInv, CacheTypeOK, Cell
      <3>2. QED BY <3>1, BucketRange
    <2>3. e \in chains[Bucket(cells[e].id, size)]
      BY DEF CacheIInv, AllChained
    <2>4. QED BY <2>2, <2>3
  <1>2. \A c \in 0..size-1 : chains[c] \subseteq 1..count
    BY DEF CacheIInv, CacheTypeOK
  <1>3. QED BY <1>1, <1>2

\* A grown table has every cell in its new bucket.
LEMMA RehashedFiled ==
    ASSUME CacheIInv
    PROVE  GrownSize \in Nat \ {0} /\ Filed(GrownSize, count, Rehashed, cells)
  <1>1. GrownSize \in Nat \ {0}
    BY DEF GrownSize, CacheIInv, CacheTypeOK
  <1>2. Rehashed = [b \in 0..GrownSize-1 |->
                      {e \in 1..count : Bucket(cells[e].id, GrownSize) = b}]
    BY AllCells DEF Rehashed
  <1>3. \A e \in 1..count : Bucket(cells[e].id, GrownSize) \in 0..GrownSize-1
    <2>1. \A e \in 1..count : cells[e].id \in Nat
      BY CacheAssumption DEF CacheIInv, CacheTypeOK, Cell
    <2>2. QED BY <1>1, <2>1, BucketRange
  <1>4. QED BY <1>1, <1>2, <1>3 DEF Filed

\* The buckets and cells of an empty table have their types.
LEMMA EmptyTyped ==
    /\ EmptyChains(InitialSize) \in [0..InitialSize-1 -> SUBSET (1..0)]
    /\ NoCells \in [1..0 -> Cell]
  <1>1. EmptyChains(InitialSize) \in [0..InitialSize-1 -> SUBSET (1..0)]
    BY DEF EmptyChains
  <1>2. \A e \in 1..0 : FALSE
    OBVIOUS
  <1>3. NoCells \in [1..0 -> Cell]
    BY <1>2, Zenon DEF NoCells
  <1>4. QED BY <1>1, <1>3

LEMMA CacheStarts == CacheInit => CacheIInv
  <1> SUFFICES ASSUME CacheInit PROVE CacheIInv
    OBVIOUS
  <1>1. CacheTypeOK
    BY EmptyTyped, CacheAssumption DEF CacheInit, CacheTypeOK
  <1>2. InItsBucket
    BY DEF CacheInit, InItsBucket, EmptyChains
  <1>3. AllChained /\ OneCellPerKey /\ HeapIsTable
    BY DEF CacheInit, AllChained, OneCellPerKey, HeapIsTable
  <1>4. QED BY <1>1, <1>2, <1>3 DEF CacheIInv

\* The entry of a new key keeps a filed table filed.
LEMMA MissKeeps ==
    ASSUME CacheIInv, NEW k \in CacheKeys, Miss(k)
    PROVE  CacheIInv'
  <1>1. /\ k \in Nat /\ count \in Nat
        /\ cells \in [1..count -> Cell] /\ chains \in [0..size-1 -> SUBSET (1..count)]
        /\ size \in Nat \ {0}
    BY CacheAssumption DEF CacheIInv, CacheTypeOK
  <1>1a. PICK n \in Nat \ {0} : \E ch : /\ Filed(n, count, ch, cells)
                                       /\ size' = n
                                       /\ chains' = AddTo(n, ch, k)
    <2>1. CASE count > size
      <3>1. size' = GrownSize /\ chains' = AddTo(GrownSize, Rehashed, k)
        BY <2>1 DEF Miss
      <3>2. QED BY <3>1, RehashedFiled
    <2>2. CASE ~(count > size)
      <3>1. size' = size /\ chains' = AddTo(size, chains, k)
        BY <2>2 DEF Miss
      <3>2. Filed(size, count, chains, cells)
        BY <1>1 DEF Filed, CacheIInv, InItsBucket, AllChained
      <3>3. QED BY <1>1, <3>1, <3>2
    <2>3. QED BY <2>1, <2>2
  <1>2. PICK ch : /\ n \in Nat \ {0}
                  /\ Filed(n, count, ch, cells)
                  /\ size' = n
                  /\ chains' = AddTo(n, ch, k)
    BY <1>1a
  <1>3. Bucket(k, n) \in 0..n-1
    BY <1>1, BucketRange
  <1>4. /\ count' = count + 1 /\ heap' = heap \cup {count + 1}
        /\ cells' = [e \in 1..count+1 |->
                       IF e = count + 1 THEN [id |-> k, value |-> NoValue] ELSE cells[e]]
        /\ table /\ table' = table /\ answer' = NoValue
    BY DEF Miss
  <1>5. chains' = [b \in 0..n-1 |-> IF b = Bucket(k, n) THEN ch[b] \cup {count + 1}
                                                        ELSE ch[b]]
    BY <1>2, <1>3 DEF AddTo, Filed
  <1>6. cells' \in [1..count+1 -> Cell]
    BY <1>1, <1>4 DEF Cell
  <1>7. /\ \A e \in 1..count : cells'[e] = cells[e]
        /\ cells'[count + 1].id = k
    BY <1>1, <1>4
  <1>8. Filed(n, count + 1, chains', cells')
    <2>1. chains' \in [0..n-1 -> SUBSET (1..count+1)]
      BY <1>1, <1>2, <1>5 DEF Filed
    <2>2. ASSUME NEW b \in 0..n-1, NEW e \in chains'[b]
          PROVE  Bucket(cells'[e].id, n) = b
      <3>1. CASE e = count + 1
        <4>1. e \notin ch[b]
          BY <1>1, <1>2, <3>1 DEF Filed
        <4>2. QED BY <1>5, <1>7, <2>2, <3>1, <4>1
      <3>2. CASE e # count + 1
        <4>1. e \in ch[b] /\ e \in 1..count
          BY <1>1, <1>2, <1>5, <2>2, <3>2 DEF Filed
        <4>2. QED BY <1>2, <1>7, <4>1 DEF Filed
      <3>3. QED BY <3>1, <3>2
    <2>3. ASSUME NEW e \in 1..count+1
          PROVE  e \in chains'[Bucket(cells'[e].id, n)]
      <3>1. CASE e = count + 1
        BY <1>3, <1>5, <1>7, <3>1
      <3>2. CASE e # count + 1
        <4>1. e \in 1..count
          BY <1>1, <2>3, <3>2
        <4>2. e \in ch[Bucket(cells[e].id, n)] /\ cells[e].id \in Nat
          BY <1>1, <1>2, <4>1, CacheAssumption DEF Filed, Cell
        <4>3. Bucket(cells[e].id, n) \in 0..n-1
          BY <4>2, BucketRange
        <4>4. QED BY <1>5, <1>7, <4>1, <4>2, <4>3
      <3>3. QED BY <3>1, <3>2
    <2>4. QED BY <2>1, <2>2, <2>3 DEF Filed
  <1>9. InItsBucket' /\ AllChained'
    BY <1>2, <1>4, <1>8 DEF Filed, InItsBucket, AllChained
  <1>10. OneCellPerKey'
    <2>1. ASSUME NEW e \in 1..count PROVE cells[e].id # k
      <3>1. e \in chains[Bucket(cells[e].id, size)]
        BY DEF CacheIInv, AllChained
      <3>2. QED BY <3>1 DEF Miss, CacheFind
    <2>2. QED BY <1>1, <1>4, <1>7, <2>1 DEF OneCellPerKey, CacheIInv
  <1>11. HeapIsTable'
    BY <1>1, <1>4 DEF CacheIInv, HeapIsTable
  <1>12. CacheTypeOK'
    <2>1. heap' \in SUBSET (1..count+1)
      <3>1. heap = 1..count
        BY DEF CacheIInv, HeapIsTable
      <3>2. QED BY <1>1, <1>4, <3>1
    <2>2. chains' \in [0..n-1 -> SUBSET (1..count+1)]
      BY <1>8 DEF Filed
    <2>3. QED BY <1>1, <1>2, <1>4, <1>6, <2>1, <2>2 DEF CacheTypeOK, CacheIInv
  <1>13. QED BY <1>9, <1>10, <1>11, <1>12 DEF CacheIInv

LEMMA DestroyKeeps == CacheIInv /\ CacheDestroy => CacheIInv'
  <1> SUFFICES ASSUME CacheIInv, CacheDestroy PROVE CacheIInv'
    OBVIOUS
  <1>1. heap' = {}
    BY AllCells DEF CacheDestroy, CacheIInv, HeapIsTable
  <1>2. CacheTypeOK'
    BY <1>1, EmptyTyped, CacheAssumption DEF CacheDestroy, CacheTypeOK
  <1>3. InItsBucket'
    BY DEF CacheDestroy, InItsBucket, EmptyChains
  <1>4. AllChained' /\ OneCellPerKey'
    BY DEF CacheDestroy, AllChained, OneCellPerKey
  <1>5. HeapIsTable'
    BY <1>1 DEF CacheDestroy, HeapIsTable
  <1>6. QED BY <1>2, <1>3, <1>4, <1>5 DEF CacheIInv

LEMMA CacheKeeps == CacheIInv /\ [CacheNext]_cacheVars => CacheIInv'
  <1> SUFFICES ASSUME CacheIInv, [CacheNext]_cacheVars PROVE CacheIInv'
    OBVIOUS
  <1>1. CASE CacheNew
    BY <1>1 DEF CacheNew, CacheIInv, CacheTypeOK, InItsBucket, AllChained,
                OneCellPerKey, HeapIsTable
  <1>2. ASSUME NEW k \in CacheKeys, Hit(k) PROVE CacheIInv'
    <2>1. PICK e \in CacheFind(k) : answer' = cells[e].value
      BY <1>2 DEF Hit
    <2>2. answer' \in CacheValues \cup {NoValue}
      <3>1. Bucket(k, size) \in 0..size-1
        BY CacheAssumption, BucketRange DEF CacheIInv, CacheTypeOK
      <3>2. e \in 1..count
        BY <3>1 DEF CacheFind, CacheIInv, CacheTypeOK
      <3>3. QED BY <2>1, <3>2 DEF CacheIInv, CacheTypeOK, Cell
    <2>3. QED BY <1>2, <2>2 DEF Hit, CacheIInv, CacheTypeOK, InItsBucket,
                             AllChained, OneCellPerKey, HeapIsTable
  <1>3. ASSUME NEW k \in CacheKeys, NEW v \in CacheValues, SetValue(k, v)
        PROVE  CacheIInv'
    <2>1. PICK e \in CacheFind(k) : cells' = [cells EXCEPT ![e].value = v]
      BY <1>3 DEF SetValue
    <2>2. /\ cells' \in [1..count -> Cell]
          /\ \A f \in 1..count : cells'[f].id = cells[f].id
      BY <2>1 DEF CacheIInv, CacheTypeOK, Cell
    <2>3. QED BY <1>3, <2>2 DEF SetValue, CacheIInv, CacheTypeOK, InItsBucket,
                             AllChained, OneCellPerKey, HeapIsTable
  <1>4. CASE UNCHANGED cacheVars
    BY <1>4 DEF cacheVars, CacheIInv, CacheTypeOK, InItsBucket, AllChained,
                OneCellPerKey, HeapIsTable
  <1>5. QED BY <1>1, <1>2, <1>3, <1>4, MissKeeps, DestroyKeeps DEF CacheNext

\* The table is well formed after any sequence of calls, across any growth.
THEOREM WellFormed == CacheSpec => []CacheIInv
  BY CacheStarts, CacheKeeps, PTL DEF CacheSpec

\* sigar_cache_destroy frees every entry ever allocated, whatever keys were looked
\* up and however often the table grew.
THEOREM DestroyFreesAll == CacheSpec => []NothingLeaks
  <1>1. CacheIInv => NothingLeaks
    BY DEF CacheIInv, HeapIsTable, NothingLeaks
  <1>2. QED BY <1>1, WellFormed, PTL

(***************************************************************************)
(* The cache implements the dictionary KeyedStore.                         *)
(***************************************************************************)

\* The table seen as a store: its keys are those of the cells, and each has the
\* value of its only cell.
StoreView ==
    /\ Stored = [k \in Reached |-> Stored[k]]
    /\ Reached = {k \in CacheKeys : table /\ \E e \in 1..count : cells[e].id = k}
    /\ \A e \in 1..count : table => Stored[cells[e].id] = cells[e].value

\* A walk meets the cell of the key, if there is one, and nothing else.
LEMMA FindsTheCell ==
    ASSUME CacheIInv, NEW k \in CacheKeys
    PROVE  CacheFind(k) = {e \in 1..count : cells[e].id = k}
  <1>1. Bucket(k, size) \in 0..size-1
    BY BucketRange, CacheAssumption DEF CacheIInv, CacheTypeOK
  <1>2. QED
    BY <1>1 DEF CacheFind, CacheIInv, CacheTypeOK, AllChained

LEMMA ViewHolds == CacheIInv => StoreView
  <1> SUFFICES ASSUME CacheIInv PROVE StoreView
    OBVIOUS
  <1>1. Stored = [k \in Reached |-> Stored[k]]
    BY DEF Stored
  <1>2. Reached = {k \in CacheKeys : table /\ \E e \in 1..count : cells[e].id = k}
    BY FindsTheCell DEF Reached
  <1>3. ASSUME NEW e \in 1..count, table
        PROVE  Stored[cells[e].id] = cells[e].value
    <2>1. cells[e].id \in Reached
      BY <1>2, <1>3 DEF CacheIInv, CacheTypeOK, Cell
    <2>2. CacheFind(cells[e].id) = {e}
      BY <2>1, FindsTheCell DEF Reached, CacheIInv, OneCellPerKey
    <2>3. (CHOOSE d \in CacheFind(cells[e].id) : TRUE) = e
      BY <2>2
    <2>4. QED BY <2>1, <2>3 DEF Stored
  <1>4. QED BY <1>1, <1>2, <1>3 DEF StoreView

LEMMA StoreStarts == CacheInit => Dictionary!Init
  <1> SUFFICES ASSUME CacheInit PROVE Dictionary!Init
    OBVIOUS
  <1>1. StoreView
    BY CacheStarts, ViewHolds
  <1>2. Reached = {}
    BY DEF CacheInit, Reached
  <1>3. Stored = [k \in {} |-> NoValue]
    BY <1>1, <1>2 DEF StoreView
  <1>4. QED BY <1>3 DEF CacheInit, Dictionary!Init

LEMMA HitLooksUp ==
    ASSUME CacheIInv, StoreView, StoreView', NEW k \in CacheKeys, Hit(k)
    PROVE  Dictionary!Lookup(k)
  <1>1. PICK e \in 1..count : cells[e].id = k /\ answer' = cells[e].value
    BY FindsTheCell DEF Hit
  <1>2. table /\ k \in Reached /\ Stored[k] = cells[e].value
    BY <1>1 DEF Hit, StoreView
  <1>3. Stored' = Stored
    BY DEF Hit, Stored, Reached, CacheFind
  <1>4. DOMAIN Stored = Reached
    BY DEF Stored
  <1>5. QED BY <1>1, <1>2, <1>3, <1>4 DEF Dictionary!Lookup

LEMMA MissLooksUp ==
    ASSUME CacheIInv, StoreView, StoreView', NEW k \in CacheKeys, Miss(k)
    PROVE  Dictionary!Lookup(k)
  <1> USE DEF CacheIInv, CacheTypeOK, Cell
  <1>1. /\ table /\ table' /\ count' = count + 1 /\ answer' = NoValue
        /\ cells' = [e \in 1..count+1 |->
                       IF e = count + 1 THEN [id |-> k, value |-> NoValue] ELSE cells[e]]
    BY DEF Miss
  <1>2. \A e \in 1..count : cells[e].id # k /\ cells'[e] = cells[e]
    BY <1>1, FindsTheCell DEF Miss
  <1>3. k \notin Reached
    BY <1>2 DEF StoreView
  <1>4. /\ count + 1 \in 1..count' /\ 1..count' = 1..count \cup {count + 1}
        /\ cells'[count + 1].id = k /\ cells'[count + 1].value = NoValue
    BY <1>1
  <1>5. /\ Stored'[k] = NoValue
        /\ Reached' = Reached \cup {k}
    <2>1. Stored'[cells'[count + 1].id] = cells'[count + 1].value
      BY <1>1, <1>4 DEF StoreView
    <2>2. Reached' = {j \in CacheKeys : \E e \in 1..count' : cells'[e].id = j}
      BY <1>1 DEF StoreView
    <2>3. Reached = {j \in CacheKeys : \E e \in 1..count : cells[e].id = j}
      BY <1>1 DEF StoreView
    <2>4. \A j \in CacheKeys : (\E e \in 1..count' : cells'[e].id = j)
                                <=> j = k \/ \E e \in 1..count : cells[e].id = j
      BY <1>2, <1>4
    <2>5. Reached' = Reached \cup {k}
      BY <2>2, <2>3, <2>4
    <2>6. QED BY <1>4, <2>1, <2>5
  <1>6. ASSUME NEW j \in Reached PROVE Stored'[j] = Stored[j]
    <2>1. PICK e \in 1..count : cells[e].id = j
      BY DEF StoreView
    <2>2. Stored[j] = cells[e].value
      BY <1>1, <2>1 DEF StoreView
    <2>3. Stored'[j] = cells'[e].value
      BY <1>1, <1>2, <2>1 DEF StoreView
    <2>4. QED BY <1>2, <2>2, <2>3
  <1>7. DOMAIN Stored = Reached
    BY DEF Stored
  <1>8. Stored' = [j \in Reached \cup {k} |-> IF j = k THEN NoValue ELSE Stored[j]]
    BY <1>3, <1>5, <1>6 DEF StoreView
  <1>9. QED BY <1>1, <1>3, <1>7, <1>8 DEF Dictionary!Lookup

LEMMA SetPuts ==
    ASSUME CacheIInv, StoreView, StoreView', NEW k \in CacheKeys,
           NEW v \in CacheValues, SetValue(k, v)
    PROVE  Dictionary!Put(k, v)
  <1> USE DEF CacheIInv, CacheTypeOK, Cell
  <1>1. PICK e \in 1..count : /\ cells[e].id = k
                              /\ cells' = [cells EXCEPT ![e].value = v]
    BY FindsTheCell DEF SetValue
  <1>2. table /\ table' /\ UNCHANGED <<count, answer>>
    BY DEF SetValue
  <1>3. k \in Reached
    BY <1>1, <1>2 DEF StoreView
  <1>4. \A d \in 1..count : /\ cells'[d].id = cells[d].id
                            /\ cells'[d].value = IF d = e THEN v ELSE cells[d].value
    BY <1>1
  <1>5. Reached' = Reached
    BY <1>2, <1>4 DEF StoreView
  <1>6. Stored'[k] = v
    BY <1>1, <1>2, <1>4 DEF StoreView
  <1>7. ASSUME NEW j \in Reached, j # k PROVE Stored'[j] = Stored[j]
    <2>1. PICK d \in 1..count : cells[d].id = j
      BY DEF StoreView
    <2>2. Stored[j] = cells[d].value
      BY <1>2, <2>1 DEF StoreView
    <2>3. Stored'[j] = cells'[d].value
      BY <1>2, <1>4, <2>1 DEF StoreView
    <2>4. d # e
      BY <1>1, <1>7, <2>1
    <2>5. QED BY <1>4, <2>2, <2>3, <2>4
  <1>8. DOMAIN Stored = Reached
    BY DEF Stored
  <1>9. Stored' = [Stored EXCEPT ![k] = v]
    BY <1>3, <1>5, <1>6, <1>7, <1>8 DEF StoreView
  <1>10. QED BY <1>2, <1>3, <1>8, <1>9 DEF Dictionary!Put

\* Every step of the table is a step of the store, or none.
LEMMA StoreStep ==
    ASSUME CacheIInv, StoreView, StoreView', [CacheNext]_cacheVars
    PROVE  [Dictionary!Next]_<<Stored, answer>>
  <1>1. ASSUME NEW k \in CacheKeys, Hit(k) \/ Miss(k) PROVE Dictionary!Next
    BY <1>1, HitLooksUp, MissLooksUp DEF Dictionary!Next
  <1>2. ASSUME NEW k \in CacheKeys, NEW v \in CacheValues, SetValue(k, v)
        PROVE  Dictionary!Next
    BY <1>2, SetPuts DEF Dictionary!Next
  <1>3. CASE CacheDestroy
    <2>1. Reached' = {}
      BY <1>3 DEF CacheDestroy, Reached
    <2>2. Stored' = [k \in {} |-> NoValue]
      BY <2>1 DEF StoreView
    <2>3. QED BY <1>3, <2>2 DEF CacheDestroy, Dictionary!Next, Dictionary!Drop
  <1>4. CASE CacheNew
    <2>1. Reached = {} /\ Reached' = {}
      BY <1>4 DEF CacheNew, StoreView, CacheIInv, HeapIsTable
    <2>2. Stored' = Stored
      BY <2>1 DEF StoreView
    <2>3. QED BY <1>4, <2>2 DEF CacheNew
  <1>5. CASE UNCHANGED cacheVars
    <2>1. Stored' = Stored
      BY <1>5 DEF cacheVars, Stored, Reached, CacheFind
    <2>2. QED BY <1>5, <2>1 DEF cacheVars
  <1>6. QED BY <1>1, <1>2, <1>3, <1>4, <1>5 DEF CacheNext

\* The hash table implements the store of one value per key: whatever the
\* growth of the table does to the chains, an entry is found again with the value
\* that was put there, and only destroying the table forgets it.
THEOREM ImplementsStore == CacheSpec => IsDictionary
  <1>1. CacheSpec => []CacheIInv
    BY WellFormed
  <1>2. QED
    BY <1>1, StoreStarts, ViewHolds, StoreStep, PTL
       DEF CacheSpec, IsDictionary, Dictionary!Spec

(***************************************************************************)
(* The record of the last process.                                         *)
(***************************************************************************)

\* The records a call can leave: the one there was, the one noted for p by a
\* read that failed, one whose pid was struck out, and p as it is now.
Noted(p) == [pinfo EXCEPT !.pid = p, !.mtime = Seconds, !.failed = TRUE]
Struck == [pinfo EXCEPT !.pid = NoPid]
Now(p) == [pid |-> p, mtime |-> Seconds, owner |-> p, proc |-> procs[p],
           failed |-> FALSE]
Kept(p) == {pinfo, Noted(p), Struck}

\* An outcome leaves such a record, and answers from one that is not failed
\* only for the process asked for, and while the record is young.
Sound(o, p) ==
    /\ o.rec \in Kept(p) \/ (o.rec = Now(p) /\ procs[p].alive)
    /\ o.ans.op = "get" /\ o.ans.pid = p
    /\ o.ans.ok /\ o.ans.used
         => o.rec.failed \/ (o.rec.owner = p /\ Seconds - o.rec.mtime < Expire)

\* An outcome that answers with the process itself, or with a record that is
\* young or was just read.
SeenLive(o, p) == o.ans.ok => o.ans.live /\ procs[p].alive
SeenRecord(o, p) ==
    o.ans.ok => ~o.ans.live /\ (o.rec = pinfo \/ (o.rec = Now(p) /\ procs[p].alive))

LEMMA SecondsType == ASSUME ProcessTypeOK PROVE Seconds \in Int
  BY ProcessAssumption DEF ProcessTypeOK, Seconds

LEMMA RecordRead ==
    ASSUME ProcessTypeOK, RecordOfOwner, NEW p \in Pids,
           NEW r \in {pinfo, Struck}, NEW got \in Readable(p)
    PROVE  /\ ReadRecord(r, p, got) \in Kept(p)
              \/ (ReadRecord(r, p, got) = Now(p) /\ procs[p].alive)
           /\ Fresh(r, p) => r = pinfo /\ ReadRecord(r, p, got) = pinfo
           /\ ~Fresh(r, p) /\ got => ReadRecord(r, p, got) = Now(p) /\ procs[p].alive
           /\ \/ ReadRecord(r, p, got).failed
              \/ /\ ReadRecord(r, p, got).owner = p
                 /\ Seconds - ReadRecord(r, p, got).mtime < Expire
  <1>1. p # NoPid /\ pinfo \in Record /\ Struck \in Record /\ Expire \in Nat \ {0}
    BY ProcessAssumption DEF NoPid, ProcessTypeOK, Record, Struck
  <1>2. Seconds \in Int
    BY SecondsType
  <1>3. got => procs[p].alive
    BY DEF Readable
  <1>4. CASE Fresh(r, p)
    <2>1. r.pid = p
      BY <1>4 DEF Fresh
    <2>2. r = pinfo
      BY <1>1, <2>1 DEF Struck, Record
    <2>3. ReadRecord(r, p, got) = pinfo
      BY <1>4, <2>2 DEF ReadRecord
    <2>4. pinfo.failed \/ pinfo.owner = p
      BY <1>1, <2>1, <2>2 DEF RecordOfOwner
    <2>5. Seconds - pinfo.mtime < Expire
      BY <1>4, <2>2 DEF Fresh
    <2>6. QED BY <1>4, <2>2, <2>3, <2>4, <2>5 DEF Kept
  <1>5. CASE ~Fresh(r, p) /\ got
    <2>1. ReadRecord(r, p, got) = Now(p)
      BY <1>5 DEF ReadRecord, Now
    <2>2. Now(p).owner = p /\ Seconds - Now(p).mtime < Expire
      BY <1>1, <1>2 DEF Now
    <2>3. QED BY <1>3, <1>5, <2>1, <2>2
  <1>6. CASE ~Fresh(r, p) /\ ~got
    <2>1. ReadRecord(r, p, got) = [r EXCEPT !.pid = p, !.mtime = Seconds, !.failed = TRUE]
      BY <1>6 DEF ReadRecord
    <2>2. ReadRecord(r, p, got) = Noted(p)
      BY <1>1, <2>1 DEF Noted, Struck, Record
    <2>3. Noted(p).failed
      BY <1>1 DEF Noted, Record
    <2>4. QED BY <1>6, <2>2, <2>3 DEF Kept
  <1>7. QED BY <1>4, <1>5, <1>6

\* The outcomes of every platform are made in one of these ways.
Outcomes(p) ==
    UNION {FromRecord(p, pinfo), FromRecord(p, Struck), FromBoth(p, TRUE),
           FromBoth(p, FALSE), FromProcess(p), LinuxMem(p),
           {Fails(p, pinfo), Fails(p, Struck)}}

LEMMA FromRecordSound ==
    ASSUME ProcessTypeOK, RecordOfOwner, NEW p \in Pids,
           NEW r \in {pinfo, Struck}, NEW o \in FromRecord(p, r)
    PROVE  Sound(o, p) /\ SeenRecord(o, p)
  <1>1. PICK got \in Readable(p) :
          o = IF Fresh(r, p) \/ got THEN Answers(p, ReadRecord(r, p, got), TRUE, FALSE)
                                    ELSE Fails(p, ReadRecord(r, p, got))
    BY DEF FromRecord
  <1>2. CASE Fresh(r, p) \/ got
    <2>1. o = Answers(p, ReadRecord(r, p, got), TRUE, FALSE)
      BY <1>1, <1>2
    <2>2. /\ o.rec = ReadRecord(r, p, got) /\ o.ans.op = "get" /\ o.ans.pid = p
          /\ o.ans.live = FALSE
      BY <2>1 DEF Answers
    <2>3. QED BY <1>2, <2>2, RecordRead DEF Sound, SeenRecord
  <1>3. CASE ~(Fresh(r, p) \/ got)
    <2>1. o = Fails(p, ReadRecord(r, p, got))
      BY <1>1, <1>3
    <2>2. /\ o.rec = ReadRecord(r, p, got) /\ o.ans.op = "get" /\ o.ans.pid = p
          /\ o.ans.ok = FALSE
      BY <2>1 DEF Fails
    <2>3. QED BY <2>2, RecordRead DEF Sound, SeenRecord
  <1>4. QED BY <1>2, <1>3

LEMMA FromBothSound ==
    ASSUME ProcessTypeOK, RecordOfOwner, NEW p \in Pids, NEW needed \in BOOLEAN,
           NEW o \in FromBoth(p, needed)
    PROVE  Sound(o, p) /\ (needed => SeenLive(o, p))
  <1>1. PICK got \in Readable(p), live \in Readable(p) :
          o = IF (Fresh(pinfo, p) \/ got) /\ (needed => live)
              THEN Answers(p, ReadRecord(pinfo, p, got), TRUE, live)
              ELSE Fails(p, ReadRecord(pinfo, p, got))
    BY DEF FromBoth
  <1>2. CASE (Fresh(pinfo, p) \/ got) /\ (needed => live)
    <2>1. o = Answers(p, ReadRecord(pinfo, p, got), TRUE, live)
      BY <1>1, <1>2
    <2>2. /\ o.rec = ReadRecord(pinfo, p, got) /\ o.ans.op = "get" /\ o.ans.pid = p
          /\ o.ans.live = live
      BY <2>1 DEF Answers
    <2>3. live => procs[p].alive
      BY DEF Readable
    <2>4. Sound(o, p)
      BY <1>2, <2>2, RecordRead DEF Sound
    <2>5. needed => SeenLive(o, p)
      BY <1>2, <2>2, <2>3 DEF SeenLive
    <2>6. QED BY <2>4, <2>5
  <1>3. CASE ~((Fresh(pinfo, p) \/ got) /\ (needed => live))
    <2>1. o = Fails(p, ReadRecord(pinfo, p, got))
      BY <1>1, <1>3
    <2>2. /\ o.rec = ReadRecord(pinfo, p, got) /\ o.ans.op = "get" /\ o.ans.pid = p
          /\ o.ans.ok = FALSE
      BY <2>1 DEF Fails
    <2>3. QED BY <2>2, RecordRead DEF Sound, SeenLive
  <1>4. QED BY <1>2, <1>3

LEMMA FromProcessSound ==
    ASSUME ProcessTypeOK, RecordOfOwner, NEW p \in Pids, NEW o \in FromProcess(p)
    PROVE  Sound(o, p) /\ SeenLive(o, p)
  <1>1. PICK live \in Readable(p) :
          o = IF live THEN Answers(p, pinfo, FALSE, TRUE) ELSE Fails(p, pinfo)
    BY DEF FromProcess
  <1>2. /\ o.rec = pinfo /\ o.ans.op = "get" /\ o.ans.pid = p
        /\ o.ans.ok => live /\ ~o.ans.used /\ o.ans.live
    BY <1>1 DEF Answers, Fails
  <1>3. QED BY <1>2 DEF Sound, SeenLive, Kept, Readable

LEMMA LinuxMemSound ==
    ASSUME ProcessTypeOK, RecordOfOwner, NEW p \in Pids, NEW o \in LinuxMem(p)
    PROVE  Sound(o, p)
  <1>1. PICK got \in Readable(p), live \in Readable(p) :
          o = IF live THEN Answers(p, ReadRecord(pinfo, p, got), TRUE, TRUE)
                      ELSE Fails(p, ReadRecord(pinfo, p, got))
    BY DEF LinuxMem
  <1>2. o.rec = ReadRecord(pinfo, p, got) /\ o.ans.op = "get" /\ o.ans.pid = p
    BY <1>1 DEF Answers, Fails
  <1>3. QED BY <1>2, RecordRead DEF Sound

LEMMA OutcomesSound ==
    ASSUME ProcessTypeOK, RecordOfOwner, NEW p \in Pids, NEW o \in Outcomes(p)
    PROVE  Sound(o, p)
  <1>1. CASE o \in {Fails(p, pinfo), Fails(p, Struck)}
    BY <1>1 DEF Fails, Sound, Kept
  <1>2. CASE o \in FromRecord(p, pinfo) \cup FromRecord(p, Struck)
    BY <1>2, FromRecordSound
  <1>3. CASE o \in FromBoth(p, TRUE) \cup FromBoth(p, FALSE)
    BY <1>3, FromBothSound
  <1>4. QED BY <1>1, <1>2, <1>3, FromProcessSound, LinuxMemSound DEF Outcomes

\* Every call of every platform has outcomes of these kinds.
LEMMA CallsAreOutcomes ==
    ASSUME ProcessTypeOK, NEW p \in Pids
    PROVE  Mem(p) \cup Cred(p) \cup Time(p) \cup State(p) \cup Fd(p)
             \subseteq Outcomes(p)
  <1>1. /\ FromRecord(p, pinfo) \subseteq Outcomes(p)
        /\ FromBoth(p, TRUE) \subseteq Outcomes(p)
        /\ FromBoth(p, FALSE) \subseteq Outcomes(p)
        /\ FromProcess(p) \subseteq Outcomes(p)
        /\ LinuxMem(p) \subseteq Outcomes(p)
        /\ {Fails(p, pinfo)} \subseteq Outcomes(p)
        /\ Win32Info(p, pinfo) \subseteq Outcomes(p)
        /\ Win32Fd(p) \subseteq Outcomes(p)
    BY DEF Outcomes, Win32Info, Win32Fd, Struck
  <1>2. platform \in {"linux", "aix", "hpux", "solaris", "darwin", "win32"}
    BY DEF ProcessTypeOK, Platforms
  <1>3. Mem(p) \subseteq Outcomes(p)
    BY <1>1, <1>2 DEF Mem, AixMemCredTime, Hpux, SolarisMem, DarwinMem, Win32Mem
  <1>4. Cred(p) \subseteq Outcomes(p)
    BY <1>1, <1>2 DEF Cred, LinuxCred, AixMemCredTime, Hpux, SolarisCred,
                      SolarisPsinfo, DarwinCred, DarwinPinfo
  <1>5. Time(p) \subseteq Outcomes(p)
    BY <1>1, <1>2 DEF Time, LinuxTime, AixMemCredTime, Hpux, SolarisTime,
                      DarwinTime, Win32Time
  <1>6. State(p) \subseteq Outcomes(p)
    BY <1>1, <1>2 DEF State, LinuxState, AixState, Hpux, SolarisState,
                      SolarisPsinfo, DarwinState, Win32State
  <1>7. Fd(p) \subseteq Outcomes(p)
    BY <1>1 DEF Fd
  <1>8. QED BY <1>3, <1>4, <1>5, <1>6, <1>7

\* The times come from the record on three platforms, from the process on the
\* others.
LEMMA TimeSeen ==
    ASSUME ProcessTypeOK, RecordOfOwner, NEW p \in Pids, NEW o \in Time(p)
    PROVE  \/ SeenRecord(o, p) /\ platform \in {"linux", "aix", "hpux"}
           \/ SeenLive(o, p) /\ platform \notin {"linux", "aix", "hpux"}
  <1>1. platform \in {"linux", "aix", "hpux", "solaris", "darwin", "win32"}
    BY DEF ProcessTypeOK, Platforms
  <1>2. CASE platform \in {"linux", "aix", "hpux"}
    <2>1. o \in FromRecord(p, pinfo)
      BY <1>2 DEF Time, LinuxTime, AixMemCredTime, Hpux
    <2>2. QED BY <1>2, <2>1, FromRecordSound
  <1>3. CASE platform = "darwin"
    <2>1. o \in FromBoth(p, TRUE)
      BY <1>3 DEF Time, DarwinTime
    <2>2. QED BY <1>3, <2>1, FromBothSound
  <1>4. CASE platform \in {"solaris", "win32"}
    <2>1. o \in FromProcess(p)
      BY <1>4 DEF Time, SolarisTime, Win32Time
    <2>2. QED BY <1>4, <2>1, FromProcessSound
  <1>5. QED BY <1>1, <1>2, <1>3, <1>4

LEMMA ProcessStarts == platform \in Platforms /\ ProcessInit => ProcessIInv
  <1> SUFFICES ASSUME platform \in Platforms, ProcessInit PROVE ProcessIInv
    OBVIOUS
  <1>1. ProcessTypeOK
    BY ProcessAssumption DEF ProcessInit, ProcessTypeOK, NoRecord, Record, Process, NoProcess
  <1>2. RecordOfOwner /\ RecordIsPast
    BY DEF ProcessInit, NoRecord, RecordOfOwner, RecordIsPast, NotAhead, NoProcess
  <1>3. TotalsArePast
    BY DEF ProcessInit, TotalsArePast, NotAhead
  <1>4. TotalsWereRecords
    BY DEF ProcessInit, TotalsWereRecords, NoRecord, NoProcess
  <1>5. QED BY <1>1, <1>2, <1>3, <1>4 DEF ProcessIInv

\* A process that aged, or a pid that passed on, leaves what was seen of it in
\* the past.
Aged(p) == \/ /\ procs'[p].life = procs[p].life
              /\ procs'[p].alive => procs[p].alive /\ procs'[p].time >= procs[p].time
           \/ procs'[p].life > procs[p].life

LEMMA AgedKeeps ==
    ASSUME ProcessIInv, platform' = platform, clock' \in Nat, procs' \in [Pids -> Process],
           \A p \in Pids : Aged(p), UNCHANGED <<pinfo, procCpu>>
    PROVE  ProcessIInv'
  <1>1. /\ procs \in [Pids -> Process] /\ pinfo \in Record
        /\ procCpu \in [Pids -> [last : Nat, total : Nat, owner : Pids \cup {NoPid},
                                life : Nat]]
    BY DEF ProcessIInv, ProcessTypeOK
  <1>2. ASSUME NEW owner \in Pids \cup {NoPid}, NEW life \in Nat, NEW time \in Nat,
               NotAhead(owner, life, time)
        PROVE  NotAhead(owner, life, time)'
    BY <1>1, <1>2 DEF NotAhead, Aged, Process
  <1>3. RecordIsPast'
    BY <1>1, <1>2 DEF ProcessIInv, RecordIsPast, Record, Process
  <1>4. TotalsArePast'
    BY <1>1, <1>2 DEF ProcessIInv, TotalsArePast
  <1>5. ProcessTypeOK' /\ RecordOfOwner' /\ TotalsWereRecords'
    BY DEF ProcessIInv, ProcessTypeOK, RecordOfOwner, TotalsWereRecords
  <1>6. QED BY <1>3, <1>4, <1>5 DEF ProcessIInv

Totals == [Pids -> [last : Nat, total : Nat, owner : Pids \cup {NoPid}, life : Nat]]
SameTotals == /\ procCpu' \in Totals
              /\ \A q \in Pids : /\ procCpu'[q].total = procCpu[q].total
                                 /\ procCpu'[q].owner = procCpu[q].owner
                                 /\ procCpu'[q].life = procCpu[q].life

\* A call leaves one of the records above.
LEMMA RecordLeft ==
    ASSUME ProcessIInv, NEW p \in Pids, UNCHANGED <<platform, clock, procs>>,
           \/ pinfo' \in Kept(p)
           \/ pinfo' = Now(p) /\ procs[p].alive
    PROVE  pinfo' \in Record /\ RecordOfOwner' /\ RecordIsPast'
  <1>1. procs \in [Pids -> Process] /\ pinfo \in Record /\ clock \in Nat
    BY DEF ProcessIInv, ProcessTypeOK
  <1>2. p # NoPid /\ Seconds \in Nat
    BY <1>1, ProcessAssumption DEF NoPid, Seconds
  <1>3. CASE pinfo' \in Kept(p)
    <2>1. /\ pinfo' \in Record
          /\ pinfo'.owner = pinfo.owner /\ pinfo'.proc = pinfo.proc
          /\ pinfo'.failed \/ pinfo' = pinfo \/ pinfo'.pid = NoPid
      BY <1>1, <1>2, <1>3 DEF Kept, Noted, Struck, Record
    <2>2. RecordOfOwner' /\ RecordIsPast'
      BY <2>1 DEF ProcessIInv, RecordOfOwner, RecordIsPast, NotAhead
    <2>3. QED BY <2>1, <2>2
  <1>4. CASE pinfo' = Now(p) /\ procs[p].alive
    <2>1. /\ pinfo' \in Record /\ pinfo'.owner = p /\ pinfo'.pid = p
          /\ pinfo'.proc = procs[p]
      BY <1>1, <1>2, <1>4 DEF Now, Record
    <2>2. RecordOfOwner'
      BY <2>1 DEF RecordOfOwner
    <2>3. RecordIsPast'
      BY <1>1, <1>2, <2>1 DEF RecordIsPast, NotAhead, Process
    <2>4. QED BY <2>1, <2>2, <2>3
  <1>5. QED BY <1>3, <1>4

\* The totals that were stored before a call stay behind the record it leaves.
LEMMA TotalsLeft ==
    ASSUME ProcessIInv, NEW p \in Pids, UNCHANGED platform,
           \/ pinfo' \in Kept(p)
           \/ pinfo' = Now(p) /\ procs[p].alive,
           NEW q \in Pids,
           platform \in {"linux", "aix", "hpux"},
           procCpu[q].owner = pinfo'.owner, procCpu[q].life = pinfo'.proc.life
    PROVE  procCpu[q].total <= pinfo'.proc.time
  <1>1. procs \in [Pids -> Process] /\ pinfo \in Record /\ p # NoPid
    BY ProcessAssumption DEF ProcessIInv, ProcessTypeOK, NoPid
  <1>2. CASE pinfo' \in Kept(p)
    <2>1. pinfo'.owner = pinfo.owner /\ pinfo'.proc = pinfo.proc
      BY <1>1, <1>2 DEF Kept, Noted, Struck, Record
    <2>2. QED BY <2>1 DEF ProcessIInv, TotalsWereRecords
  <1>3. CASE pinfo' = Now(p) /\ procs[p].alive
    <2>1. pinfo'.owner = p /\ pinfo'.proc = procs[p]
      BY <1>3 DEF Now
    <2>2. QED BY <1>1, <1>3, <2>1 DEF ProcessIInv, TotalsArePast, NotAhead
  <1>4. QED BY <1>2, <1>3

\* A call that stores no new total.
LEMMA RecordKeeps ==
    ASSUME ProcessIInv, NEW p \in Pids, UNCHANGED <<platform, clock, procs>>, SameTotals,
           \/ pinfo' \in Kept(p)
           \/ pinfo' = Now(p) /\ procs[p].alive
    PROVE  ProcessIInv'
  <1>1. pinfo' \in Record /\ RecordOfOwner' /\ RecordIsPast'
    BY RecordLeft
  <1>2. ProcessTypeOK'
    BY <1>1 DEF ProcessIInv, ProcessTypeOK, SameTotals, Totals
  <1>3. TotalsArePast'
    BY DEF ProcessIInv, TotalsArePast, NotAhead, SameTotals
  <1>4. TotalsWereRecords'
    BY TotalsLeft DEF TotalsWereRecords, SameTotals
  <1>5. QED BY <1>1, <1>2, <1>3, <1>4 DEF ProcessIInv

LEMMA GetKeeps ==
    ASSUME ProcessIInv, NEW p \in Pids, Get(p) \/ ProcStatNext(p)
    PROVE  ProcessIInv' /\ OnlyFailuresMixProcesses'
  <1>1. PICK o \in Outcomes(p) : pinfo' = o.rec /\ reply' = o.ans
    BY CallsAreOutcomes DEF Get, ProcStatNext, ProcessIInv
  <1>2. Sound(o, p)
    BY <1>1, OutcomesSound DEF ProcessIInv
  <1>3. UNCHANGED <<platform, clock, procs, procCpu>>
    BY DEF Get, ProcStatNext
  <1>4. ProcessIInv'
    <2>1. SameTotals
      BY <1>3 DEF SameTotals, Totals, ProcessIInv, ProcessTypeOK
    <2>2. QED BY <1>1, <1>2, <1>3, <2>1, RecordKeeps DEF Sound
  <1>5. Seconds' = Seconds
    BY <1>3 DEF Seconds
  <1>6. OnlyFailuresMixProcesses'
    BY <1>1, <1>2, <1>5 DEF Sound, OnlyFailuresMixProcesses
  <1>7. QED BY <1>4, <1>6

\* A total goes back only with its owner: what TotalsGrow says of a step.
TotalsStep == \A p \in Pids :
    procCpu'[p].total < procCpu[p].total
      => <<procCpu'[p].owner, procCpu'[p].life>> # <<procCpu[p].owner, procCpu[p].life>>

\* The total a call of proc_cpu stores: of the process as it is, or of a record.
LEMMA TotalStored ==
    ASSUME ProcessIInv, NEW p \in Pids, NEW o \in Time(p), o.ans.ok
    PROVE  /\ Owner(o) \in Pids \cup {NoPid} /\ Source(o) \in Process
           /\ NotAhead(Owner(o), Source(o).life, Source(o).time)
           /\ procCpu[p].owner = Owner(o) /\ procCpu[p].life = Source(o).life
                => procCpu[p].total <= Source(o).time
           /\ platform \in {"linux", "aix", "hpux"} =>
                \/ o.rec = pinfo /\ Owner(o) = pinfo.owner /\ Source(o) = pinfo.proc
                \/ /\ o.rec = Now(p) /\ procs[p].alive
                   /\ Owner(o) = p /\ Source(o) = procs[p]
  <1>1. /\ procs \in [Pids -> Process] /\ pinfo \in Record
        /\ procCpu \in [Pids -> [last : Nat, total : Nat, owner : Pids \cup {NoPid},
                                life : Nat]]
        /\ p # NoPid
    BY ProcessAssumption DEF ProcessIInv, ProcessTypeOK, NoPid
  <1>2. o \in Outcomes(p)
    BY CallsAreOutcomes DEF ProcessIInv
  <1>3. o.ans.pid = p
    BY <1>2, OutcomesSound DEF Sound, ProcessIInv
  <1>4. NotAhead(p, procs[p].life, procs[p].time)
    BY <1>1 DEF NotAhead, Process
  <1>5. procs[p].alive /\ procCpu[p].owner = p /\ procCpu[p].life = procs[p].life
          => procCpu[p].total <= procs[p].time
    BY <1>1 DEF ProcessIInv, TotalsArePast, NotAhead
  <1>6. CASE SeenLive(o, p) /\ platform \notin {"linux", "aix", "hpux"}
    <2>1. Owner(o) = p /\ Source(o) = procs[p] /\ procs[p].alive
      BY <1>3, <1>6 DEF SeenLive, Owner, Source
    <2>2. QED BY <1>1, <1>4, <1>5, <1>6, <2>1
  <1>7. CASE SeenRecord(o, p) /\ platform \in {"linux", "aix", "hpux"}
    <2>1. Owner(o) = o.rec.owner /\ Source(o) = o.rec.proc
      BY <1>7 DEF SeenRecord, Owner, Source
    <2>2. CASE o.rec = pinfo
      <3>1. NotAhead(pinfo.owner, pinfo.proc.life, pinfo.proc.time)
        BY DEF ProcessIInv, RecordIsPast
      <3>2. QED BY <1>1, <1>7, <2>1, <2>2, <3>1
              DEF ProcessIInv, TotalsWereRecords, Record
    <2>3. CASE o.rec = Now(p) /\ procs[p].alive
      <3>1. Owner(o) = p /\ Source(o) = procs[p]
        BY <2>1, <2>3 DEF Now
      <3>2. QED BY <1>1, <1>4, <1>5, <2>3, <3>1
    <2>4. QED BY <1>7, <2>2, <2>3 DEF SeenRecord
  <1>8. QED BY <1>6, <1>7, TimeSeen DEF ProcessIInv

LEMMA CpuKeeps ==
    ASSUME ProcessIInv, NEW p \in Pids, ProcCpuGet(p)
    PROVE  ProcessIInv' /\ TotalsStep /\ reply'.op = "cpu"
  <1>1. UNCHANGED <<platform, clock, procs>> /\ reply'.op = "cpu"
    BY DEF ProcCpuGet
  <1>2. /\ procs \in [Pids -> Process] /\ pinfo \in Record /\ clock \in Nat
        /\ procCpu \in [Pids -> [last : Nat, total : Nat, owner : Pids \cup {NoPid},
                                life : Nat]]
    BY DEF ProcessIInv, ProcessTypeOK
  <1>3. CASE UNCHANGED <<pinfo, procCpu>>
    <2>1. ProcessIInv'
      BY <1>1, <1>3 DEF ProcessIInv, ProcessTypeOK, RecordOfOwner, RecordIsPast,
                        NotAhead, TotalsArePast, TotalsWereRecords
    <2>2. TotalsStep
      BY <1>2, <1>3 DEF TotalsStep
    <2>3. QED BY <1>1, <2>1, <2>2
  <1>4. ASSUME NEW o \in Time(p), pinfo' = o.rec, ~o.ans.ok,
               procCpu' = [procCpu EXCEPT ![p].last = clock]
        PROVE  ProcessIInv' /\ TotalsStep
    <2>1. SameTotals
      <3>1. ASSUME NEW q \in Pids PROVE procCpu'[q] = [procCpu[q] EXCEPT
                                                       !.last = IF q = p THEN clock ELSE @]
        BY <1>2, <1>4
      <3>2. QED BY <1>2, <1>4, <3>1 DEF SameTotals, Totals
    <2>2. TotalsStep
      BY <1>2, <2>1 DEF TotalsStep, SameTotals
    <2>3. Sound(o, p)
      BY <1>4, CallsAreOutcomes, OutcomesSound DEF ProcessIInv
    <2>4. QED BY <1>1, <1>4, <2>1, <2>2, <2>3, RecordKeeps DEF Sound
  <1>5. ASSUME NEW o \in Time(p), pinfo' = o.rec, o.ans.ok,
               procCpu' = [procCpu EXCEPT ![p] = [last |-> clock, total |-> Source(o).time,
                                                  owner |-> Owner(o),
                                                  life |-> Source(o).life]]
        PROVE  ProcessIInv' /\ TotalsStep
    <2>1. /\ procCpu'[p].total = Source(o).time /\ procCpu'[p].owner = Owner(o)
          /\ procCpu'[p].life = Source(o).life
          /\ \A q \in Pids \ {p} : procCpu'[q] = procCpu[q]
      BY <1>2, <1>5
    <2>2. TotalsStep
      BY <1>2, <1>5, <2>1, TotalStored DEF TotalsStep, Process
    <2>3. procCpu' \in Totals
      BY <1>2, <1>5, TotalStored DEF Totals, Process
    <2>4. Sound(o, p)
      BY <1>5, CallsAreOutcomes, OutcomesSound DEF ProcessIInv
    <2>5. \/ pinfo' \in Kept(p)
          \/ pinfo' = Now(p) /\ procs[p].alive
      BY <1>5, <2>4 DEF Sound
    <2>6. pinfo' \in Record /\ RecordOfOwner' /\ RecordIsPast'
      BY <1>1, <2>5, RecordLeft
    <2>7. ProcessTypeOK'
      BY <1>1, <2>3, <2>6 DEF ProcessIInv, ProcessTypeOK, Totals
    <2>8. TotalsArePast'
      <3>1. NotAhead(Owner(o), Source(o).life, Source(o).time)
        BY <1>5, TotalStored
      <3>2. QED BY <1>1, <2>1, <3>1 DEF ProcessIInv, TotalsArePast, NotAhead
    <2>9. TotalsWereRecords'
      <3>1. SUFFICES ASSUME platform \in {"linux", "aix", "hpux"}, NEW q \in Pids,
                            procCpu'[q].owner = pinfo'.owner,
                            procCpu'[q].life = pinfo'.proc.life
                     PROVE  procCpu'[q].total <= pinfo'.proc.time
        BY <1>1 DEF TotalsWereRecords
      <3>2. CASE q = p
        <4>1. Source(o) = pinfo'.proc /\ Source(o) \in Process
          <5>1. \/ o.rec = pinfo /\ Source(o) = pinfo.proc
                \/ o.rec = Now(p) /\ Source(o) = procs[p]
            BY <1>5, <3>1, TotalStored
          <5>2. Now(p).proc = procs[p]
            BY DEF Now
          <5>3. QED BY <1>5, <5>1, <5>2, TotalStored
        <4>2. QED BY <2>1, <3>2, <4>1 DEF Process
      <3>3. CASE q # p
        BY <1>1, <2>1, <2>5, <3>1, <3>3, TotalsLeft
      <3>4. QED BY <3>2, <3>3
    <2>10. QED BY <2>2, <2>6, <2>7, <2>8, <2>9 DEF ProcessIInv
  <1>6. QED BY <1>1, <1>3, <1>4, <1>5 DEF ProcCpuGet

LEMMA ProcessKeeps ==
    ASSUME ProcessIInv, [ProcessNext]_processVars
    PROVE  /\ ProcessIInv'
           /\ TotalsStep
           /\ OnlyFailuresMixProcesses => OnlyFailuresMixProcesses'
  <1>1. /\ procs \in [Pids -> Process] /\ pinfo \in Record /\ clock \in Nat
        /\ procCpu \in Totals
    BY DEF ProcessIInv, ProcessTypeOK, Totals
  <1>2. UNCHANGED procCpu => TotalsStep
    BY <1>1 DEF TotalsStep, Totals
  <1>3. CASE Tick
    <2>1. PICK gain \in [Pids -> 0..Cores] :
            /\ \A p \in Pids : ~procs[p].alive => gain[p] = 0
            /\ procs' = [p \in Pids |-> [procs[p] EXCEPT !.time = @ + gain[p]]]
      BY <1>3 DEF Tick
    <2>2. UNCHANGED <<platform, pinfo, procCpu>> /\ clock' \in Nat /\ reply' = NoReply
      BY <1>1, <1>3 DEF Tick, Quiet
    <2>3. \A p \in Pids : procs'[p] \in Process /\ Aged(p)
      BY <1>1, <2>1, ProcessAssumption DEF Aged, Process
    <2>4. procs' \in [Pids -> Process]
      BY <2>1, <2>3
    <2>5. ProcessIInv'
      BY <2>2, <2>3, <2>4, AgedKeeps
    <2>6. QED BY <1>2, <2>2, <2>5 DEF NoReply, OnlyFailuresMixProcesses
  <1>4. ASSUME NEW p \in Pids, Spawn(p) \/ Exit(p)
        PROVE  ProcessIInv' /\ TotalsStep /\ OnlyFailuresMixProcesses'
    <2>1. UNCHANGED <<platform, pinfo, procCpu>> /\ clock' \in Nat /\ reply' = NoReply
      BY <1>1, <1>4 DEF Spawn, Exit, Quiet
    <2>2. PICK next \in Process :
            /\ procs' = [procs EXCEPT ![p] = next]
            /\ \/ next.life = procs[p].life /\ ~next.alive
               \/ next.life > procs[p].life
      <3>1. CASE Spawn(p)
        <4>1. procs' = [procs EXCEPT ![p] = [life |-> procs[p].life + 1, time |-> 0,
                                             alive |-> TRUE]]
          BY <1>1, <3>1 DEF Spawn
        <4>2. [life |-> procs[p].life + 1, time |-> 0, alive |-> TRUE] \in Process
          BY <1>1 DEF Process
        <4>3. procs[p].life + 1 > procs[p].life
          BY <1>1 DEF Process
        <4>4. QED BY <4>1, <4>2, <4>3
      <3>2. CASE Exit(p)
        <4>1. procs' = [procs EXCEPT ![p] = [life |-> procs[p].life, time |-> 0,
                                             alive |-> FALSE]]
          BY <1>1, <3>2 DEF Exit
        <4>2. [life |-> procs[p].life, time |-> 0, alive |-> FALSE] \in Process
          BY <1>1 DEF Process
        <4>3. QED BY <4>1, <4>2
      <3>3. QED BY <1>4, <3>1, <3>2
    <2>3. procs' \in [Pids -> Process]
      BY <1>1, <2>2
    <2>4. \A q \in Pids : Aged(q)
      BY <1>1, <2>2 DEF Aged, Process
    <2>5. ProcessIInv'
      BY <2>1, <2>3, <2>4, AgedKeeps
    <2>6. QED BY <1>2, <2>1, <2>5 DEF NoReply, OnlyFailuresMixProcesses
  <1>5. ASSUME NEW p \in Pids, Get(p) \/ ProcStatNext(p)
        PROVE  ProcessIInv' /\ TotalsStep /\ OnlyFailuresMixProcesses'
    BY <1>2, <1>5, GetKeeps DEF Get, ProcStatNext
  <1>6. ASSUME NEW p \in Pids, ProcCpuGet(p)
        PROVE  ProcessIInv' /\ TotalsStep /\ OnlyFailuresMixProcesses'
    BY <1>6, CpuKeeps DEF OnlyFailuresMixProcesses
  <1>7. CASE ProcStatBegin
    <2>1. UNCHANGED <<platform, clock, procs, pinfo, procCpu>> /\ reply' = NoReply
      BY <1>7 DEF ProcStatBegin
    <2>2. ProcessIInv'
      BY <2>1 DEF ProcessIInv, ProcessTypeOK, RecordOfOwner, RecordIsPast, NotAhead,
                  TotalsArePast, TotalsWereRecords
    <2>3. QED BY <1>2, <2>1, <2>2 DEF NoReply, OnlyFailuresMixProcesses
  <1>8. CASE UNCHANGED processVars
    <2>1. ProcessIInv'
      BY <1>8 DEF processVars, ProcessIInv, ProcessTypeOK, RecordOfOwner, RecordIsPast,
                  NotAhead, TotalsArePast, TotalsWereRecords
    <2>2. QED BY <1>2, <1>8, <2>1 DEF processVars, OnlyFailuresMixProcesses, Seconds
  <1>9. QED BY <1>3, <1>4, <1>5, <1>6, <1>7, <1>8 DEF ProcessNext

\* What the library keeps of a process is never ahead of it, on any platform and
\* whatever calls fail.
THEOREM NeverAhead == ProcessSpec => []ProcessIInv
  BY ProcessStarts, ProcessKeeps, PTL DEF ProcessSpec

\* A record is answered for the pid asked for, and while it is young, unless the
\* last read of the record failed.
THEOREM MixingTheorem == ProcessSpec => []OnlyFailuresMixProcesses
  <1>1. ProcessInit => OnlyFailuresMixProcesses
    BY DEF ProcessInit, NoReply, OnlyFailuresMixProcesses
  <1>2. QED BY <1>1, NeverAhead, ProcessKeeps, PTL DEF ProcessSpec

\* The total kept for a pid goes back only when it comes from another process.
THEOREM TotalsTheorem == ProcessSpec => TotalsGrow
  <1>1. ProcessIInv /\ [ProcessNext]_processVars => [TotalsStep]_processVars
    BY ProcessKeeps
  <1>2. TotalsGrow <=> [][TotalsStep]_processVars
    BY PTL DEF TotalsGrow, TotalsStep
  <1>3. QED BY <1>1, <1>2, NeverAhead, PTL DEF ProcessSpec

(***************************************************************************)
(* The walks over the connections.                                         *)
(***************************************************************************)

LEMMA RowHasPort ==
    ASSUME NEW r \in Sockets
    PROVE  r.port \in Ports /\ r.family \in {"v4", "v6"}
  BY SocketAssumption DEF Ports, SocketShape

LEMMA ConnectionStarts == ConnectionInit => ConnectionIInv
  <1> SUFFICES ASSUME ConnectionInit PROVE ConnectionIInv
    OBVIOUS
  <1>1. ConnectionTypeOK
    BY DEF ConnectionInit, ConnectionTypeOK, Addresses, EmptyTally, Tallies, Idle
  <1>2. ListenCacheSound
    BY DEF ConnectionInit, ListenCacheSound
  <1>3. KnownWasHeard /\ DirectionsKept
    BY DEF ConnectionInit, KnownWasHeard, DirectionsKept, Idle
  <1>4. QED BY <1>1, <1>2, <1>3 DEF ConnectionIInv

\* A step that ends no walk, begins none, and hands over no row.
LEMMA SameKeeps ==
    ASSUME ConnectionIInv, UNCHANGED <<listening, heard, tally, walk>>
    PROVE  ConnectionIInv'
  BY DEF ConnectionIInv, ConnectionTypeOK, ListenCacheSound, KnownWasHeard,
         DirectionsKept, Idle

\* A step after which no walk is in progress.
LEMMA IdleKeeps ==
    ASSUME ConnectionIInv, UNCHANGED <<listening, heard>>, walk' = NoWalk,
           tally' \in {tally, EmptyTally}
    PROVE  ConnectionIInv'
  <1>1. tally' \in Tallies
    BY DEF ConnectionIInv, ConnectionTypeOK, EmptyTally, Tallies
  <1>2. QED BY <1>1 DEF ConnectionIInv, ConnectionTypeOK, ListenCacheSound,
                        KnownWasHeard, DirectionsKept, Idle

\* The start of a walk, whichever call makes it.
LEMMA WalkKeeps ==
    ASSUME ConnectionIInv,
           NEW op \in {"list", "stat", "port", "estab", "owner", "address"},
           NEW flags, NEW protos, NEW port, Walk(op, flags, protos, port)
    PROVE  ConnectionIInv' /\ walk' # NoWalk
  <1>1. /\ walk' = [op |-> op, flags |-> flags, protos |-> protos, port |-> port,
                    tables |-> Tables(protos), rows |-> {}, known |-> heard]
        /\ tally' = EmptyTally
        /\ UNCHANGED <<listening, heard>>
    BY DEF Walk
  <1>2. /\ walk'.op = op /\ walk'.known = heard
        /\ {"op", "known", "rows"} \subseteq DOMAIN walk'
    BY <1>1
  <1>3. walk' # NoWalk
    BY <1>2 DEF NoWalk
  <1>4. ConnectionTypeOK'
    BY <1>1, <1>2, <1>3 DEF ConnectionIInv, ConnectionTypeOK, EmptyTally, Tallies
  <1>5. KnownWasHeard'
    BY <1>1, <1>2 DEF KnownWasHeard
  <1>6. ListenCacheSound' /\ DirectionsKept'
    BY <1>1 DEF ConnectionIInv, ListenCacheSound, DirectionsKept, EmptyTally
  <1>7. QED BY <1>3, <1>4, <1>5, <1>6 DEF ConnectionIInv

\* A walk that goes on keeps its call and what it knew.
Onward == /\ ~Idle
          /\ walk'.op = walk.op /\ walk'.known = walk.known
          /\ DOMAIN walk' = DOMAIN walk

LEMMA StillWalking ==
    ASSUME ConnectionIInv, Onward
    PROVE  walk' # NoWalk
  BY DEF ConnectionIInv, ConnectionTypeOK, Onward, NoWalk

\* A table that was read, skipped or missed.
LEMMA TableKeeps ==
    ASSUME ConnectionIInv, ReadTable \/ SkipTable
    PROVE  ConnectionIInv' /\ walk' # NoWalk
  <1>1. UNCHANGED <<listening, heard, tally>> /\ ~Idle
    BY DEF ReadTable, SkipTable
  <1>2. Onward
    <2>1. {"op", "known", "rows"} \subseteq DOMAIN walk
      BY <1>1 DEF ConnectionIInv, ConnectionTypeOK
    <2>2. CASE SkipTable
      BY <1>1, <2>1, <2>2 DEF SkipTable, Onward
    <2>3. CASE ReadTable
      BY <1>1, <2>1, <2>3 DEF ReadTable, SolarisRead, Onward
    <2>4. QED BY <2>2, <2>3
  <1>3. walk' # NoWalk
    BY <1>2, StillWalking
  <1>4. ConnectionIInv'
    BY <1>1, <1>2 DEF ConnectionIInv, ConnectionTypeOK, ListenCacheSound,
                      KnownWasHeard, DirectionsKept, Onward, Idle
  <1>5. QED BY <1>3, <1>4

\* What a row changes in the cache: nothing, or it is added.
Adds(r) == /\ listening' = ListenAddressAdd(r)
           /\ heard' = [heard EXCEPT ![r.port] = @ \cup {r.family}]

LEMMA AddKeeps ==
    ASSUME ConnectionIInv, NEW r \in Sockets, Adds(r)
    PROVE  /\ listening' \in [Ports -> Addresses]
           /\ heard' \in [Ports -> SUBSET {"v4", "v6"}]
           /\ ListenCacheSound'
           /\ \A p \in Ports : heard[p] \subseteq heard'[p]
  <1>1. /\ listening \in [Ports -> Addresses]
        /\ heard \in [Ports -> SUBSET {"v4", "v6"}]
        /\ r.port \in Ports /\ r.family \in {"v4", "v6"}
    BY RowHasPort DEF ConnectionIInv, ConnectionTypeOK
  <1>2. /\ listening' \in [Ports -> Addresses]
        /\ heard' \in [Ports -> SUBSET {"v4", "v6"}]
        /\ \A p \in Ports : heard[p] \subseteq heard'[p]
    BY <1>1 DEF Adds, ListenAddressAdd, Addresses
  <1>3. \A p \in Ports \ {r.port} : listening'[p] = listening[p] /\ heard'[p] = heard[p]
    BY <1>1 DEF Adds, ListenAddressAdd
  <1>4. /\ heard'[r.port] = heard[r.port] \cup {r.family}
        /\ listening'[r.port] = IF listening[r.port] # NoAddress /\ r.family = "v6"
                                THEN listening[r.port] ELSE r.family
    BY <1>1 DEF Adds, ListenAddressAdd
  <1>5. listening'[r.port] = CASE "v4" \in heard'[r.port] -> "v4"
                               [] heard'[r.port] = {"v6"} -> "v6"
                               [] heard'[r.port] = {} -> NoAddress
    <2>1. \/ "v4" \in heard[r.port] /\ listening[r.port] = "v4"
          \/ heard[r.port] = {"v6"} /\ listening[r.port] = "v6"
          \/ heard[r.port] = {} /\ listening[r.port] = NoAddress
      BY <1>1 DEF ConnectionIInv, ListenCacheSound
    <2>2. QED BY <1>1, <1>4, <2>1 DEF NoAddress
  <1>6. ListenCacheSound'
    BY <1>3, <1>5 DEF ConnectionIInv, ListenCacheSound
  <1>7. QED BY <1>2, <1>6

LEMMA TalliesGrow ==
    ASSUME tally \in Tallies, NEW r \in Sockets
    PROVE  {Directed(r), NetStatPortWalker(r), TcpCurrEstabCount(r), LinuxWalker(r)}
             \subseteq Tallies
  BY DEF Tallies, Directed, NetStatPortWalker, TcpCurrEstabCount, LinuxWalker,
         ConnectionListWalker

\* A row that is handed over.
LEMMA DeliverKeeps ==
    ASSUME ConnectionIInv, NEW r \in Sockets, Deliver(r)
    PROVE  ConnectionIInv' /\ walk' # NoWalk
  <1>1. /\ ~Idle
        /\ listening \in [Ports -> Addresses]
        /\ heard \in [Ports -> SUBSET {"v4", "v6"}]
        /\ tally \in Tallies
        /\ {"op", "known", "rows"} \subseteq DOMAIN walk
        /\ walk.op \in {"list", "stat", "port", "estab", "owner", "address"}
        /\ r.port \in Ports
    BY RowHasPort DEF Deliver, ConnectionIInv, ConnectionTypeOK
  <1>2. Onward
    BY <1>1 DEF Deliver, Onward
  <1>3. walk' # NoWalk
    BY <1>2, StillWalking
  <1>4. CASE walk.op \in {"stat", "address"}
    <2>1. NetStatWalker(r)
      BY <1>4 DEF Deliver
    <2>2. \/ UNCHANGED <<listening, heard, tally>>
          \/ Adds(r) /\ UNCHANGED tally
          \/ tally' = Directed(r) /\ UNCHANGED <<listening, heard>>
      BY <2>1 DEF NetStatWalker, Adds
    <2>3. CASE UNCHANGED <<listening, heard, tally>>
      BY <1>1, <1>2, <1>3, <2>3 DEF ConnectionIInv, ConnectionTypeOK, ListenCacheSound,
                              KnownWasHeard, DirectionsKept, Onward, Idle
    <2>4. CASE Adds(r) /\ UNCHANGED tally
      <3>1. /\ listening' \in [Ports -> Addresses]
            /\ heard' \in [Ports -> SUBSET {"v4", "v6"}]
            /\ ListenCacheSound'
            /\ \A p \in Ports : heard[p] \subseteq heard'[p]
        BY <2>4, AddKeeps
      <3>2. ConnectionTypeOK'
        BY <1>1, <1>2, <2>4, <3>1 DEF ConnectionTypeOK, Onward
      <3>3. KnownWasHeard'
        BY <1>1, <1>2, <3>1 DEF ConnectionIInv, KnownWasHeard, Onward
      <3>4. DirectionsKept'
        <4>1. SUFFICES ASSUME walk.op = "stat" PROVE DirectionsKept'
          BY <1>2 DEF DirectionsKept, Onward
        <4>2. /\ \A q \in tally.outbound : walk.known[q.port] = {}
              /\ \A q \in tally.inbound : heard[q.port] # {}
          BY <1>1, <4>1 DEF ConnectionIInv, DirectionsKept
        <4>3. \A q \in tally.inbound : q.port \in Ports
          BY <1>1, RowHasPort DEF Tallies
        <4>4. QED BY <1>2, <2>4, <3>1, <4>2, <4>3 DEF DirectionsKept, Onward
      <3>5. QED BY <1>3, <3>1, <3>2, <3>3, <3>4 DEF ConnectionIInv
    <2>5. CASE tally' = Directed(r) /\ UNCHANGED <<listening, heard>>
      <3>1. ConnectionTypeOK'
        BY <1>1, <1>2, <2>5, TalliesGrow DEF ConnectionTypeOK, Onward
      <3>2. KnownWasHeard' /\ ListenCacheSound'
        BY <1>1, <1>2, <2>5 DEF ConnectionIInv, KnownWasHeard, ListenCacheSound, Onward
      <3>3. DirectionsKept'
        <4>1. SUFFICES ASSUME walk.op = "stat" PROVE DirectionsKept'
          BY <1>2 DEF DirectionsKept, Onward
        <4>2. /\ \A q \in tally.outbound : walk.known[q.port] = {}
              /\ \A q \in tally.inbound : heard[q.port] # {}
          BY <1>1, <4>1 DEF ConnectionIInv, DirectionsKept
        <4>3. CASE listening[r.port] # NoAddress
          <5>1. heard[r.port] # {}
            BY <1>1, <4>3 DEF ConnectionIInv, ListenCacheSound
          <5>2. tally'.outbound = tally.outbound /\ tally'.inbound = tally.inbound \cup {r}
            BY <1>1, <2>5, <4>3 DEF Directed, Tallies
          <5>3. QED BY <1>2, <2>5, <4>2, <5>1, <5>2 DEF DirectionsKept, Onward
        <4>4. CASE listening[r.port] = NoAddress
          <5>1. heard[r.port] = {}
            BY <1>1, <4>4 DEF ConnectionIInv, ListenCacheSound, NoAddress
          <5>2. walk.known[r.port] = {}
            BY <1>1, <5>1 DEF ConnectionIInv, KnownWasHeard
          <5>3. tally'.inbound = tally.inbound /\ tally'.outbound = tally.outbound \cup {r}
            BY <1>1, <2>5, <4>4 DEF Directed, Tallies
          <5>4. QED BY <1>2, <2>5, <4>2, <5>2, <5>3 DEF DirectionsKept, Onward
        <4>5. QED BY <4>3, <4>4
      <3>4. QED BY <3>1, <3>2, <3>3, <1>3 DEF ConnectionIInv
    <2>6. QED BY <1>3, <2>2, <2>3, <2>4, <2>5
  <1>5. CASE walk.op \in {"list", "port", "estab", "owner"}
    <2>1. /\ UNCHANGED <<listening, heard>>
          /\ tally' \in {NetStatPortWalker(r), TcpCurrEstabCount(r), LinuxWalker(r)}
      BY <1>5 DEF Deliver
    <2>2. ConnectionTypeOK'
      BY <1>1, <1>2, <2>1, TalliesGrow DEF ConnectionTypeOK, Onward
    <2>3. KnownWasHeard' /\ ListenCacheSound' /\ DirectionsKept'
      BY <1>1, <1>2, <1>5, <2>1
         DEF ConnectionIInv, KnownWasHeard, ListenCacheSound, DirectionsKept, Onward
    <2>4. QED BY <1>3, <2>2, <2>3 DEF ConnectionIInv
  <1>6. QED BY <1>1, <1>4, <1>5

\* What a step does to the Solaris stream: it closes it, it leaves it alone
\* between two calls, it goes on with a walk, or it is sigar_tcp_get.
StreamStep == \/ mib2' = Closed
              \/ Idle /\ mib2' = mib2
              \/ walk' # NoWalk
              \/ netReply'.op = "tcp"

LEMMA ConnectionKeeps ==
    ASSUME ConnectionIInv, [ConnectionNext]_connectionVars
    PROVE  ConnectionIInv' /\ (StreamStep \/ UNCHANGED connectionVars)
  <1>1. ASSUME NEW r \in Sockets, Toggle(r)
        PROVE  ConnectionIInv' /\ StreamStep
    BY <1>1, SameKeeps DEF Toggle, StreamStep, Idle
  <1>2. ASSUME NEW r \in Sockets, Deliver(r)
        PROVE  ConnectionIInv' /\ StreamStep
    BY <1>2, DeliverKeeps DEF StreamStep
  <1>3. ASSUME NEW flags, NEW protos,
               \/ ConnectionListGet(flags, protos) \/ LinuxConnectionListGet(flags, protos)
               \/ NetStatGet(flags) \/ TcpCurrEstab
        PROVE  ConnectionIInv' /\ StreamStep
    BY <1>3, WalkKeeps DEF ConnectionListGet, LinuxConnectionListGet, NetStatGet,
                           TcpCurrEstab, StreamStep
  <1>4. ASSUME NEW port, NEW proto, NetStatPortGet(port) \/ LinuxConnectionGet(port, proto)
        PROVE  ConnectionIInv' /\ StreamStep
    BY <1>4, WalkKeeps DEF NetStatPortGet, LinuxConnectionGet, StreamStep
  <1>5. ASSUME NEW port, NetListenAddressGet(port)
        PROVE  ConnectionIInv' /\ StreamStep
    <2>1. CASE Walk("address", {"server"}, {"tcp"}, port)
      BY <2>1, WalkKeeps DEF StreamStep
    <2>2. CASE Idle /\ UNCHANGED <<platform, sockets, mib2, listening, heard, walk, tally>>
      BY <2>2, SameKeeps DEF StreamStep
    <2>3. QED BY <1>5, <2>1, <2>2 DEF NetListenAddressGet
  <1>6. CASE ReadTable \/ SkipTable
    BY <1>6, TableKeeps DEF StreamStep
  <1>7. CASE WalkFails \/ WalkEnds
    <2>1. /\ walk' = NoWalk /\ tally' \in {tally, EmptyTally}
          /\ UNCHANGED <<listening, heard>> /\ mib2' = Closed
      BY <1>7 DEF WalkFails, WalkEnds, Ends, StreamAfter
    <2>2. QED BY <2>1, IdleKeeps DEF StreamStep
  <1>8. ASSUME NEW port, NEW proto, ProcPortGet(port, proto)
        PROVE  ConnectionIInv' /\ StreamStep
    <2>1. /\ walk' = NoWalk /\ tally' = EmptyTally /\ Idle
          /\ UNCHANGED <<listening, heard, mib2>>
      BY <1>8 DEF ProcPortGet, Idle
    <2>2. QED BY <2>1, IdleKeeps DEF StreamStep
  <1>9. CASE SolarisTcpGet
    <2>1. /\ walk' = NoWalk /\ tally' = EmptyTally /\ netReply'.op = "tcp"
          /\ UNCHANGED <<listening, heard>>
      BY <1>9 DEF SolarisTcpGet, Idle
    <2>2. QED BY <2>1, IdleKeeps DEF StreamStep
  <1>10. CASE SolarisRouteListGet
    <2>1. /\ walk' = NoWalk /\ tally' = EmptyTally /\ mib2' = Closed
          /\ UNCHANGED <<listening, heard>>
      BY <1>10 DEF SolarisRouteListGet, Idle
    <2>2. QED BY <2>1, IdleKeeps DEF StreamStep
  <1>11. CASE UNCHANGED connectionVars
    BY <1>11, SameKeeps DEF connectionVars
  <1>12. QED BY <1>1, <1>2, <1>3, <1>4, <1>5, <1>6, <1>7, <1>8, <1>9, <1>10, <1>11
             DEF ConnectionNext

\* The types, the cache, and what a walk knew hold together.
THEOREM ConnectionInvariant == ConnectionSpec => []ConnectionIInv
  BY ConnectionStarts, ConnectionKeeps, PTL DEF ConnectionSpec

\* The cache of listening ports says of each port what the walks met, in whatever
\* order the tables showed it.
THEOREM ListenCacheTheorem == ConnectionSpec => []ListenCacheSound
  <1>1. ConnectionIInv => ListenCacheSound
    BY DEF ConnectionIInv
  <1>2. QED BY <1>1, ConnectionInvariant, PTL

\* net_stat_get does not change its mind about the direction of a port.
THEOREM DirectionsTheorem == ConnectionSpec => []DirectionsKept
  <1>1. ConnectionIInv => DirectionsKept
    BY DEF ConnectionIInv
  <1>2. QED BY <1>1, ConnectionInvariant, PTL

\* Between two calls the stream is half read because of sigar_tcp_get only.
THEOREM StreamTheorem == ConnectionSpec => StreamLeftByTcpOnly
  <1>1. StreamStep \/ UNCHANGED connectionVars =>
          [Idle' /\ mib2'.open => (Idle /\ mib2' = mib2) \/ netReply'.op = "tcp"]_connectionVars
    BY DEF StreamStep, Idle, Closed
  <1>2. ConnectionIInv /\ [ConnectionNext]_connectionVars =>
          [Idle' /\ mib2'.open => (Idle /\ mib2' = mib2) \/ netReply'.op = "tcp"]_connectionVars
    BY <1>1, ConnectionKeeps
  <1>3. QED BY <1>2, ConnectionInvariant, PTL DEF ConnectionSpec, StreamLeftByTcpOnly
-----------------------------------------------------------------------------
(***************************************************************************)
(* The queries. First what a branch says of a process, and what a list of  *)
(* processes holds.                                                        *)
(***************************************************************************)

\* The classes without a type of their own are those of LookupType 5.
LEMMA AnyType ==
    ASSUME NEW name, NEW attr
    PROVE  /\ LookupType(name, attr) \in 0..6
           /\ LookupType(name, attr) = 5 <=> name \in AnyClasses
  <1>1. LookupType(name, attr) \in 0..6
    BY DEF LookupType
  <1>2. name \in AnyClasses => LookupType(name, attr) = 5
    BY DEF LookupType, AnyClasses, HasMember, Ui64Members, Ui32Members, DblMembers,
           ChrMembers, StrMembers
  <1>3. LookupType(name, attr) = 5 => name \in AnyClasses
    BY DEF LookupType
  <1>4. QED BY <1>1, <1>2, <1>3

\* What a branch keeps of its condition.
LEMMA BranchKeeps ==
    ASSUME NEW c \in Conditions
    PROVE  LET r == Renamed(c)
               b == Branch(r)
           IN  /\ r.op = c.op /\ r.mods = c.mods /\ r.value = c.value
               /\ b.op = c.op /\ b.mods = c.mods /\ b.value = c.value
               /\ b.name = r.name /\ b.attr = r.attr
               /\ b.type = LookupType(r.name, r.attr)
  <1>1. DOMAIN c = {"whole", "name", "attr", "mods", "op", "value"}
    BY PtqlAssumption
  <1>2. QED BY <1>1 DEF Renamed, Branch

\* A text matches a branch as it matches the condition.
LEMMA SameText ==
    ASSUME NEW c \in Conditions, NEW h, NEW n
    PROVE  LET r == Renamed(c)
               b == Branch(r)
           IN  StrMatch(b, h, n) <=> StrMatch(r, h, n)
  BY BranchKeeps DEF StrMatch

\* Query branch i is that of condition k, which was accepted; if it refers to
\* another one, that is an earlier one and of its type, and the branches are in
\* the order of the conditions.
IsBranchOf(i, k) ==
  LET r == Renamed(text[k])
      ref == text[k].value.ref
      type == LookupType(r.name, r.attr)
  IN  /\ text[k] \in Conditions
      /\ query[i] = Branch(r)
      /\ Inits(r)
      /\ type < 6
      /\ type < 4 \/ r.name = "Pid" => r.op \in NumberOps
      /\ text[k].value.kind = "ref" =>
           /\ i = k /\ ref \in 1..k-1
           /\ r.name \notin AnyClasses
           /\ text[ref] \in Conditions
           /\ Branch(Renamed(text[ref])).type = type

\* The last argument, by its negative index or as Last finds it, is one.
LEMMA ArgsSays ==
    ASSUME NEW q \in QueryPids, NEW c \in Conditions,
           ArgsBranchInit(Renamed(c))
    PROVE  LET r == Renamed(c)
               args == ProcessData[q].args
           IN  ArgsMatch(q, Branch(r)) <=>
                 IF r.attr = "-1" THEN args # <<>> /\ StrMatch(r, Last(args), r.value.text)
                                  ELSE ArgsMatch(q, r)
  <1> DEFINE r == Renamed(c)
             b == Branch(r)
             args == ProcessData[q].args
  <1>1. b.attr = r.attr /\ b.value = r.value /\ \A h, n : StrMatch(b, h, n) <=> StrMatch(r, h, n)
    BY BranchKeeps, SameText
  <1>2. args \in Seq(Seq(Int))
    BY PtqlAssumption
  <1> HIDE DEF r, b, args
  <1>3. CASE r.attr # "-1"
    BY <1>1, <1>3 DEF ArgsMatch, r, b, args
  <1>4. CASE r.attr = "-1"
    <2>1. Indices[r.attr] = -1
      BY <1>4 DEF Indices
    <2>2. ArgsMatch(q, b) <=> /\ Len(args) - 1 \in 0..Len(args)-1
                              /\ StrMatch(b, args[Len(args)], b.value.text)
      BY <1>1, <1>2, <1>4, <2>1 DEF ArgsMatch, args
    <2>3. Len(args) - 1 \in 0..Len(args)-1 <=> args # <<>>
      BY <1>2
    <2>4. QED BY <1>1, <1>4, <2>2, <2>3 DEF Last, r, b, args
  <1>5. QED BY <1>3, <1>4 DEF r, b, args

\* Where two numbers are faithful, the comparison of what is read as unsigned is
\* that of the numbers.
LEMMA UnsignedOp ==
    ASSUME NEW width \in Nat \ {0}, NEW x, NEW y, Faithful(x, y, width),
           NEW op \in NumberOps
    PROVE  NumberOp(op, x % width, y % width) <=> NumberOp(op, x, y)
  <1>1. /\ x \in Int /\ y \in Int
        /\ \/ x % width = x /\ y % width = y
           \/ x % width = x + width /\ y % width = y + width
    <2>1. CASE {x, y} \subseteq 0..width-1
      BY <2>1
    <2>2. CASE {x, y} \subseteq -width..-1
      BY <2>2
    <2>3. QED BY <2>1, <2>2 DEF Faithful
  <1> DEFINE u == x % width
             v == y % width
  <1>2. /\ u \in Int /\ v \in Int
        /\ u = v <=> x = y
        /\ u < v <=> x < y
        /\ u > v <=> x > y
        /\ u <= v <=> x <= y
        /\ u >= v <=> x >= y
    BY <1>1
  <1> HIDE DEF u, v
  <1>3. NumberOp(op, u, v) <=> NumberOp(op, x, y)
    <2>1. CASE op = "eq"
      BY <1>2, <2>1 DEF NumberOp
    <2>2. CASE op = "ne"
      BY <1>2, <2>2 DEF NumberOp
    <2>3. CASE op = "gt"
      BY <1>2, <2>3 DEF NumberOp
    <2>4. CASE op = "ge"
      BY <1>2, <2>4 DEF NumberOp
    <2>5. CASE op = "lt"
      BY <1>2, <2>5 DEF NumberOp
    <2>6. CASE op = "le"
      BY <1>2, <2>6 DEF NumberOp
    <2>7. QED BY <2>1, <2>2, <2>3, <2>4, <2>5, <2>6 DEF NumberOps
  <1>4. QED BY <1>3 DEF u, v

\* Numbers and letters are compared alike, texts as the modifiers ask.
TypedMatch(b, h, n) == IF b.type < 4 THEN NumberOp(b.op, h, n) ELSE StrMatch(b, h, n)

\* The values a branch compares can be told apart though read as unsigned.
TypedFaithful(b, h, n) ==
  /\ b.type < 4 => b.op \in NumberOps
  /\ b.type = 0 => Faithful(h, n, Ui64Size)
  /\ b.type = 1 => Faithful(h, n, Ui32Size)

\* Two values of one type are compared as one with the value of the condition.
LEMMA RefMatchTyped ==
    ASSUME NEW b, NEW h, NEW n, b.type \in 0..4, TypedFaithful(b, h, n)
    PROVE  BranchMatchRef(b, h, n) <=> TypedMatch(b, h, n)
  <1>1. CASE b.type = 0
    BY <1>1, UnsignedOp, PtqlAssumption DEF BranchMatchRef, TypedMatch, TypedFaithful, Ui64Op
  <1>2. CASE b.type = 1
    BY <1>2, UnsignedOp, PtqlAssumption DEF BranchMatchRef, TypedMatch, TypedFaithful, Ui32Op
  <1>3. CASE b.type = 2
    BY <1>3 DEF BranchMatchRef, TypedMatch, DblOp
  <1>4. CASE b.type = 3
    BY <1>4 DEF BranchMatchRef, TypedMatch, ChrOp
  <1>5. CASE b.type = 4
    BY <1>5 DEF BranchMatchRef, TypedMatch
  <1>6. QED BY <1>1, <1>2, <1>3, <1>4, <1>5

\* The same of a value that was read and the one the condition gives.
LEMMA ValueMatchTyped ==
    ASSUME NEW b, NEW h, NEW n, b.type \in 0..4, TypedFaithful(b, h, n),
           n = IF b.type < 3 THEN b.value.number
               ELSE IF b.type = 3 THEN b.value.text[1] ELSE b.value.text
    PROVE  BranchMatch(b, h) <=> TypedMatch(b, h, n)
  <1>1. CASE b.type = 0
    BY <1>1, UnsignedOp, PtqlAssumption DEF BranchMatch, TypedMatch, TypedFaithful, Ui64Op
  <1>2. CASE b.type = 1
    BY <1>2, UnsignedOp, PtqlAssumption DEF BranchMatch, TypedMatch, TypedFaithful, Ui32Op
  <1>3. CASE b.type = 2
    BY <1>3 DEF BranchMatch, TypedMatch, DblOp
  <1>4. CASE b.type = 3
    BY <1>4 DEF BranchMatch, TypedMatch, ChrOp
  <1>5. CASE b.type = 4
    BY <1>5 DEF BranchMatch, TypedMatch
  <1>6. QED BY <1>1, <1>2, <1>3, <1>4, <1>5

\* Every process has had the parent it has, and no other while all live.
ParentsKept ==
  \A p \in QueryPids : /\ parent[p] \in parents[p]
                       /\ living = QueryPids => parents[p] = {parent[p]}

\* While all live a condition is about one process and compares one value.
LEMMA OneHeld ==
    ASSUME ParentsKept, living = QueryPids, NEW p \in QueryPids, NEW c
    PROVE  /\ \A x, y \in Whom(p, c) : x = y
           /\ \A x, y \in Held(p, c) : x = y
  <1>1. \A x, y \in Whom(p, c) : x = y
    BY DEF ParentsKept, Whom
  <1>2. ASSUME NEW x \in Held(p, c), NEW y \in Held(p, c)
        PROVE  x = y
    <2> DEFINE At(q) == IF IsPpid(c) THEN parents[q]
                                     ELSE {ProcessData[q].members[<<c.name, c.attr>>]}
    <2>1. CASE c.name = "Pid"
      BY <1>2, <2>1 DEF Held
    <2>2. CASE c.name # "Pid"
      <3>1. PICK q1 \in Whom(p, c) \cap QueryPids : x \in At(q1)
        BY <1>2, <2>2 DEF Held
      <3>2. PICK q2 \in Whom(p, c) \cap QueryPids : y \in At(q2)
        BY <1>2, <2>2 DEF Held
      <3>3. q1 = q2
        BY <1>1
      <3>4. QED BY <3>1, <3>2, <3>3 DEF ParentsKept
    <2>3. QED BY <2>1, <2>2
  <1>3. QED BY <1>1, <1>2

\* What is read of a process a condition is about is among what it compares.
LEMMA ReadHeld ==
    ASSUME ParentsKept, NEW p \in QueryPids, NEW c, NEW q \in Whom(p, c) \cap QueryPids,
           c.name # "Pid"
    PROVE  Datum(q, c) \in Held(p, c)
  BY DEF ParentsKept, Datum, Held

\* What the match of one branch says of a process.
LEMMA StatusSays ==
    ASSUME living \subseteq QueryPids, ParentsKept, match.at \in Nat \ {0},
           NEW k \in DOMAIN text, IsBranchOf(match.at, k), NEW p \in QueryPids,
           NEW q \in Whom(p, Renamed(text[k])),
           text[k].value.kind = "ref" =>
             match.data[text[k].value.ref] \in Held(p, Renamed(text[text[k].value.ref]))
    PROVE  LET c == text[k]
               r == Renamed(c)
               b == query[match.at]
               status == Status(q, b)
           IN  /\ status = "yes" /\ ~PidFlag(b) /\ SignsAgree(p) => Says(p, c)
               /\ status = "yes" /\ LookupType(r.name, r.attr) < 5
                    => DataRead(q, b)[match.at] \in Held(p, r)
               /\ living = QueryPids /\ Says(p, c) /\ SignsAgree(p)
                    => status \in {"yes", "ENOTIMPL"}
  <1> DEFINE c == text[k]
             r == Renamed(c)
             b == Branch(r)
             type == LookupType(r.name, r.attr)
             ref == c.value.ref
             other == Renamed(text[ref])
             status == Status(q, b)
  <1>1. c \in Conditions /\ query[match.at] = b /\ Inits(r)
    BY DEF IsBranchOf
  <1>2. /\ b.op = r.op /\ b.mods = r.mods /\ b.value = c.value /\ r.value = c.value
        /\ b.name = r.name /\ b.attr = r.attr /\ b.type = type
    BY <1>1, BranchKeeps
  <1>3. \A h, n : StrMatch(b, h, n) <=> StrMatch(r, h, n)
    BY <1>1, SameText
  <1>5. type \in 0..6 /\ (type = 5 <=> r.name \in AnyClasses)
    BY AnyType
  <1>12. c.value.kind = "ref" => r.name \notin AnyClasses
    BY DEF IsBranchOf
  <1>13. living = QueryPids => \A x \in Whom(p, r) : x = q
    BY OneHeld
  <1>14. type = 5 => (status = "yes" <=> AnyMatch(q, b)) /\ ~(type < 5)
    BY <1>2 DEF Status
  <1>4. status = Status(q, query[match.at])
    BY <1>1
  <1> HIDE DEF status
  <1>6. CASE r.name \in {"Port", "Pid", "Service"}
    <2>1. PidFlag(b)
      BY <1>1, <1>2, <1>6 DEF PidFlag
    <2>2. type = 5
      BY <1>5, <1>6 DEF AnyClasses
    <2>3. AnyMatch(q, b)
      BY <1>2, <1>6 DEF AnyMatch, PidMatch
    <2>5. QED BY <1>1, <1>4, <1>14, <2>1, <2>2, <2>3
  <1>7. CASE r.name = "Args"
    <2>1. type = 5
      BY <1>5, <1>7 DEF AnyClasses
    <2>2. AnyMatch(q, b) <=> q \in living /\ ArgsMatch(q, b)
      BY <1>2, <1>7 DEF AnyMatch
    <2> DEFINE Meant(x) == IF r.attr = "-1"
                           THEN /\ ProcessData[x].args # <<>>
                                /\ StrMatch(r, Last(ProcessData[x].args), r.value.text)
                           ELSE ArgsMatch(x, r)
    <2>3. \A x \in QueryPids : ArgsMatch(x, b) <=> Meant(x)
      <3>1. ArgsBranchInit(r)
        BY <1>1, <1>7 DEF Inits
      <3>2. QED BY <1>1, <3>1, ArgsSays
    <2>4. Says(p, c) <=> \E x \in Whom(p, r) \cap QueryPids : Meant(x)
      BY <1>7 DEF Says
    <2> HIDE DEF Meant
    <2>6. QED BY <1>1, <1>4, <1>13, <1>14, <2>1, <2>2, <2>3, <2>4
  <1>8. CASE r.name = "Modules"
    <2>1. type = 5
      BY <1>5, <1>8 DEF AnyClasses
    <2>2. AnyMatch(q, b) <=> q \in living /\ ModulesMatch(q, b)
      BY <1>2, <1>8 DEF AnyMatch
    <2>3. \A x : ModulesMatch(x, b) <=> ModulesMatch(x, r)
      BY <1>2, <1>3 DEF ModulesMatch
    <2>4. Says(p, c) <=> \E x \in Whom(p, r) \cap QueryPids : ModulesMatch(x, r)
      BY <1>8 DEF Says
    <2>6. QED BY <1>1, <1>4, <1>13, <1>14, <2>1, <2>2, <2>3, <2>4
  <1>9. CASE r.name = "Env"
    <2>1. type = 5
      BY <1>5, <1>9 DEF AnyClasses
    <2>2. AnyMatch(q, b) <=> q \in living /\ EnvMatch(q, b)
      BY <1>2, <1>9 DEF AnyMatch
    <2>3. \A x : EnvMatch(x, b) <=> EnvMatch(x, r)
      BY <1>2, <1>3 DEF EnvMatch
    <2>4. Says(p, c) <=> \E x \in Whom(p, r) \cap QueryPids : EnvMatch(x, r)
      BY <1>9 DEF Says
    <2>6. QED BY <1>1, <1>4, <1>13, <1>14, <2>1, <2>2, <2>3, <2>4
  <1>10. CASE r.name \notin AnyClasses
    <2> DEFINE h == DataRead(q, b)[match.at]
               n == IF c.value.kind = "ref" THEN match.data[ref]
                    ELSE IF type < 3 THEN c.value.number
                    ELSE IF type = 3 THEN c.value.text[1] ELSE c.value.text
               matched == IF b.value.kind = "ref"
                          THEN BranchMatchRef(b, h, DataRead(q, b)[b.value.ref])
                          ELSE BranchMatch(b, h)
    <2>1. type \in 0..4
      BY <1>5, <1>10 DEF AnyClasses, IsBranchOf
    <2>2. Says(p, c) <=> \E x \in Held(p, r), y \in Needles(p, r) : Holds(r, x, y)
      BY <1>10 DEF Says, AnyClasses
    <2>3. status = IF r.name \in Missing THEN "ENOTIMPL"
                   ELSE IF q \in living /\ matched THEN "yes" ELSE "no"
      BY <1>2, <2>1 DEF status, Status
    <2>4. q \in living => h = Datum(q, r) /\ h \in Held(p, r)
      <3>1. q \in living => h = Datum(q, b)
        BY <1>2, <2>1 DEF DataRead
      <3>2. Datum(q, b) = Datum(q, r)
        BY <1>2 DEF Datum, IsPpid
      <3>3. QED BY <1>10, <3>1, <3>2, ReadHeld DEF AnyClasses
    <2>5. n \in Needles(p, r)
      <3>1. CASE c.value.kind = "ref"
        BY <1>2, <3>1 DEF Needles
      <3>2. CASE c.value.kind # "ref"
        BY <1>2, <1>10, <2>1, <3>2 DEF Needles, Given, AnyClasses
      <3>3. QED BY <3>1, <3>2
    <2>6. \A x, y : Holds(r, x, y) <=> TypedMatch(b, x, y)
      BY <1>2, <1>3, <1>10 DEF Holds, TypedMatch, AnyClasses
    <2>7. ASSUME SignsAgree(p), h \in Held(p, r)
          PROVE  TypedFaithful(b, h, n)
      <3>1. type < 4 => b.op \in NumberOps
        BY <1>2 DEF IsBranchOf
      <3> HIDE DEF h, n
      <3>2. type < 2 => Faithful(h, n, IF type = 0 THEN Ui64Size ELSE Ui32Size)
        BY <2>5, <2>7 DEF SignsAgree
      <3>3. QED BY <1>2, <3>1, <3>2 DEF TypedFaithful
    <2>8. c.value.kind = "ref" => DataRead(q, b)[b.value.ref] = n
      BY <1>2 DEF DataRead, IsBranchOf
    <2>9. ASSUME SignsAgree(p), h \in Held(p, r)
          PROVE  matched <=> Holds(r, h, n)
      <3>1. TypedFaithful(b, h, n)
        BY <2>7, <2>9
      <3>2. CASE c.value.kind = "ref"
        <4>1. matched <=> BranchMatchRef(b, h, n)
          BY <1>2, <2>8, <3>2
        <4> HIDE DEF h, n, matched
        <4>2. QED BY <1>2, <2>1, <2>6, <3>1, <4>1, RefMatchTyped
      <3>3. CASE c.value.kind # "ref"
        <4>1. matched <=> BranchMatch(b, h)
          BY <1>2, <3>3
        <4>2. n = IF b.type < 3 THEN b.value.number
                  ELSE IF b.type = 3 THEN b.value.text[1] ELSE b.value.text
          BY <1>2, <3>3
        <4> HIDE DEF h, n, matched
        <4>3. QED BY <1>2, <2>1, <2>6, <3>1, <4>1, <4>2, ValueMatchTyped
      <3>4. QED BY <3>2, <3>3
    <2> HIDE DEF h, n, matched
    <2>10. ASSUME living = QueryPids, Says(p, c), SignsAgree(p)
           PROVE  status \in {"yes", "ENOTIMPL"}
      <3>1. PICK x \in Held(p, r), y \in Needles(p, r) : Holds(r, x, y)
        BY <2>2, <2>10
      <3>2. q \in living
        <4>1. Whom(p, r) \cap QueryPids # {}
          BY <1>10, <3>1 DEF Held, AnyClasses
        <4>2. QED BY <1>13, <2>10, <4>1
      <3>3. x = h
        BY <2>4, <2>10, <3>2, OneHeld
      <3>4. y = n
        <4>1. CASE c.value.kind = "ref"
          BY <1>2, <2>5, <2>10, <4>1, OneHeld DEF Needles
        <4>2. CASE c.value.kind # "ref"
          <5>1. Needles(p, r) = Given(r)
            BY <1>2, <4>2 DEF Needles
          <5>2. \A u, v \in Given(r) : u = v
            BY <1>10, <2>1 DEF Given, AnyClasses
          <5>3. QED BY <2>5, <5>1, <5>2
        <4>3. QED BY <4>1, <4>2
      <3>5. QED BY <2>3, <2>4, <2>9, <2>10, <3>1, <3>2, <3>3, <3>4
    <2>11. QED BY <1>1, <1>4, <2>2, <2>3, <2>4, <2>5, <2>9, <2>10 DEF h
  <1>11. QED BY <1>6, <1>7, <1>8, <1>9, <1>10 DEF AnyClasses

\* A finite set has a sequence that lists each of its members once.
LEMMA Enumerates ==
    ASSUME NEW S, IsFiniteSet(S)
    PROVE  /\ SetToSeq(S) \in Seq(S)
           /\ Range(SetToSeq(S)) = S
           /\ IsInjective(SetToSeq(S))
  <1> DEFINE n == Cardinality(S)
  <1>1. n \in Nat /\ ExistsBijection(1..n, S)
    BY FS_CardinalityType
  <1>2. \E f \in [1..n -> S] : IsInjective(f)
    BY <1>1 DEF ExistsBijection, Bijection, Injection
  <1>3. SetToSeq(S) \in [1..n -> S] /\ IsInjective(SetToSeq(S))
    BY <1>2 DEF SetToSeq
  <1>4. SetToSeq(S) \in Injection(1..n, S)
    BY <1>3 DEF Injection
  <1>5. SetToSeq(S) \in Surjection(1..n, S)
    <2>1. IsFiniteSet(1..n) /\ Cardinality(1..n) = n
      BY <1>1, FS_Interval
    <2>2. QED BY <1>1, <1>4, <2>1, FS_Injection
  <1>6. Range(SetToSeq(S)) = S
    BY <1>3, <1>5 DEF Range, Surjection
  <1>7. SetToSeq(S) \in Seq(S)
    BY <1>1, <1>3
  <1>8. QED BY <1>3, <1>6, <1>7

\* The flattening of sequences of which all but one are empty.
LEMMA FlattensToOne ==
    ASSUME NEW n \in Nat, NEW k \in 1..n, NEW S, NEW ss \in [1..n -> Seq(S)],
           \A i \in 1..n : i # k => ss[i] = <<>>
    PROVE  FlattenSeq(ss) = ss[k]
  <1> DEFINE Flattens(f) == f = [i \in 1..n |-> IF i = 1 THEN ss[i] ELSE f[i-1] \o ss[i]]
             g == [i \in 1..n |-> IF i < k THEN <<>> ELSE ss[k]]
  <1>1. Len(ss) = n
    OBVIOUS
  <1>2. FlattenSeq(ss) = (CHOOSE f : Flattens(f))[n]
    BY <1>1 DEF FlattenSeq
  <1>3. Flattens(g)
    <2>1. ASSUME NEW i \in 1..n
          PROVE  g[i] = IF i = 1 THEN ss[i] ELSE g[i-1] \o ss[i]
      <3>1. CASE i < k
        <4>1. ss[i] = <<>> /\ g[i] = <<>> /\ (i # 1 => g[i-1] = <<>>)
          BY <3>1
        <4>2. <<>> \o <<>> = <<>>
          OBVIOUS
        <4> HIDE DEF g
        <4>3. QED BY <4>1, <4>2
      <3>2. CASE i = k
        <4>1. ss[k] \in Seq(S) /\ <<>> \o ss[k] = ss[k]
          OBVIOUS
        <4>2. i # 1 => g[i-1] = <<>>
          BY <3>2
        <4>3. g[i] = ss[i] /\ ss[i] = ss[k]
          BY <3>2
        <4> HIDE DEF g
        <4>4. QED BY <4>1, <4>2, <4>3
      <3>3. CASE i > k
        <4>1. ss[i] = <<>> /\ g[i-1] = ss[k] /\ ss[k] \in Seq(S) /\ g[i] = ss[k]
          BY <3>3
        <4>2. ss[k] \o <<>> = ss[k]
          BY <4>1
        <4>3. QED BY <3>3, <4>1, <4>2
      <3>4. QED BY <3>1, <3>2, <3>3
    <2>2. QED BY <2>1
  <1>4. ASSUME NEW f, Flattens(f)
        PROVE  f[n] = g[n]
    <2> DEFINE Bad == {i \in 1..n : f[i] # g[i]}
    <2> SUFFICES ASSUME Bad # {} PROVE FALSE
      <3> HIDE DEF Flattens, g
      <3> QED OBVIOUS
    <2>1. PICK i \in Bad : \A j \in Bad : i <= j
      <3> HIDE DEF Flattens, g
      <3>1. Bad \in SUBSET Nat
        OBVIOUS
      <3> HIDE DEF Bad
      <3>2. QED BY <3>1, SmallestNumber
    <2>2. i # 1
      BY <1>3, <1>4
    <2>3. f[i-1] = g[i-1]
      <3> HIDE DEF Flattens, g
      <3> QED BY <2>1, <2>2
    <2>4. f[i] = f[i-1] \o ss[i] /\ g[i] = g[i-1] \o ss[i]
      <3> HIDE DEF g
      <3> QED BY <1>3, <1>4, <2>2
    <2>5. QED BY <2>3, <2>4
  <1>5. FlattenSeq(ss) = g[n]
    <2> HIDE DEF Flattens, g
    <2> QED BY <1>2, <1>3, <1>4
  <1>6. QED BY <1>5

\* There are finitely many services in all.
LEMMA ServicesFinite ==
    IsFiniteSet(UNION {ProcessData[p].services : p \in QueryPids})
  <1> DEFINE T == {ProcessData[p].services : p \in QueryPids}
             f == [p \in QueryPids |-> ProcessData[p].services]
  <1>1. f \in Surjection(QueryPids, T)
    BY DEF Surjection
  <1>2. IsFiniteSet(T)
    <2> HIDE DEF f, T
    <2> QED BY <1>1, FS_Surjection, PtqlAssumption
  <1>3. \A U \in T : IsFiniteSet(U)
    BY PtqlAssumption
  <1> HIDE DEF T
  <1>4. QED BY <1>2, <1>3, FS_UNION DEF T

\* A walk over the services lists the living processes that run one.
LEMMA WalkLists ==
    ASSUME living \subseteq QueryPids, NEW b, Walks(b)
    PROVE  /\ ServicesWalk(b) \in Seq(living)
           /\ Range(ServicesWalk(b)) = {p \in living : RunsService(p, b)}
  <1> DEFINE services == UNION {ProcessData[p].services : p \in QueryPids}
             found2 == {row \in living \X services :
                          /\ row[2] \in ProcessData[row[1]].services
                          /\ StrMatch(b, row[2], b.value.text)}
             rows == SetToSeq(found2)
  <1>1. IsFiniteSet(living \X services)
    <2>1. IsFiniteSet(living)
      BY PtqlAssumption, FS_Subset
    <2> HIDE DEF services
    <2>2. QED BY <2>1, ServicesFinite, FS_Product DEF services
  <1>2. IsFiniteSet(found2)
    <2> HIDE DEF services
    <2>1. found2 \subseteq living \X services
      OBVIOUS
    <2> HIDE DEF found2
    <2>2. QED BY <1>1, <2>1, FS_Subset
  <1>3. rows \in Seq(found2) /\ Range(rows) = found2
    <2> HIDE DEF found2
    <2> QED BY <1>2, Enumerates
  <1>4. ServicesWalk(b) = [i \in DOMAIN rows |-> rows[i][1]]
    BY DEF ServicesWalk
  <1>5. \A row \in found2 : row[1] \in living
    OBVIOUS
  <1>6. {row[1] : row \in found2} = {p \in living : RunsService(p, b)}
    <2>1. ASSUME NEW row \in found2
          PROVE  row[1] \in living /\ RunsService(row[1], b)
      BY DEF RunsService
    <2>2. ASSUME NEW p \in living, RunsService(p, b)
          PROVE  \E row \in found2 : row[1] = p
      <3>1. PICK name \in ProcessData[p].services : StrMatch(b, name, b.value.text)
        BY <2>2 DEF RunsService
      <3>2. name \in services
        OBVIOUS
      <3>3. <<p, name>> \in found2
        BY <3>1, <3>2
      <3> HIDE DEF found2
      <3>4. QED BY <3>3
    <2> HIDE DEF found2
    <2>3. QED BY <2>1, <2>2
  <1> HIDE DEF rows, found2
  <1>7. ServicesWalk(b) \in Seq(living)
    <2>1. DOMAIN rows = 1..Len(rows) /\ Len(rows) \in Nat /\ \A i \in DOMAIN rows : rows[i] \in found2
      BY <1>3
    <2>2. ServicesWalk(b) \in [1..Len(rows) -> living]
      BY <1>4, <1>5, <2>1
    <2>3. QED BY <2>1, <2>2
  <1>8. Range(ServicesWalk(b)) = {row[1] : row \in found2}
    BY <1>3, <1>4 DEF Range
  <1>9. QED BY <1>6, <1>7, <1>8

\* Two pids are equal when they are as unsigned numbers.
LEMMA EqualPids ==
    ASSUME living \subseteq QueryPids, NEW p \in living, NEW q \in living
    PROVE  Ui32Op("eq", p, q) <=> p = q
  <1>1. p \in 0..Ui32Size-1 /\ q \in 0..Ui32Size-1 /\ Ui32Size \in Nat \ {0}
    BY PtqlAssumption
  <1>2. p % Ui32Size = p /\ q % Ui32Size = q
    BY <1>1
  <1>3. QED BY <1>2 DEF Ui32Op, NumberOp

\* What a condition that filters the list lists, of whatever is answered: living
\* processes, those it holds for, and all of them unless it asks for a port.
LEMMA FilterSays ==
    ASSUME living \subseteq QueryPids, NEW k \in DOMAIN text, text[k] \in Conditions,
           Inits(Renamed(text[k])), PidFlag(Renamed(text[k])),
           Renamed(text[k]).name = "Pid" => Renamed(text[k]).op \in NumberOps,
           text[k].value.kind # "ref",
           ~(text[k].name = "Port" /\ text[k].attr = "udp"),
           NEW named \in PidGet(Branch(Renamed(text[k])))
    PROVE  LET r == Renamed(text[k])
               b == Branch(r)
               listed == PidListGet(b, named)
           IN  /\ listed \in Seq(living)
               /\ \A p \in Range(listed) : SignsAgree(p) => Says(p, text[k])
               /\ r.name # "Port" =>
                    \A p \in living : SignsAgree(p) /\ Says(p, text[k]) => p \in Range(listed)
               /\ Walks(b) \/ IsInjective(listed)
  <1> DEFINE c == text[k]
             r == Renamed(c)
             b == Branch(r)
             Passed == {p \in living : \E m \in named : Ui32Op(b.op, p, m)}
  <1>1. /\ b.op = r.op /\ b.mods = r.mods /\ b.value = c.value /\ r.value = c.value
        /\ b.name = r.name /\ b.attr = r.attr
    BY BranchKeeps
  <1>2. /\ Walks(b) <=> Walks(r)
        /\ \A p : RunsService(p, b) <=> RunsService(p, r)
    BY <1>1, SameText DEF RunsService, Walks
  <1>3. CASE Walks(b)
    <2>1. r.name = "Service"
      BY <1>1, <1>3 DEF Walks
    <2>2. \A p : Says(p, c) <=> platform = "win32" /\ RunsService(p, b)
      BY <1>2, <2>1 DEF Says
    <2>3. CASE platform = "win32"
      <3>1. PidListGet(b, named) = ServicesWalk(b)
        BY <1>3, <2>3 DEF PidListGet
      <3>2. QED BY <1>3, <2>2, <2>3, <3>1, WalkLists
    <2>4. CASE platform # "win32"
      <3>1. PidListGet(b, named) = <<>>
        BY <1>3, <2>4 DEF PidListGet
      <3>2. Range(<<>>) = {}
        BY DEF Range
      <3>3. QED BY <1>3, <2>2, <2>4, <3>1, <3>2
    <2>5. QED BY <2>3, <2>4
  <1>4. CASE ~Walks(b)
    <2>1. PidListGet(b, named) = SetToSeq(Passed)
      BY <1>4 DEF PidListGet
    <2>2. IsFiniteSet(Passed) /\ Passed \subseteq living
      BY PtqlAssumption, FS_Subset
    <2>3. /\ PidListGet(b, named) \in Seq(Passed)
          /\ Range(PidListGet(b, named)) = Passed
          /\ IsInjective(PidListGet(b, named))
      <3> HIDE DEF Passed
      <3> QED BY <2>1, <2>2, Enumerates
    <2>4. ASSUME NEW p \in living, SignsAgree(p)
          PROVE  /\ (\E m \in named : Ui32Op(b.op, p, m)) => Says(p, c)
                 /\ r.name # "Port" /\ Says(p, c) => \E m \in named : Ui32Op(b.op, p, m)
      <3>1. CASE r.name = "Port"
        <4>1. r.op = "eq" /\ r.attr = "tcp"
          BY <3>1 DEF Inits, BranchInitPort, Renamed
        <4>2. \A m \in named : m \in living /\ c.value.number \in ProcessData[m].tcp
          BY <1>1, <3>1 DEF PidGet, PidPortGet, PortFlag
        <4>3. Says(p, c) <=> c.value.number \in ProcessData[p].tcp
          BY <1>1, <3>1, <4>1 DEF Says
        <4>4. \A m \in named : Ui32Op(b.op, p, m) => p = m
          BY <1>1, <4>1, <4>2, EqualPids
        <4>5. QED BY <3>1, <4>2, <4>3, <4>4
      <3>2. CASE r.name = "Service"
        <4>3. Says(p, c) <=> platform = "win32" /\ RunsService(p, b)
          BY <1>2, <3>2 DEF Says
        <4>4. named \subseteq living /\ \A m \in named : platform = "win32" /\ RunsService(m, b)
          BY <1>1, <3>2 DEF PidGet
        <4>5. platform = "win32" /\ RunsService(p, b) => p \in named
          <5>1. ASSUME NEW m \in living, RunsService(m, b), RunsService(p, b)
                PROVE  m = p
            BY <1>4, <5>1, PtqlAssumption DEF RunsService
          <5>2. QED BY <1>1, <3>2, <5>1 DEF PidGet
        <4>6. r.op = "eq"
          BY <1>1, <1>4, <3>2 DEF Walks
        <4>7. \A m \in named : Ui32Op(b.op, p, m) <=> p = m
          BY <1>1, <4>4, <4>6, EqualPids
        <4>8. QED BY <4>3, <4>4, <4>5, <4>7
      <3>3. CASE r.name = "Pid"
        <4>1. named = Given(r)
          <5>1. CASE r.attr = "Pid"
            BY <1>1, <3>3, <5>1 DEF PidGet, Given
          <5>2. CASE r.attr # "Pid"
            <6>1. r.attr \in {"PidFile", "SudoPidFile"}
              BY <3>3, <5>2 DEF Inits, BranchInitPid
            <6>2. FileRead(b) <=> FileRead(r)
              BY <1>1 DEF FileRead
            <6>3. QED BY <1>1, <3>3, <5>2, <6>1, <6>2 DEF PidGet, Given
          <5>3. QED BY <5>1, <5>2
        <4>2. Held(p, r) = {p} /\ Needles(p, r) = named
          BY <1>1, <3>3, <4>1 DEF Held, Needles
        <4>3. Says(p, c) <=> \E m \in named : NumberOp(r.op, p, m)
          BY <3>3, <4>2 DEF Says, Holds
        <4>4. \A m \in named : Faithful(p, m, Ui32Size)
          <5>1. LookupType(r.name, r.attr) = 5
            BY <3>3, AnyType DEF AnyClasses
          <5>2. QED BY <2>4, <3>3, <4>2, <5>1 DEF SignsAgree
        <4>5. \A m \in named : Ui32Op(b.op, p, m) <=> NumberOp(r.op, p, m)
          BY <1>1, <3>3, <4>4, UnsignedOp, PtqlAssumption DEF Ui32Op
        <4>6. QED BY <4>3, <4>5
      <3>4. QED BY <3>1, <3>2, <3>3 DEF PidFlag
    <2>5. PidListGet(b, named) \in Seq(living)
      <3> HIDE DEF Passed
      <3> QED BY <2>2, <2>3
    <2>6. QED BY <2>3, <2>4, <2>5
  <1>5. QED BY <1>3, <1>4

(***************************************************************************)
(* The invariant of a query: its branches are those of the conditions in   *)
(* some order, in theirs when one refers to another; what is still to be   *)
(* matched passed the filter; what was found is what all conditions hold   *)
(* for; the branches the first process has passed hold for it, and the     *)
(* data kept of them is what they are about; and while all processes live  *)
(* none that the conditions hold for has been missed.                      *)
(***************************************************************************)
Accepted(k) ==
  LET r == Renamed(text[k])
      ref == text[k].value.ref
      type == LookupType(r.name, r.attr)
  IN  /\ Inits(r)
      /\ type < 6
      /\ type < 4 \/ r.name = "Pid" => r.op \in NumberOps
      /\ text[k].value.kind = "ref" =>
           /\ ref \in 1..k-1
           /\ r.name \notin AnyClasses
           /\ Branch(Renamed(text[ref])).type = type

Parsed == text \in Seq(Conditions) /\ \A k \in DOMAIN text : Accepted(k)

Arranged(f) ==
  /\ query = [i \in DOMAIN text |-> Branch(Renamed(text[f[i]]))]
  /\ (\E k \in DOMAIN text : text[k].value.kind = "ref") => \A i \in DOMAIN text : f[i] = i

Arrangements == {f \in Bijection(DOMAIN text, DOMAIN text) : Arranged(f)}
Order == CHOOSE f \in Arrangements : TRUE

Fitting == {p \in QueryPids : SignsAgree(p) => \A k \in Filters : Says(p, text[k])}
Right == {p \in QueryPids : SignsAgree(p) => p \in Matching}

NoneMissed == living = QueryPids /\ ~AsksPort =>
  \A p \in Matching : SignsAgree(p) => p \in Range(found) \cup Range(todo)

EachOnce == /\ IsInjective(found) /\ IsInjective(todo)
            /\ Range(found) \cap Range(todo) = {}

\* Branch i was passed by the process that is matched.
Met(i) ==
  LET p == Head(todo)
      c == text[Order[i]]
      r == Renamed(c)
  IN  /\ SignsAgree(p) /\ ~PidFlag(query[i]) => Says(p, c)
      /\ LookupType(r.name, r.attr) < 5 => match.data[i] \in Held(p, r)

Progress ==
  todo # <<>> =>
    /\ match.at \in DOMAIN query
    /\ match.target \subseteq parents[Head(todo)]
    /\ \A i \in 1..match.at-1 : Met(i)

FindIInv == /\ todo \in Seq(Fitting)
            /\ found \in Seq(Right)
            /\ verdict # "ENOTIMPL" => NoneMissed
            /\ WalksServices \/ EachOnce
            /\ Progress

PtqlIInv ==
  /\ living \subseteq QueryPids /\ ParentsKept
  /\ stage \in {"building", "ready", "finding", "malformed", "done"}
  /\ stage # "done" => verdict = "none"
  /\ stage = "done" => todo = <<>>
  /\ stage = "building" => Parsed /\ query = [k \in DOMAIN text |-> Branch(Renamed(text[k]))]
  /\ stage \in {"ready", "finding", "done"} => Parsed /\ text # <<>> /\ Arrangements # {}
  /\ stage \in {"finding", "done"} /\ ~AsksUdp /\ OneFilter => FindIInv

\* Every branch is that of a condition, and every condition has one.
LEMMA ArrangedBranches ==
    ASSUME Parsed, Arrangements # {}
    PROVE  /\ DOMAIN query = DOMAIN text /\ DOMAIN text = 1..Len(text) /\ Len(query) = Len(text)
           /\ Len(text) \in Nat
           /\ \A i \in DOMAIN query : Order[i] \in DOMAIN text /\ IsBranchOf(i, Order[i])
           /\ \A k \in DOMAIN text : \E i \in DOMAIN query : Order[i] = k
           /\ \A i, j \in DOMAIN query : Order[i] = Order[j] => i = j
           /\ \A i \in DOMAIN query : text[Order[i]].value.kind = "ref" =>
                LET ref == text[Order[i]].value.ref IN Order[ref] = ref /\ ref \in 1..i-1
  <1> DEFINE f == Order
  <1>0. f \in Arrangements
    BY DEF Order
  <1> HIDE DEF f
  <1>1. /\ f \in [DOMAIN text -> DOMAIN text]
        /\ \A i, j \in DOMAIN text : f[i] = f[j] => i = j
        /\ \A k \in DOMAIN text : \E i \in DOMAIN text : f[i] = k
    BY <1>0 DEF Arrangements, Bijection, Injection, Surjection, IsInjective
  <1>2. Arranged(f)
    BY <1>0 DEF Arrangements
  <1>3. DOMAIN query = DOMAIN text
    BY <1>2 DEF Arranged
  <1>4. DOMAIN text = 1..Len(text) /\ Len(text) \in Nat /\ \A k \in DOMAIN text : text[k] \in Conditions
    BY DEF Parsed
  <1>5. ASSUME NEW i \in DOMAIN text
        PROVE  /\ IsBranchOf(i, f[i])
               /\ text[f[i]].value.kind = "ref" =>
                    f[text[f[i]].value.ref] = text[f[i]].value.ref /\ text[f[i]].value.ref \in 1..i-1
    <2> DEFINE k == f[i]
               ref == text[k].value.ref
    <2>1. k \in DOMAIN text /\ Accepted(k)
      BY <1>1 DEF Parsed
    <2>2. query[i] = Branch(Renamed(text[k]))
      BY <1>2 DEF Arranged
    <2>3. ASSUME text[k].value.kind = "ref"
          PROVE  i = k /\ ref \in 1..k-1 /\ ref \in DOMAIN text /\ f[ref] = ref
      <3>1. \A j \in DOMAIN text : f[j] = j
        BY <1>2, <2>1, <2>3 DEF Arranged
      <3>2. ref \in 1..k-1 /\ k \in 1..Len(text)
        BY <1>4, <2>1, <2>3 DEF Accepted
      <3>3. ref \in DOMAIN text
        BY <1>4, <3>2
      <3>4. QED BY <3>1, <3>2, <3>3
    <2>4. QED BY <1>4, <2>1, <2>2, <2>3 DEF Accepted, IsBranchOf
  <1>7. Len(query) = Len(text)
    <2>1. query = [i \in 1..Len(text) |-> Branch(Renamed(text[f[i]]))]
      BY <1>2, <1>4 DEF Arranged
    <2>2. QED BY <1>4, <2>1
  <1>6. QED BY <1>1, <1>3, <1>4, <1>5, <1>7 DEF f

\* A branch filters the list when its condition does.
LEMMA SameFilter ==
    ASSUME NEW i, NEW k \in DOMAIN text, IsBranchOf(i, k)
    PROVE  /\ PidFlag(query[i]) <=> k \in Filters
           /\ query[i].mods = Renamed(text[k]).mods
           /\ query[i].name = Renamed(text[k]).name
  BY BranchKeeps DEF Filters, IsBranchOf, PidFlag

\* What a process list holds, for a query of at most one filter.
LEMMA ListHolds ==
    ASSUME PtqlIInv, stage = "ready", ~AsksUdp, OneFilter, NEW answers \in AllAnswers
    PROVE  LET listed == ProcListGet(answers)
           IN  /\ listed \in Seq(Fitting)
               /\ living = QueryPids /\ ~AsksPort =>
                    \A p \in Matching : SignsAgree(p) => p \in Range(listed)
               /\ WalksServices \/ IsInjective(listed)
  <1> DEFINE listed == ProcListGet(answers)
  <1>1. Parsed /\ Arrangements # {} /\ living \subseteq QueryPids /\ IsFiniteSet(living)
    BY PtqlAssumption, FS_Subset DEF PtqlIInv
  <1>3. /\ DOMAIN query = DOMAIN text
        /\ \A i \in DOMAIN query : Order[i] \in DOMAIN text /\ IsBranchOf(i, Order[i])
        /\ \A k \in DOMAIN text : \E i \in DOMAIN query : Order[i] = k
        /\ \A i, j \in DOMAIN query : Order[i] = Order[j] => i = j
    BY <1>1, ArrangedBranches
  <1>4. \A i \in DOMAIN query : PidFlag(query[i]) <=> Order[i] \in Filters
    BY <1>3, SameFilter
  <1>5. CASE Filtering = {}
    <2>1. listed = SetToSeq(living)
      BY <1>5 DEF ProcListGet
    <2>2. Filters = {}
      BY <1>3, <1>4, <1>5 DEF Filters, Filtering
    <2>3. Fitting = QueryPids
      BY <2>2 DEF Fitting
    <2>4. /\ listed \in Seq(living) /\ Range(listed) = living /\ IsInjective(listed)
      BY <1>1, <2>1, Enumerates
    <2> HIDE DEF listed
    <2>5. listed \in Seq(QueryPids)
      BY <1>1, <2>4
    <2>6. QED BY <2>3, <2>4, <2>5 DEF Matching, listed
  <1>6. ASSUME NEW i \in Filtering
        PROVE  /\ listed \in Seq(Fitting)
               /\ living = QueryPids /\ ~AsksPort =>
                    \A p \in Matching : SignsAgree(p) => p \in Range(listed)
               /\ WalksServices \/ IsInjective(listed)
    <2> DEFINE k == Order[i]
               c == text[k]
               one == PidListGet(query[i], answers[i])
               ss == [j \in DOMAIN query |-> IF j \in Filtering
                                             THEN PidListGet(query[j], answers[j]) ELSE <<>>]
    <2>0. i \in DOMAIN query /\ PidFlag(query[i])
      BY DEF Filtering
    <2>1. k \in Filters /\ \A j \in DOMAIN query : j # i => j \notin Filtering
      <3>1. k \in Filters
        BY <1>4, <2>0
      <3>2. ASSUME NEW j \in DOMAIN query, j # i, j \in Filtering
            PROVE  FALSE
        <4>1. Order[j] \in Filters
          BY <1>4, <3>2 DEF Filtering
        <4>2. Order[j] = Order[i]
          BY <3>1, <4>1 DEF OneFilter
        <4>3. QED BY <1>3, <2>0, <3>2, <4>2
      <3>3. QED BY <3>1, <3>2
    <2>2. Filters = {k}
      BY <2>1 DEF OneFilter
    <2>3. /\ k \in DOMAIN text /\ IsBranchOf(i, k)
          /\ c \in Conditions /\ Inits(Renamed(c)) /\ query[i] = Branch(Renamed(c))
          /\ Renamed(c).name = "Pid" => Renamed(c).op \in NumberOps
          /\ PidFlag(Renamed(c))
      BY <1>3, <2>0, <2>1 DEF IsBranchOf, Filters
    <2>4. ~(c.name = "Port" /\ c.attr = "udp") /\ (Renamed(c).name = "Port" => AsksPort)
      BY <2>3 DEF AsksUdp, AsksPort
    <2>5. c.value.kind # "ref"
      BY <2>3 DEF IsBranchOf, PidFlag, AnyClasses
    <2>6. answers[i] \in PidGet(query[i])
      BY DEF AllAnswers
    <2>7. /\ one \in Seq(living)
          /\ \A p \in Range(one) : SignsAgree(p) => Says(p, c)
          /\ Renamed(c).name # "Port" =>
               \A p \in living : SignsAgree(p) /\ Says(p, c) => p \in Range(one)
          /\ Walks(query[i]) \/ IsInjective(one)
      BY <1>1, <2>3, <2>4, <2>5, <2>6, FilterSays
    <2>8. listed = one
      <3>1. listed = FlattenSeq(ss)
        BY DEF ProcListGet
      <3>2. DOMAIN query = 1..Len(text) /\ Len(text) \in Nat
        BY <1>1, <1>3 DEF Parsed
      <3>3. /\ ss \in [1..Len(text) -> Seq(living)] /\ ss[i] = one
            /\ \A j \in 1..Len(text) : j # i => ss[j] = <<>>
        <4>1. \A j \in 1..Len(text) : ss[j] = IF j = i THEN one ELSE <<>>
          BY <2>1, <3>2
        <4>2. one \in Seq(living) /\ <<>> \in Seq(living)
          BY <2>7
        <4> HIDE DEF one
        <4>3. QED BY <2>0, <3>2, <4>1, <4>2
      <3> HIDE DEF ss, listed, one
      <3>4. QED BY <2>0, <3>1, <3>2, <3>3, FlattensToOne
    <2>9. Fitting = {p \in QueryPids : SignsAgree(p) => Says(p, c)}
      BY <2>2 DEF Fitting
    <2> HIDE DEF one, listed
    <2>10. one \in Seq(Fitting)
      <3>1. DOMAIN one = 1..Len(one) /\ Len(one) \in Nat /\ \A j \in DOMAIN one : one[j] \in living
        BY <2>7
      <3>2. \A j \in DOMAIN one : one[j] \in Fitting
        BY <1>1, <2>7, <2>9, <3>1 DEF Range
      <3>3. one \in [1..Len(one) -> Fitting]
        BY <2>7, <3>1, <3>2
      <3>4. QED BY <3>1, <3>3
    <2>11. \A p \in Matching : p \in QueryPids /\ Says(p, c)
      BY <2>3 DEF Matching
    <2>12. QED BY <2>0, <2>4, <2>7, <2>8, <2>10, <2>11 DEF WalksServices
  <1>7. QED BY <1>5, <1>6

\* What conditions say depends on the text, the platform and the parents only.
LEMMA SaysStays ==
    ASSUME UNCHANGED <<platform, text, parents>>
    PROVE  /\ Filters' = Filters /\ Fitting' = Fitting /\ Right' = Right /\ Matching' = Matching
           /\ AsksUdp' <=> AsksUdp
           /\ AsksPort' <=> AsksPort
           /\ OneFilter' <=> OneFilter
           /\ Parsed' <=> Parsed
           /\ \A p : SignsAgree(p)' <=> SignsAgree(p)
           /\ \A p, c : Held(p, c)' = Held(p, c) /\ (Says(p, c)' <=> Says(p, c))
  <1>0. \A p, c : Whom(p, c)' = Whom(p, c)
    BY DEF Whom
  <1>1. \A p, c : Held(p, c)' = Held(p, c)
    BY <1>0 DEF Held
  <1>2. \A p, c : Needles(p, c)' = Needles(p, c)
    BY <1>1 DEF Needles, Given, FileRead
  <1>3. \A p, c : Says(p, c)' <=> Says(p, c)
    BY <1>0, <1>1, <1>2 DEF Says
  <1>4. \A p : SignsAgree(p)' <=> SignsAgree(p)
    BY <1>1, <1>2 DEF SignsAgree
  <1>5. Filters' = Filters
    BY DEF Filters
  <1>6. Fitting' = Fitting /\ Matching' = Matching /\ Right' = Right
    BY <1>3, <1>4, <1>5 DEF Fitting, Matching, Right
  <1>7. /\ (AsksUdp' <=> AsksUdp) /\ (AsksPort' <=> AsksPort)
        /\ (OneFilter' <=> OneFilter) /\ (Parsed' <=> Parsed)
    BY <1>5 DEF AsksUdp, AsksPort, OneFilter, Parsed, Accepted
  <1>8. QED BY <1>1, <1>3, <1>4, <1>5, <1>6, <1>7

\* A process that gets another parent: what held of it holds.
LEMMA SaysGrows ==
    ASSUME UNCHANGED <<platform, text>>, \A p \in QueryPids : parents[p] \subseteq parents'[p],
           NEW p \in QueryPids
    PROVE  /\ \A c : Held(p, c) \subseteq Held(p, c)' /\ (Says(p, c) => Says(p, c)')
           /\ SignsAgree(p)' => SignsAgree(p)
  <1>0. \A c : Whom(p, c) \subseteq Whom(p, c)'
    BY DEF Whom
  <1>1. ASSUME NEW c PROVE Held(p, c) \subseteq Held(p, c)'
    BY <1>0 DEF Held
  <1>2. ASSUME NEW c PROVE Needles(p, c) \subseteq Needles(p, c)'
    BY <1>1 DEF Needles, Given, FileRead
  <1>3. ASSUME NEW c, Says(p, c) PROVE Says(p, c)'
    <2> DEFINE r == Renamed(c)
    <2>1. Whom(p, r) \subseteq Whom(p, r)' /\ Held(p, r) \subseteq Held(p, r)'
          /\ Needles(p, r) \subseteq Needles(p, r)'
      BY <1>0, <1>1, <1>2
    <2>2. CASE r.name \in {"Service", "Port"}
      BY <1>3, <2>2 DEF Says
    <2>3. CASE r.name = "Args"
      BY <1>3, <2>1, <2>3 DEF Says
    <2>4. CASE r.name = "Modules"
      BY <1>3, <2>1, <2>4 DEF Says
    <2>5. CASE r.name = "Env"
      BY <1>3, <2>1, <2>5 DEF Says
    <2>6. CASE r.name \notin {"Service", "Port", "Args", "Modules", "Env"}
      <3>1. PICK h \in Held(p, r), n \in Needles(p, r) : Holds(r, h, n)
        BY <1>3, <2>6 DEF Says
      <3>2. h \in Held(p, r)' /\ n \in Needles(p, r)' /\ Holds(r, h, n)'
        BY <2>1, <3>1
      <3>3. QED BY <2>6, <3>2 DEF Says
    <2>7. QED BY <2>2, <2>3, <2>4, <2>5, <2>6
  <1>4. SignsAgree(p)' => SignsAgree(p)
    BY <1>1, <1>2 DEF SignsAgree
  <1>5. QED BY <1>1, <1>3, <1>4

\* The order of the branches is that of query and text.
LEMMA ArrangementsStay ==
    ASSUME UNCHANGED <<text, query>>
    PROVE  Arrangements' = Arrangements /\ Order' = Order /\ (WalksServices' <=> WalksServices)
  <1>1. Arrangements' = Arrangements
    BY DEF Arrangements, Arranged
  <1>2. QED BY <1>1 DEF Order, WalksServices

\* A query starts with no condition.
LEMMA PtqlStarts == PtqlInit => PtqlIInv
  <1> SUFFICES ASSUME PtqlInit PROVE PtqlIInv
    OBVIOUS
  <1>1. Parsed /\ query = [k \in DOMAIN text |-> Branch(Renamed(text[k]))]
    BY DEF PtqlInit, Parsed
  <1>2. ParentsKept
    BY DEF PtqlInit, ParentsKept
  <1>3. QED BY <1>1, <1>2 DEF PtqlInit, PtqlIInv

\* What Append makes, as a function.
LEMMA AppendIs ==
    ASSUME NEW S, NEW s \in Seq(S), NEW e \in S
    PROVE  Append(s, e) = [k \in 1..Len(s)+1 |-> IF k = Len(s)+1 THEN e ELSE s[k]]
  <1> DEFINE a == Append(s, e)
             g == [k \in 1..Len(s)+1 |-> IF k = Len(s)+1 THEN e ELSE s[k]]
  <1>1. /\ Len(a) = Len(s)+1 /\ DOMAIN a = 1..Len(s)+1 /\ a \in Seq(S)
        /\ \A k \in 1..Len(s) : a[k] = s[k]
        /\ a[Len(s)+1] = e
    OBVIOUS
  <1>2. a \in [1..Len(s)+1 -> S] /\ g \in [1..Len(s)+1 -> S]
    <2> HIDE DEF a
    <2> QED BY <1>1
  <1>3. ASSUME NEW k \in 1..Len(s)+1 PROVE a[k] = g[k]
    <2>1. k = Len(s)+1 \/ k \in 1..Len(s)
      OBVIOUS
    <2> HIDE DEF a
    <2>2. QED BY <1>1, <2>1
  <1> HIDE DEF a, g
  <1>4. a = g
    BY <1>2, <1>3
  <1>5. QED BY <1>4 DEF a, g

\* The branch added is that of the condition added, or the query is given up.
LEMMA AddBranchKeeps ==
    ASSUME PtqlIInv, NEW c \in Conditions, AddBranch(c)
    PROVE  PtqlIInv'
  <1>1. /\ Parsed /\ query = [k \in DOMAIN text |-> Branch(Renamed(text[k]))]
        /\ stage = "building" /\ verdict = "none" /\ living \subseteq QueryPids /\ ParentsKept
        /\ verdict' = verdict /\ living' = living /\ ParentsKept'
    BY DEF PtqlIInv, AddBranch, world, search, ParentsKept
  <1>2. CASE ~(BranchParse(c) /\ BranchAdd(Renamed(c), Len(query) + 1))
    BY <1>1, <1>2 DEF AddBranch, PtqlIInv
  <1>3. CASE BranchParse(c) /\ BranchAdd(Renamed(c), Len(query) + 1)
    <2> DEFINE r == Renamed(c)
    <2>9. PICK n \in Nat : n = Len(text)
      BY <1>1 DEF Parsed
    <2>1. /\ text' = Append(text, c) /\ query' = Append(query, Branch(r))
          /\ UNCHANGED stage
      BY <1>3 DEF AddBranch
    <2>2. /\ text \in Seq(Conditions) /\ DOMAIN text = 1..n /\ Len(query) = n
      BY <1>1, <2>9 DEF Parsed
    <2>3. /\ text' \in Seq(Conditions) /\ DOMAIN text' = 1..n+1
          /\ text'[n+1] = c /\ \A k \in 1..n : text'[k] = text[k]
      BY <2>1, <2>2, <2>9
    <2>4. query' = [k \in DOMAIN text' |-> Branch(Renamed(text'[k]))]
      <3>1. query' = [k \in 1..n+1 |-> IF k = n+1 THEN Branch(r) ELSE query[k]]
        <4>1. query \in Seq({Branch(Renamed(text[k])) : k \in 1..n} \cup {Branch(r)})
          BY <1>1, <2>2
        <4>2. Len(query) = n /\ DOMAIN query = 1..n
          BY <2>2, <4>1
        <4>3. query' = [k \in 1..Len(query)+1 |-> IF k = Len(query)+1 THEN Branch(r)
                                                                     ELSE query[k]]
          BY <2>1, <4>1, AppendIs
        <4>4. QED BY <4>2, <4>3
      <3>2. QED BY <1>1, <2>2, <2>3, <3>1
    <2>5. /\ Inits(r) /\ LookupType(r.name, r.attr) < 6
          /\ LookupType(r.name, r.attr) < 4 \/ r.name = "Pid" => r.op \in NumberOps
      BY <1>3 DEF BranchAdd, AddBranch, Comparable
    <2>6. ASSUME c.value.kind = "ref"
          PROVE  /\ c.value.ref \in 1..n /\ r.name \notin AnyClasses
                 /\ Branch(Renamed(text[c.value.ref])).type = LookupType(r.name, r.attr)
      <3>1. r.value = c.value
        BY BranchKeeps
      <3>2. c.value.ref \in 1..n
        BY <1>3, <2>2, <2>6, <3>1 DEF BranchAdd
      <3>3. /\ LookupType(r.name, r.attr) < 5
            /\ query[c.value.ref].type = LookupType(r.name, r.attr)
        BY <1>1, <2>2, <2>6, <3>1, <3>2 DEF AddBranch, Comparable
      <3>4. r.name \notin AnyClasses
        BY <3>3, AnyType
      <3>5. QED BY <1>1, <2>2, <3>2, <3>3, <3>4
    <2>7. Parsed'
      <3>1. \A k \in 1..n : Accepted(k)
        BY <1>1, <2>2 DEF Parsed
      <3>2. \A k \in 1..n : Accepted(k)'
        <4>1. ASSUME NEW k \in 1..n
              PROVE  Accepted(k)'
          <5>1. text[k].value.kind = "ref" => text[k].value.ref \in 1..n
            BY <2>2, <2>3, <3>1 DEF Accepted
          <5>2. text'[k] = text[k]
            BY <2>3
          <5>3. text[k].value.kind = "ref" => text'[text[k].value.ref] = text[text[k].value.ref]
            BY <2>3, <5>1
          <5>4. Accepted(k)
            BY <3>1
          <5>5. QED BY <5>1, <5>2, <5>3, <5>4 DEF Accepted
        <4>2. QED BY <4>1
      <3>3. Accepted(n+1)'
        <4>1. text'[n+1] = c /\ (c.value.kind = "ref" => text'[c.value.ref] = text[c.value.ref])
          BY <2>3, <2>6
        <4>2. c.value.kind = "ref" => c.value.ref \in 1..(n+1)-1
          BY <2>6
        <4>3. QED BY <2>5, <2>6, <4>1, <4>2 DEF Accepted
      <3>4. QED BY <2>2, <2>3, <3>2, <3>3 DEF Parsed
    <2>8. QED BY <1>1, <2>1, <2>4, <2>7 DEF PtqlIInv
  <1>4. QED BY <1>2, <1>3

\* Taking the head off a list takes one member out of its range.
LEMMA HeadAndTail ==
    ASSUME NEW S, NEW s \in Seq(S), s # <<>>
    PROVE  /\ Head(s) \in S /\ Tail(s) \in Seq(S)
           /\ Range(s) = {Head(s)} \cup Range(Tail(s))
           /\ IsInjective(s) => IsInjective(Tail(s)) /\ Head(s) \notin Range(Tail(s))
  <1>1. /\ Len(s) \in Nat \ {0} /\ DOMAIN s = 1..Len(s) /\ Head(s) = s[1]
        /\ Tail(s) \in Seq(S) /\ DOMAIN Tail(s) = 1..Len(s)-1
        /\ \A i \in 1..Len(s)-1 : Tail(s)[i] = s[i+1]
    OBVIOUS
  <1>2. Range(s) = {Head(s)} \cup Range(Tail(s))
    <2>1. ASSUME NEW i \in DOMAIN s PROVE s[i] \in {Head(s)} \cup Range(Tail(s))
      <3>1. i = 1 \/ (i-1 \in DOMAIN Tail(s) /\ Tail(s)[i-1] = s[i])
        BY <1>1
      <3>2. QED BY <1>1, <3>1 DEF Range
    <2>2. ASSUME NEW i \in DOMAIN Tail(s) PROVE Tail(s)[i] \in Range(s)
      <3>1. i+1 \in DOMAIN s /\ Tail(s)[i] = s[i+1]
        BY <1>1
      <3>2. QED BY <3>1 DEF Range
    <2>3. Head(s) \in Range(s)
      BY <1>1 DEF Range
    <2>4. QED BY <2>1, <2>2, <2>3 DEF Range
  <1>3. ASSUME IsInjective(s)
        PROVE  IsInjective(Tail(s)) /\ Head(s) \notin Range(Tail(s))
    <2>1. \A i, j \in DOMAIN s : s[i] = s[j] => i = j
      BY <1>3 DEF IsInjective
    <2>2. \A i \in DOMAIN Tail(s) : i+1 \in DOMAIN s /\ Tail(s)[i] = s[i+1] /\ i \in Nat /\ i # 0
      BY <1>1
    <2>3. \A i, j \in DOMAIN Tail(s) : Tail(s)[i] = Tail(s)[j] => i = j
      BY <2>1, <2>2
    <2>4. \A i \in DOMAIN Tail(s) : Tail(s)[i] # Head(s)
      BY <1>1, <2>1, <2>2
    <2>5. QED BY <2>3, <2>4 DEF IsInjective, Range
  <1>4. QED BY <1>1, <1>2, <1>3

\* Appending adds one member to the range.
LEMMA AppendAtEnd ==
    ASSUME NEW S, NEW s \in Seq(S), NEW e \in S
    PROVE  /\ Append(s, e) \in Seq(S)
           /\ Range(Append(s, e)) = Range(s) \cup {e}
           /\ IsInjective(s) /\ e \notin Range(s) => IsInjective(Append(s, e))
  <1> DEFINE a == Append(s, e)
             n == Len(s)
  <1>1. /\ n \in Nat /\ DOMAIN s = 1..n /\ DOMAIN a = 1..n+1 /\ a \in Seq(S)
        /\ \A i \in 1..n : a[i] = s[i]
        /\ a[n+1] = e
    OBVIOUS
  <1> HIDE DEF a, n
  <1>2. \A i \in DOMAIN a : i = n+1 \/ i \in DOMAIN s
    BY <1>1
  <1>3. n+1 \in DOMAIN a /\ DOMAIN s \subseteq DOMAIN a
    BY <1>1
  <1>4. Range(a) = Range(s) \cup {e}
    BY <1>1, <1>2, <1>3 DEF Range
  <1>5. IsInjective(s) /\ e \notin Range(s) => IsInjective(a)
    BY <1>1, <1>2 DEF IsInjective, Range
  <1>6. QED BY <1>1, <1>4, <1>5 DEF a

\* Sorting the branches leaves a branch for each condition.
LEMMA QueryCreateKeeps ==
    ASSUME PtqlIInv, QueryCreate
    PROVE  PtqlIInv'
  <1>1. /\ Parsed /\ query = [k \in DOMAIN text |-> Branch(Renamed(text[k]))]
        /\ verdict = "none" /\ living \subseteq QueryPids /\ query' \in Ordered
        /\ stage' = "ready" /\ UNCHANGED <<platform, text, living, verdict, parent, parents>>
        /\ query # <<>>
    BY DEF PtqlIInv, QueryCreate, world, search
  <1>2. HasRef <=> \E k \in DOMAIN text : text[k].value.kind = "ref"
    <2>1. \A k \in DOMAIN text : text[k] \in Conditions
      BY <1>1 DEF Parsed
    <2>2. QED BY <1>1, <2>1, BranchKeeps DEF HasRef
  <1>3. Arrangements' # {}
    <2>1. CASE HasRef
      <3> DEFINE id == [k \in DOMAIN text |-> k]
      <3>1. query' = query
        BY <1>1, <2>1 DEF Ordered
      <3>2. id \in Bijection(DOMAIN text, DOMAIN text)
        BY DEF Bijection, Injection, Surjection, IsInjective
      <3>3. Arranged(id)'
        BY <1>1, <3>1 DEF Arranged
      <3>4. QED BY <1>1, <3>2, <3>3 DEF Arrangements
    <2>2. CASE ~HasRef
      <3>1. query' \in Permuted(query) /\ DOMAIN query = DOMAIN text
        BY <1>1, <2>2 DEF Ordered
      <3>2. PICK f \in Bijection(DOMAIN text, DOMAIN text) :
              query' = [i \in DOMAIN text |-> query[f[i]]]
        BY <3>1 DEF Permuted
      <3>3. f \in [DOMAIN text -> DOMAIN text]
        BY <3>2 DEF Bijection, Injection
      <3>4. Arranged(f)'
        BY <1>1, <1>2, <2>2, <3>2, <3>3 DEF Arranged
      <3>5. QED BY <1>1, <3>2, <3>4 DEF Arrangements
    <2>3. QED BY <2>1, <2>2
  <1>4. Parsed'
    BY <1>1, SaysStays
  <1>5. text' # <<>>
    BY <1>1
  <1>6. ParentsKept'
    BY <1>1 DEF PtqlIInv, ParentsKept
  <1>7. QED BY <1>1, <1>3, <1>4, <1>5, <1>6 DEF PtqlIInv

\* The next query starts anew.
LEMMA QueryDestroyKeeps ==
    ASSUME PtqlIInv, QueryDestroy
    PROVE  PtqlIInv'
  <1>1. Parsed'
    BY DEF QueryDestroy, Parsed
  <1>2. (query = [k \in DOMAIN text |-> Branch(Renamed(text[k]))])'
    BY DEF QueryDestroy
  <1>3. ParentsKept'
    BY DEF QueryDestroy, ParentsKept
  <1>4. QED BY <1>1, <1>2, <1>3 DEF QueryDestroy, PtqlIInv

\* The empty list holds nothing.
LEMMA NothingListed ==
    Range(<<>>) = {} /\ IsInjective(<<>>) /\ \A S : <<>> \in Seq(S)
  BY DEF Range, IsInjective

\* A list of members of a set has its range in it.
LEMMA ListedWithin ==
    ASSUME NEW S, NEW s \in Seq(S)
    PROVE  Range(s) \subseteq S
  <1>1. \A i \in DOMAIN s : s[i] \in S
    OBVIOUS
  <1>2. QED BY <1>1 DEF Range

\* A list of members of a set is one of those of a larger set.
LEMMA ListedInMore ==
    ASSUME NEW S, NEW T, S \subseteq T, NEW s \in Seq(S)
    PROVE  s \in Seq(T)
  <1>1. s \in [1..Len(s) -> S] /\ Len(s) \in Nat
    OBVIOUS
  <1>2. s \in [1..Len(s) -> T]
    BY <1>1
  <1>3. QED BY <1>1, <1>2

\* A match begins with the first branch, of which there is one.
LEMMA BeginsAtFirst ==
    Parsed /\ text # <<>> /\ Arrangements # {} /\ match = FirstBranch => Progress
  <1> SUFFICES ASSUME Parsed, text # <<>>, Arrangements # {}, match = FirstBranch
               PROVE  Progress
    OBVIOUS
  <1>1. DOMAIN query = 1..Len(text) /\ Len(text) \in Nat
    BY ArrangedBranches
  <1>2. Len(text) # 0
    BY DEF Parsed
  <1>3. match.at = 1 /\ match.target = {}
    BY DEF FirstBranch
  <1>4. QED BY <1>1, <1>2, <1>3 DEF Progress

\* The list of processes holds what passes the filter, and all of it.
LEMMA QueryFindKeeps ==
    ASSUME PtqlIInv, QueryFind
    PROVE  PtqlIInv'
  <1>1. /\ stage = "ready" /\ stage' = "finding" /\ found' = <<>> /\ match' = FirstBranch
        /\ UNCHANGED <<platform, text, query, living, parent, parents, verdict>>
    BY DEF QueryFind, parsing, world
  <1>0. PICK answers \in AllAnswers : todo' = ProcListGet(answers)
    BY DEF QueryFind
  <1>2. /\ Filters' = Filters /\ Fitting' = Fitting /\ Right' = Right /\ Matching' = Matching
        /\ (AsksUdp' <=> AsksUdp) /\ (AsksPort' <=> AsksPort)
        /\ (OneFilter' <=> OneFilter) /\ (Parsed' <=> Parsed)
        /\ \A p : SignsAgree(p)' <=> SignsAgree(p)
    BY <1>1, SaysStays
  <1>3. Arrangements' = Arrangements /\ (WalksServices' <=> WalksServices)
    BY <1>1, ArrangementsStay
  <1>6. /\ Parsed' /\ text' # <<>> /\ Arrangements' # {} /\ ParentsKept' /\ verdict' = "none"
        /\ living' \subseteq QueryPids
    BY <1>1, <1>2, <1>3 DEF PtqlIInv, ParentsKept
  <1>4. ~AsksUdp /\ OneFilter => FindIInv'
    <2> SUFFICES ASSUME ~AsksUdp, OneFilter PROVE FindIInv'
      OBVIOUS
    <2>1. /\ ProcListGet(answers) \in Seq(Fitting)
          /\ living = QueryPids /\ ~AsksPort =>
               \A p \in Matching : SignsAgree(p) => p \in Range(ProcListGet(answers))
          /\ WalksServices \/ IsInjective(ProcListGet(answers))
      BY <1>1, ListHolds
    <2>2. Range(<<>>) = {} /\ IsInjective(<<>>) /\ <<>> \in Seq(Right)
      BY NothingListed
    <2>3. NoneMissed'
      BY <1>0, <1>1, <1>2, <2>1 DEF NoneMissed
    <2>4. WalksServices' \/ EachOnce'
      BY <1>0, <1>1, <1>3, <2>1, <2>2 DEF EachOnce
    <2>5. Progress'
      <3>1. (Parsed /\ text # <<>> /\ Arrangements # {} /\ match = FirstBranch)'
        BY <1>1, <1>6
      <3>2. QED BY <3>1, BeginsAtFirst, PTL
    <2>6. QED BY <1>0, <1>1, <1>2, <2>1, <2>2, <2>3, <2>4, <2>5 DEF FindIInv
  <1>5. QED BY <1>1, <1>2, <1>4, <1>6 DEF PtqlIInv

\* A process that goes away leaves its children to another parent; what holds of
\* a process holds of it with all parents it had.
LEMMA ExitsKeeps ==
    ASSUME PtqlIInv, NEW p \in QueryPids, Exits(p)
    PROVE  PtqlIInv'
  <1>1. /\ stage = "finding" /\ p \in living /\ living' = living \ {p}
        /\ UNCHANGED <<platform, text, query, stage, todo, match, found, verdict>>
        /\ parents' = [x \in QueryPids |-> parents[x] \cup {parent'[x]}]
    BY DEF Exits, parsing, search
  <1>2. /\ living \subseteq QueryPids /\ living' \subseteq QueryPids /\ living' # QueryPids
        /\ verdict = "none" /\ Parsed /\ text # <<>> /\ Arrangements # {}
    BY <1>1 DEF PtqlIInv
  <1>3. ParentsKept'
    BY <1>1, <1>2 DEF ParentsKept
  <1>4. \A x \in QueryPids : parents[x] \subseteq parents'[x]
    BY <1>1
  <1>5. ASSUME NEW x \in QueryPids
        PROVE  /\ \A c : Held(x, c) \subseteq Held(x, c)' /\ (Says(x, c) => Says(x, c)')
               /\ SignsAgree(x)' => SignsAgree(x)
    BY <1>1, <1>4, SaysGrows
  <1>6. Filters' = Filters
    BY <1>1 DEF Filters
  <1>7. /\ (AsksUdp' <=> AsksUdp) /\ (OneFilter' <=> OneFilter) /\ (Parsed' <=> Parsed)
    BY <1>1, <1>6 DEF AsksUdp, OneFilter, Parsed, Accepted
  <1>8. Arrangements' = Arrangements /\ Order' = Order /\ (WalksServices' <=> WalksServices)
    BY <1>1, ArrangementsStay
  <1>9. Matching \subseteq Matching'
    BY <1>1, <1>5 DEF Matching
  <1>10. Fitting \subseteq Fitting' /\ Right \subseteq Right'
    BY <1>1, <1>5, <1>6, <1>9 DEF Fitting, Right
  <1>11. ASSUME FindIInv PROVE FindIInv'
    <2>1. todo' \in Seq(Fitting') /\ found' \in Seq(Right')
      BY <1>1, <1>10, <1>11, ListedInMore DEF FindIInv
    <2>2. WalksServices' \/ EachOnce'
      BY <1>1, <1>8, <1>11 DEF FindIInv, EachOnce
    <2>3. NoneMissed'
      BY <1>2 DEF NoneMissed
    <2>4. ASSUME todo # <<>>
          PROVE  /\ (match.at \in DOMAIN query)' /\ (match.target \subseteq parents[Head(todo)])'
                 /\ \A i \in 1..match.at-1 : Met(i)'
      <3>1. Head(todo) \in QueryPids
        BY <1>11, <2>4, HeadAndTail DEF FindIInv, Fitting
      <3>4. PICK h \in QueryPids : h = Head(todo)
        BY <3>1
      <3>2. /\ match.at \in DOMAIN query /\ match.target \subseteq parents[h]
            /\ \A i \in 1..match.at-1 : Met(i)
        BY <1>11, <2>4, <3>4 DEF FindIInv, Progress
      <3>3. ASSUME NEW i \in 1..match.at-1 PROVE Met(i)'
        <4>1. PICK c, r : c = text[Order[i]] /\ r = Renamed(c)
          OBVIOUS
        <4>2. /\ SignsAgree(h) /\ ~PidFlag(query[i]) => Says(h, c)
              /\ LookupType(r.name, r.attr) < 5 => match.data[i] \in Held(h, r)
          BY <3>2, <3>4, <4>1 DEF Met
        <4>3. Head(todo') = h /\ text'[Order'[i]] = c /\ query'[i] = query[i] /\ match' = match
          BY <1>1, <1>8, <3>4, <4>1
        <4>4. /\ Held(h, r) \subseteq Held(h, r)' /\ (Says(h, c) => Says(h, c)')
              /\ SignsAgree(h)' => SignsAgree(h)
          BY <1>5
        <4>5. /\ SignsAgree(h)' /\ ~PidFlag(query'[i]) => Says(h, c)'
              /\ LookupType(r.name, r.attr) < 5 => match'.data[i] \in Held(h, r)'
          BY <4>2, <4>3, <4>4
        <4>6. QED BY <4>1, <4>3, <4>5 DEF Met
      <3>5. QED BY <1>1, <1>4, <3>2, <3>3, <3>4
    <2>5. Progress'
      BY <1>1, <2>4 DEF Progress
    <2>6. QED BY <2>1, <2>2, <2>3, <2>5 DEF FindIInv
  <1>12. QED BY <1>1, <1>2, <1>3, <1>7, <1>8, <1>11 DEF PtqlIInv

\* What a step of the match leaves alone.
LEMMA MatchLeaves ==
    ASSUME PtqlIInv, UNCHANGED <<platform, parsing, world>>
    PROVE  /\ UNCHANGED <<platform, text, query, living, parent, parents>>
           /\ Fitting' = Fitting /\ Right' = Right /\ Matching' = Matching
           /\ (AsksUdp' <=> AsksUdp) /\ (AsksPort' <=> AsksPort)
           /\ (OneFilter' <=> OneFilter) /\ (Parsed' <=> Parsed)
           /\ \A p : SignsAgree(p)' <=> SignsAgree(p)
           /\ \A p, c : Held(p, c)' = Held(p, c) /\ (Says(p, c)' <=> Says(p, c))
           /\ Arrangements' = Arrangements /\ Order' = Order
           /\ WalksServices' <=> WalksServices
           /\ living' \subseteq QueryPids /\ ParentsKept'
  <1>1. UNCHANGED <<platform, text, query, living, parent, parents>>
    BY DEF parsing, world
  <1>2. living' \subseteq QueryPids /\ ParentsKept'
    BY <1>1 DEF PtqlIInv, ParentsKept
  <1>3. QED BY <1>1, <1>2, SaysStays, ArrangementsStay

\* The end of a search changes what it returned, not what it found.
LEMMA FindEndsKeeps ==
    ASSUME PtqlIInv, FindEnds
    PROVE  PtqlIInv'
  <1>1. /\ stage = "finding" /\ todo = <<>> /\ stage' = "done" /\ verdict = "none"
        /\ UNCHANGED <<platform, parsing, world>> /\ UNCHANGED <<todo, match, found>>
    BY DEF FindEnds, PtqlIInv
  <1>2. /\ UNCHANGED <<text, query, living, parents>>
        /\ Fitting' = Fitting /\ Right' = Right /\ Matching' = Matching
        /\ (AsksUdp' <=> AsksUdp) /\ (AsksPort' <=> AsksPort)
        /\ (OneFilter' <=> OneFilter) /\ (Parsed' <=> Parsed)
        /\ (\A p : SignsAgree(p)' <=> SignsAgree(p))
        /\ Arrangements' = Arrangements /\ (WalksServices' <=> WalksServices)
        /\ living' \subseteq QueryPids /\ ParentsKept'
    BY <1>1, MatchLeaves
  <1>3. Progress'
    BY <1>1 DEF Progress
  <1>4. FindIInv => FindIInv'
    BY <1>1, <1>2, <1>3 DEF FindIInv, EachOnce, NoneMissed
  <1>5. QED BY <1>1, <1>2, <1>4 DEF PtqlIInv

\* The end of one match moves a process from those to match to those found, or
\* drops it: then a condition does not hold, or a process went away.
LEMMA EndKeeps ==
    ASSUME PtqlIInv, stage = "finding", todo # <<>>, NEW matching \in BOOLEAN,
           MatchEnds(matching), UNCHANGED <<platform, parsing, stage, world, verdict>>,
           ~AsksUdp /\ OneFilter =>
             /\ matching => Head(todo) \in Right
             /\ ~matching /\ living = QueryPids /\ ~AsksPort /\ SignsAgree(Head(todo))
                  => Head(todo) \notin Matching
    PROVE  PtqlIInv'
  <1> DEFINE h == Head(todo)
  <1>1. /\ todo' = Tail(todo) /\ match' = FirstBranch
        /\ found' = IF matching THEN Append(found, h) ELSE found
        /\ stage' = "finding" /\ verdict' = verdict
    BY DEF MatchEnds
  <1>2. /\ UNCHANGED <<text, query, living, parents>>
        /\ Fitting' = Fitting /\ Right' = Right /\ Matching' = Matching
        /\ (AsksUdp' <=> AsksUdp) /\ (AsksPort' <=> AsksPort)
        /\ (OneFilter' <=> OneFilter) /\ (Parsed' <=> Parsed)
        /\ (\A p : SignsAgree(p)' <=> SignsAgree(p))
        /\ Arrangements' = Arrangements /\ (WalksServices' <=> WalksServices)
        /\ living' \subseteq QueryPids /\ ParentsKept'
    BY MatchLeaves
  <1>3. Parsed' /\ text' # <<>> /\ Arrangements' # {} /\ verdict' = "none"
    BY <1>1, <1>2 DEF PtqlIInv
  <1>4. ASSUME ~AsksUdp, OneFilter
        PROVE  FindIInv'
    <2>1. FindIInv
      BY <1>4 DEF PtqlIInv
    <2>2. /\ matching => h \in Right
          /\ ~matching /\ living = QueryPids /\ ~AsksPort /\ SignsAgree(h) => h \notin Matching
      BY <1>4
    <2>3. todo' \in Seq(Fitting') /\ found' \in Seq(Right')
      BY <1>1, <1>2, <2>1, <2>2, HeadAndTail, AppendAtEnd DEF FindIInv
    <2>4. /\ Range(todo) = {h} \cup Range(todo')
          /\ IsInjective(todo) => IsInjective(todo') /\ h \notin Range(todo')
      BY <1>1, <2>1, HeadAndTail DEF FindIInv
    <2>5. /\ Range(found') = IF matching THEN Range(found) \cup {h} ELSE Range(found)
          /\ IsInjective(found) /\ h \notin Range(found) => IsInjective(found')
      <3>1. CASE matching
        <4>1. h \in Right /\ found \in Seq(Right)
          BY <2>1, <2>2, <3>1 DEF FindIInv
        <4>2. found' = Append(found, h)
          BY <1>1, <3>1
        <4>3. QED BY <3>1, <4>1, <4>2, AppendAtEnd
      <3>2. CASE ~matching
        BY <1>1, <3>2
      <3>3. QED BY <3>1, <3>2
    <2>6. Progress'
      <3>1. (Parsed /\ text # <<>> /\ Arrangements # {} /\ match = FirstBranch)'
        BY <1>1, <1>3
      <3>2. QED BY <3>1, BeginsAtFirst, PTL
    <2> HIDE DEF h
    <2>7. NoneMissed'
      <3>1. NoneMissed
        BY <1>1, <1>3, <2>1 DEF FindIInv
      <3>2. QED BY <1>2, <2>2, <2>4, <2>5, <3>1 DEF NoneMissed
    <2>8. WalksServices' \/ EachOnce'
      BY <1>2, <2>1, <2>4, <2>5 DEF FindIInv, EachOnce
    <2>9. QED BY <2>3, <2>6, <2>7, <2>8 DEF FindIInv
  <1>5. QED BY <1>1, <1>2, <1>3, <1>4 DEF PtqlIInv

\* The parent read is one the process has.
LEMMA ReadParentKeeps ==
    ASSUME PtqlIInv, ReadParent
    PROVE  PtqlIInv'
  <1> DEFINE h == Head(todo)
  <1>1. /\ stage = "finding" /\ todo # <<>>
        /\ UNCHANGED <<platform, parsing, stage, world, verdict>>
    BY DEF ReadParent
  <1>2. CASE h \notin living
    <2>1. MatchEnds(FALSE)
      BY <1>2 DEF ReadParent
    <2>2. ~AsksUdp /\ OneFilter => living # QueryPids
      <3>1. ASSUME ~AsksUdp, OneFilter PROVE h \in QueryPids
        BY <1>1, <3>1, HeadAndTail DEF PtqlIInv, FindIInv, Fitting
      <3>2. QED BY <1>2, <3>1
    <2>3. QED BY <1>1, <2>1, <2>2, EndKeeps
  <1>3. CASE h \in living
    <2>1. match' = [match EXCEPT !.target = {parent[h]}] /\ UNCHANGED <<todo, found>>
      BY <1>3 DEF ReadParent
    <2>2. /\ UNCHANGED <<text, query, living, parents>>
          /\ Fitting' = Fitting /\ Right' = Right /\ Matching' = Matching
          /\ (AsksUdp' <=> AsksUdp) /\ (AsksPort' <=> AsksPort)
          /\ (OneFilter' <=> OneFilter) /\ (Parsed' <=> Parsed)
          /\ (\A p : SignsAgree(p)' <=> SignsAgree(p))
          /\ (\A p, c : Held(p, c)' = Held(p, c) /\ (Says(p, c)' <=> Says(p, c)))
          /\ Arrangements' = Arrangements /\ Order' = Order
          /\ (WalksServices' <=> WalksServices)
          /\ living' \subseteq QueryPids /\ ParentsKept'
      BY <1>1, MatchLeaves
    <2>3. ASSUME FindIInv PROVE FindIInv'
      <3>1. /\ match.at \in DOMAIN query /\ \A i \in 1..match.at-1 : Met(i)
        BY <1>1, <2>3 DEF FindIInv, Progress
      <3>2. match'.at = match.at /\ match'.data = match.data /\ match'.target \subseteq {parent[h]}
        BY <2>1
      <3>3. parent[h] \in parents[h]
        BY <1>3 DEF PtqlIInv, ParentsKept
      <3>4. \A i : Met(i) => Met(i)'
        BY <2>1, <2>2, <3>2 DEF Met, PidFlag
      <3>5. Progress'
        BY <2>1, <2>2, <3>1, <3>2, <3>3, <3>4 DEF Progress
      <3>6. QED BY <1>1, <2>1, <2>2, <2>3, <3>5 DEF FindIInv, EachOnce, NoneMissed
    <2>4. QED BY <1>1, <2>1, <2>2, <2>3 DEF PtqlIInv
  <1>4. QED BY <1>2, <1>3

\* One branch is matched: the process fails it, passes it, or passes the last.
LEMMA MatchBranchKeeps ==
    ASSUME PtqlIInv, MatchBranch
    PROVE  PtqlIInv'
  <1>1. /\ stage = "finding" /\ todo # <<>> /\ verdict = "none"
        /\ UNCHANGED <<platform, parsing, world>>
    BY DEF MatchBranch, PtqlIInv
  <1>2. /\ UNCHANGED <<text, query, living, parents>>
        /\ Fitting' = Fitting /\ Right' = Right /\ Matching' = Matching
        /\ (AsksUdp' <=> AsksUdp) /\ (AsksPort' <=> AsksPort)
        /\ (OneFilter' <=> OneFilter) /\ (Parsed' <=> Parsed)
        /\ (\A p : SignsAgree(p)' <=> SignsAgree(p))
        /\ (\A p, c : Held(p, c)' = Held(p, c) /\ (Says(p, c)' <=> Says(p, c)))
        /\ Arrangements' = Arrangements /\ Order' = Order
        /\ (WalksServices' <=> WalksServices)
        /\ living' \subseteq QueryPids /\ ParentsKept'
    BY <1>1, MatchLeaves
  <1>3. /\ Parsed /\ text # <<>> /\ Arrangements # {} /\ living \subseteq QueryPids /\ ParentsKept
        /\ ~AsksUdp /\ OneFilter => FindIInv
    BY <1>1 DEF PtqlIInv
  <1>4. PICK b, q : /\ b = query[match.at]
                    /\ q \in IF "P" \in b.mods THEN match.target ELSE {Head(todo)}
                    /\ IF Status(q, b) = "ENOTIMPL"
                       THEN /\ stage' = "done" /\ verdict' = "ENOTIMPL"
                            /\ todo' = <<>> /\ found' = <<>> /\ match' = FirstBranch
                       ELSE /\ UNCHANGED <<stage, verdict>>
                            /\ IF Mismatch(Status(q, b)) THEN MatchEnds(FALSE)
                               ELSE IF match.at = Len(query) THEN MatchEnds(TRUE)
                               ELSE /\ match' = [at |-> match.at + 1, target |-> {},
                                                 data |-> DataRead(q, b)]
                                    /\ UNCHANGED <<todo, found>>
    BY DEF MatchBranch
  <1> DEFINE k == Order[match.at]
             status == Status(q, b)
  <1>6. status \in {"yes", "no", "ENOTIMPL"}
    BY DEF Status
  <1>7. /\ DOMAIN query = DOMAIN text /\ DOMAIN text = 1..Len(text)
        /\ Len(query) = Len(text) /\ Len(text) \in Nat
        /\ \A i \in DOMAIN query : Order[i] \in DOMAIN text /\ IsBranchOf(i, Order[i])
        /\ \A j \in DOMAIN text : \E i \in DOMAIN query : Order[i] = j
        /\ \A i \in DOMAIN query : text[Order[i]].value.kind = "ref" =>
             LET ref == text[Order[i]].value.ref IN Order[ref] = ref /\ ref \in 1..i-1
    BY <1>3, ArrangedBranches
  <1>8. ASSUME ~AsksUdp, OneFilter
        PROVE  /\ Head(todo) \in Fitting /\ Fitting \subseteq QueryPids
               /\ match.at \in 1..Len(text)
               /\ \A i \in 1..match.at-1 : Met(i)
               /\ status = "yes" /\ ~PidFlag(b) /\ SignsAgree(Head(todo)) => Says(Head(todo), text[k])
               /\ status = "yes" /\ LookupType(Renamed(text[k]).name, Renamed(text[k]).attr) < 5
                    => DataRead(q, b)[match.at] \in Held(Head(todo), Renamed(text[k]))
               /\ living = QueryPids /\ Says(Head(todo), text[k]) /\ SignsAgree(Head(todo))
                    => status \in {"yes", "ENOTIMPL"}
    <2>1. FindIInv
      BY <1>3, <1>8
    <2>2. Head(todo) \in Fitting /\ Fitting \subseteq QueryPids
      BY <1>1, <2>1, HeadAndTail DEF FindIInv, Fitting
    <2>3. /\ match.at \in DOMAIN query /\ match.target \subseteq parents[Head(todo)]
          /\ \A i \in 1..match.at-1 : Met(i)
      BY <1>1, <2>1 DEF FindIInv, Progress
    <2>4. PICK p \in QueryPids : p = Head(todo)
      BY <2>2
    <2>5. k \in DOMAIN text /\ IsBranchOf(match.at, k) /\ match.at \in Nat \ {0}
      BY <1>7, <2>3
    <2>6. b.mods = Renamed(text[k]).mods
      BY <1>4, <2>5, SameFilter
    <2>7. q \in Whom(p, Renamed(text[k]))
      BY <1>4, <2>3, <2>4, <2>6 DEF Whom
    <2>8. ASSUME text[k].value.kind = "ref"
          PROVE  match.data[text[k].value.ref] \in Held(p, Renamed(text[text[k].value.ref]))
      <3> DEFINE ref == text[k].value.ref
      <3>1. Order[ref] = ref /\ ref \in 1..match.at-1
        BY <1>7, <2>3, <2>8
      <3>2. Met(ref)
        BY <2>3, <3>1
      <3>3. LookupType(Renamed(text[ref]).name, Renamed(text[ref]).attr) < 5
        <4>1. text[ref] \in Conditions /\ text[k] \in Conditions
              /\ Renamed(text[k]).name \notin AnyClasses
              /\ LookupType(Renamed(text[k]).name, Renamed(text[k]).attr) < 6
              /\ Branch(Renamed(text[ref])).type = LookupType(Renamed(text[k]).name, Renamed(text[k]).attr)
          BY <2>5, <2>8 DEF IsBranchOf
        <4>2. Branch(Renamed(text[ref])).type
                = LookupType(Renamed(text[ref]).name, Renamed(text[ref]).attr)
          BY <4>1, BranchKeeps
        <4>3. /\ LookupType(Renamed(text[k]).name, Renamed(text[k]).attr) \in 0..6
              /\ LookupType(Renamed(text[k]).name, Renamed(text[k]).attr) # 5
          BY <4>1, AnyType
        <4>4. PICK n, m : /\ n = LookupType(Renamed(text[ref]).name, Renamed(text[ref]).attr)
                          /\ m = LookupType(Renamed(text[k]).name, Renamed(text[k]).attr)
          OBVIOUS
        <4> HIDE DEF k, ref
        <4>5. n = m
          BY <4>1, <4>2, <4>4
        <4>6. m \in 0..6 /\ m # 5 /\ m < 6
          BY <4>1, <4>3, <4>4
        <4>7. n < 5
          BY <4>5, <4>6
        <4>8. QED BY <4>4, <4>7
      <3>4. QED BY <2>4, <3>1, <3>2, <3>3 DEF Met
    <2>9. /\ Status(q, query[match.at]) = "yes" /\ ~PidFlag(query[match.at]) /\ SignsAgree(p)
               => Says(p, text[k])
          /\ Status(q, query[match.at]) = "yes"
               /\ LookupType(Renamed(text[k]).name, Renamed(text[k]).attr) < 5
               => DataRead(q, query[match.at])[match.at] \in Held(p, Renamed(text[k]))
          /\ living = QueryPids /\ Says(p, text[k]) /\ SignsAgree(p)
               => Status(q, query[match.at]) \in {"yes", "ENOTIMPL"}
      BY <1>3, <2>5, <2>7, <2>8, StatusSays
    <2>10. QED BY <1>4, <1>7, <2>2, <2>3, <2>4, <2>9
  <1>9. CASE status = "ENOTIMPL"
    <2>1. /\ stage' = "done" /\ verdict' = "ENOTIMPL" /\ todo' = <<>> /\ found' = <<>>
      BY <1>4, <1>9
    <2>2. FindIInv'
      <3>1. EachOnce' /\ (verdict # "ENOTIMPL" => NoneMissed)' /\ Progress'
        BY <2>1, NothingListed DEF EachOnce, Progress
      <3>2. todo' \in Seq(Fitting') /\ found' \in Seq(Right')
        BY <2>1, NothingListed
      <3>3. QED BY <3>1, <3>2 DEF FindIInv
    <2>3. QED BY <1>2, <1>3, <2>1, <2>2 DEF PtqlIInv
  <1>10. CASE status = "no"
    <2>1. MatchEnds(FALSE) /\ UNCHANGED <<stage, verdict>>
      BY <1>4, <1>10 DEF Mismatch
    <2>2. ASSUME ~AsksUdp, OneFilter, living = QueryPids, SignsAgree(Head(todo)),
                 Head(todo) \in Matching
          PROVE  FALSE
      <3>1. k \in DOMAIN text
        BY <1>7, <1>8, <2>2
      <3>2. Says(Head(todo), text[k])
        BY <2>2, <3>1 DEF Matching
      <3>3. QED BY <1>8, <1>10, <2>2, <3>2
    <2>3. QED BY <1>1, <2>1, <2>2, EndKeeps
  <1>11. CASE status = "yes" /\ match.at = Len(query)
    <2>1. MatchEnds(TRUE) /\ UNCHANGED <<stage, verdict>>
      BY <1>4, <1>11 DEF Mismatch
    <2>2. ASSUME ~AsksUdp, OneFilter
          PROVE  Head(todo) \in Right
      <3>1. Head(todo) \in Fitting /\ Head(todo) \in QueryPids
        BY <1>8, <2>2
      <3>2. ASSUME SignsAgree(Head(todo)), NEW j \in DOMAIN text
            PROVE  Says(Head(todo), text[j])
        <4>1. PICK i \in DOMAIN query : Order[i] = j
          BY <1>7
        <4>2. CASE PidFlag(query[i])
          <5>1. j \in Filters
            BY <1>7, <4>1, <4>2, SameFilter
          <5>2. QED BY <3>1, <3>2, <5>1 DEF Fitting
        <4>3. CASE ~PidFlag(query[i])
          <5>1. i \in 1..match.at-1 \/ i = match.at
            <6>0. Len(text) \in Nat
              BY <1>7
            <6>1. PICK n \in Nat : n = Len(text)
              BY <6>0
            <6>2. i \in 1..n /\ match.at = n
              BY <1>7, <1>11, <6>1
            <6>3. QED BY <6>2
          <5>2. CASE i \in 1..match.at-1
            BY <1>8, <2>2, <3>2, <4>1, <4>3, <5>2 DEF Met
          <5>3. CASE i = match.at
            BY <1>4, <1>8, <1>11, <2>2, <3>2, <4>1, <4>3, <5>3
          <5>4. QED BY <5>1, <5>2, <5>3
        <4>4. QED BY <4>2, <4>3
      <3>3. QED BY <3>1, <3>2 DEF Right, Matching
    <2>3. QED BY <1>1, <2>1, <2>2, EndKeeps
  <1>12. CASE status = "yes" /\ match.at # Len(query)
    <2>1. /\ UNCHANGED <<stage, verdict, todo, found>>
          /\ match' = [at |-> match.at + 1, target |-> {}, data |-> DataRead(q, b)]
      BY <1>4, <1>12 DEF Mismatch
    <2>2. ASSUME ~AsksUdp, OneFilter
          PROVE  FindIInv'
      <3>1. FindIInv
        BY <1>3, <2>2
      <3>2. match.at + 1 \in DOMAIN query
        <4>0. Len(text) \in Nat
          BY <1>7
        <4>1. PICK n \in Nat : n = Len(text)
          BY <4>0
        <4>2. match.at \in 1..n /\ match.at # n /\ DOMAIN query = 1..n
          BY <1>7, <1>8, <1>12, <2>2, <4>1
        <4>3. QED BY <4>2
      <3>3. ASSUME NEW i \in 1..match.at PROVE Met(i)'
        <4>1. match'.data[i] = DataRead(q, b)[i]
          BY <2>1
        <4>2. CASE i = match.at
          <5>1. /\ SignsAgree(Head(todo)) /\ ~PidFlag(query[i]) => Says(Head(todo), text[Order[i]])
                /\ LookupType(Renamed(text[Order[i]]).name, Renamed(text[Order[i]]).attr) < 5
                     => match'.data[i] \in Held(Head(todo), Renamed(text[Order[i]]))
            BY <1>4, <1>8, <1>12, <2>2, <4>1, <4>2
          <5>2. QED BY <1>2, <2>1, <5>1 DEF Met, PidFlag
        <4>3. CASE i # match.at
          <5>1. i \in 1..match.at-1 /\ match.at \in Nat
            BY <1>8, <2>2, <4>3
          <5>2. DataRead(q, b)[i] = match.data[i]
            BY <5>1 DEF DataRead
          <5>3. Met(i)
            BY <1>8, <2>2, <5>1
          <5>4. QED BY <1>2, <2>1, <4>1, <5>2, <5>3 DEF Met, PidFlag
        <4>4. QED BY <4>2, <4>3
      <3>4. Progress'
        <4>1. match'.at = match.at + 1 /\ match'.target = {} /\ match.at \in Nat
          BY <1>8, <2>1, <2>2
        <4>2. QED BY <1>2, <2>1, <3>2, <3>3, <4>1 DEF Progress
      <3>5. QED BY <1>2, <2>1, <3>1, <3>4 DEF FindIInv, EachOnce, NoneMissed
    <2>3. QED BY <1>1, <1>2, <1>3, <2>1, <2>2 DEF PtqlIInv
  <1>13. QED BY <1>6, <1>9, <1>10, <1>11, <1>12

\* Every step of a query keeps the invariant.
LEMMA PtqlKeeps == PtqlIInv /\ [PtqlNext]_ptqlVars => PtqlIInv'
  <1> SUFFICES ASSUME PtqlIInv, [PtqlNext]_ptqlVars PROVE PtqlIInv'
    OBVIOUS
  <1>1. CASE PtqlNext
    BY <1>1, AddBranchKeeps, QueryCreateKeeps, QueryDestroyKeeps, QueryFindKeeps,
       ExitsKeeps, ReadParentKeeps, MatchBranchKeeps, FindEndsKeeps DEF PtqlNext
  <1>2. CASE UNCHANGED ptqlVars
    <2>1. /\ UNCHANGED <<platform, parsing, world>> /\ UNCHANGED <<text, query, living, parents>>
          /\ UNCHANGED <<stage, todo, match, found, verdict>>
      BY <1>2 DEF ptqlVars, parsing, world, search
    <2>2. /\ Fitting' = Fitting /\ Right' = Right /\ Matching' = Matching
          /\ (AsksUdp' <=> AsksUdp) /\ (AsksPort' <=> AsksPort)
          /\ (OneFilter' <=> OneFilter) /\ (Parsed' <=> Parsed)
          /\ (\A p : SignsAgree(p)' <=> SignsAgree(p))
          /\ (\A p, c : Held(p, c)' = Held(p, c) /\ (Says(p, c)' <=> Says(p, c)))
          /\ Arrangements' = Arrangements /\ Order' = Order
          /\ (WalksServices' <=> WalksServices)
          /\ living' \subseteq QueryPids /\ ParentsKept'
      BY <2>1, MatchLeaves
    <2>3. Progress' <=> Progress
      BY <2>1, <2>2 DEF Progress, Met, PidFlag
    <2>4. FindIInv' <=> FindIInv
      BY <2>1, <2>2, <2>3 DEF FindIInv, EachOnce, NoneMissed
    <2>5. QED BY <2>1, <2>2, <2>4 DEF PtqlIInv
  <1>3. QED BY <1>1, <1>2

\* The invariant of a query holds always.
LEMMA QueryInvariant == PtqlSpec => []PtqlIInv
  <1>1. QED BY PtqlStarts, PtqlKeeps, PTL DEF PtqlSpec

\* While no process goes away, a query finds the processes all its conditions
\* hold for, and no other, each once unless its services were walked: for any
\* processes, conditions and platform, and any order qsort may leave. This is said
\* of queries with one condition at most that filters the list, and none about a
\* port; and of processes with no negative number compared with one that is not.
THEOREM FoundMeansAll == PtqlSpec => []FindMeansAll
  <1>1. PtqlIInv => FindMeansAll
    <2> SUFFICES ASSUME PtqlIInv, stage = "done", verdict # "ENOTIMPL",
                        living = QueryPids, OneFilter, ~AsksPort
                 PROVE  /\ \A p \in QueryPids :
                             SignsAgree(p) => (p \in Range(found) <=> p \in Matching)
                        /\ WalksServices \/ IsInjective(found)
      BY DEF FindMeansAll
    <2>0. ~AsksUdp
      BY DEF AsksUdp, AsksPort, Renamed
    <2>1. FindIInv /\ todo = <<>>
      BY <2>0 DEF PtqlIInv
    <2>2. Range(todo) = {}
      BY <2>1, NothingListed
    <2>3. Range(found) \subseteq Right
      BY <2>1, ListedWithin DEF FindIInv
    <2>4. QED BY <2>1, <2>2, <2>3 DEF FindIInv, NoneMissed, EachOnce, Right, Matching
  <1>2. QED BY <1>1, QueryInvariant, PTL

\* Whatever processes go away during the search, and whatever parent their
\* children get between two branches, sigar_ptql_query_find returns none that a
\* condition held for neither of itself nor of a parent it had.
THEOREM NoStrangers == PtqlSpec => []FindsNoStranger
  <1>1. PtqlIInv => FindsNoStranger
    <2> SUFFICES ASSUME PtqlIInv, stage = "done", ~AsksUdp, OneFilter
                 PROVE  Range(found) \subseteq Right
      BY DEF FindsNoStranger, Right
    <2>1. FindIInv
      BY DEF PtqlIInv
    <2>2. QED BY <2>1, ListedWithin DEF FindIInv
  <1>2. QED BY <1>1, QueryInvariant, PTL
=============================================================================
