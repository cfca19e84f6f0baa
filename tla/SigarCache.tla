----------------------------- MODULE SigarCache -----------------------------
(***************************************************************************)
(* sigar_cache.c: the hash table behind every cache of a sigar_t handle    *)
(* (process times, listening ports, file system devices, service names).   *)
(* A table entry is a malloc'ed cell, known here by the value count had    *)
(* after it was added; a bucket is the set of the cells chained in it: the *)
(* order of a chain decides only how long a search takes.                  *)
(***************************************************************************)
EXTENDS Integers

CONSTANTS CacheKeys,     \* the 64 bit keys in use
          CacheValues,   \* what callers hang on an entry
          NoValue,       \* NULL
          InitialSize    \* the argument of sigar_cache_new

ASSUME CacheAssumption == /\ CacheKeys \subseteq Nat
                          /\ NoValue \notin CacheValues
                          /\ InitialSize \in Nat \ {0}

VARIABLES table,      \* is there a table: sigar_cache_new was called
          size,       \* table->size
          count,      \* table->count
          chains,     \* table->entries: the cells of each bucket
          cells,      \* the id and value of each cell
          heap,       \* the cells that were malloc'ed and not freed
          answer      \* the value of the entry the last lookup returned
cacheVars == <<table, size, count, chains, cells, heap, answer>>

Cell == [id : CacheKeys, value : CacheValues \cup {NoValue}]

CacheTypeOK ==
  /\ table \in BOOLEAN
  /\ size \in Nat \ {0}
  /\ count \in Nat
  /\ chains \in [0..size-1 -> SUBSET (1..count)]
  /\ cells \in [1..count -> Cell]
  /\ heap \in SUBSET (1..count)
  /\ answer \in CacheValues \cup {NoValue}

EmptyChains(n) == [b \in 0..n-1 |-> {}]

NoCells == [e \in 1..0 |-> [id |-> 0, value |-> NoValue]]

\* What a new table holds, and so what there is before and after one.
CacheInit ==
  /\ table = FALSE
  /\ size = InitialSize
  /\ count = 0
  /\ chains = EmptyChains(InitialSize)
  /\ cells = NoCells
  /\ heap = {}
  /\ answer = NoValue

(***************************************************************************)
(* The bucket of a key, and the walk of its chain                          *)
(***************************************************************************)
Bucket(k, n) == k % n

CacheFind(k) == {e \in chains[Bucket(k, size)] : cells[e].id = k}

(***************************************************************************)
(* A table twice as large and one, every cell moved to its new bucket.     *)
(***************************************************************************)
GrownSize == 2 * size + 1

\* Faulty variant: the cells of the last bucket are not moved.
RehashedButLast == [b \in 0..GrownSize-1 |->
                      {e \in UNION {chains[c] : c \in 0..size-2} :
                         Bucket(cells[e].id, GrownSize) = b}]

\* Faulty variant: the buckets are copied, not redistributed.
RehashedInPlace == [b \in 0..GrownSize-1 |->
                      IF b < size THEN chains[b] ELSE {}]

Rehashed == [b \in 0..GrownSize-1 |->
               {e \in UNION {chains[c] : c \in 0..size-1} :
                  Bucket(cells[e].id, GrownSize) = b}]

(***************************************************************************)
(* sigar_cache_get: the entry of the key, appended to its bucket when the  *)
(* walk does not meet it. The table grows before the entry is added.       *)
(***************************************************************************)
AddTo(n, grown, k) == [grown EXCEPT ![Bucket(k, n)] = @ \cup {count + 1}]

Hit(k) ==
  /\ table
  /\ \E e \in CacheFind(k) : answer' = cells[e].value
  /\ UNCHANGED <<table, size, count, chains, cells, heap>>

Miss(k) ==
  /\ table
  /\ CacheFind(k) = {}
  /\ IF count > size
     THEN /\ size' = GrownSize
          /\ chains' = AddTo(GrownSize, Rehashed, k)
     ELSE /\ size' = size
          /\ chains' = AddTo(size, chains, k)
  /\ count' = count + 1
  /\ cells' = [e \in 1..count+1 |->
                 IF e = count + 1 THEN [id |-> k, value |-> NoValue]
                                  ELSE cells[e]]
  /\ heap' = heap \cup {count + 1}
  /\ answer' = NoValue
  /\ UNCHANGED table

(***************************************************************************)
(* Callers create the table before its first use, fill the value of an     *)
(* entry they looked up, and destroy the table with the handle.            *)
(***************************************************************************)
CacheNew ==
  /\ ~table
  /\ table' = TRUE
  /\ UNCHANGED <<size, count, chains, cells, heap, answer>>

SetValue(k, v) ==
  /\ table
  /\ \E e \in CacheFind(k) : cells' = [cells EXCEPT ![e].value = v]
  /\ UNCHANGED <<table, size, count, chains, heap, answer>>

CacheDestroy ==
  /\ table
  /\ table' = FALSE
  /\ heap' = heap \ UNION {chains[b] : b \in 0..size-1}
  /\ size' = InitialSize
  /\ count' = 0
  /\ chains' = EmptyChains(InitialSize)
  /\ cells' = NoCells
  /\ answer' = NoValue

CacheNext ==
  \/ CacheNew
  \/ \E k \in CacheKeys : Hit(k) \/ Miss(k)
  \/ \E k \in CacheKeys, v \in CacheValues : SetValue(k, v)
  \/ CacheDestroy

CacheSpec == CacheInit /\ [][CacheNext]_cacheVars
-----------------------------------------------------------------------------
\* Every cell sits once, in the bucket of its key, and keys are not shared:
\* the argument the two properties below rest on.
InItsBucket == \A b \in 0..size-1 : \A e \in chains[b] :
                  Bucket(cells[e].id, size) = b
AllChained == \A e \in 1..count : e \in chains[Bucket(cells[e].id, size)]
OneCellPerKey == \A d, e \in 1..count : cells[d].id = cells[e].id => d = e
HeapIsTable == heap = 1..count /\ (table \/ count = 0)

CacheIInv == /\ CacheTypeOK
             /\ InItsBucket
             /\ AllChained
             /\ OneCellPerKey
             /\ HeapIsTable

\* sigar_cache_destroy walks the buckets and frees what it meets: when the
\* table is gone, every entry ever allocated for it was freed, whatever the
\* growth of the table did to the chains.
NothingLeaks == ~table => heap = {}

\* The table is a store of one value per key: an entry that was handed out
\* is found again, with its value, by every later walk, across any growth.
Reached == {k \in CacheKeys : table /\ CacheFind(k) # {}}
Stored == [k \in Reached |-> cells[CHOOSE e \in CacheFind(k) : TRUE].value]
Dictionary == INSTANCE KeyedStore WITH Keys <- CacheKeys,
                                       Values <- CacheValues,
                                       store <- Stored
IsDictionary == Dictionary!Spec
=============================================================================
