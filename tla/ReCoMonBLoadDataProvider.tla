---------------------- MODULE ReCoMonBLoadDataProvider ----------------------
(***************************************************************************)
(* getHddData of ReCoMonBLoadDataProvider.java: the bytes that the local   *)
(* disks moved since the last call, and how full they are together.  The   *)
(* last counters are kept by mount point in fsData and never removed.      *)
(* Bytes read and bytes written are kept and summed by the same statements *)
(* side by side; one of the two is modelled.                               *)
(*                                                                         *)
(* A disk is asked by the name of its mount point, after the list of the   *)
(* file systems was made, and sigar_file_system_usage_get throws only if   *)
(* statvfs fails.  If the disk usage fails it hands over the counters that *)
(* SIGAR_DISK_STATS_INIT left, or those of the device as a whole, and if   *)
(* the disk was unmounted, the parent's space and counters: a misreading.  *)
(***************************************************************************)
EXTENDS Integers, SequencesExt

CONSTANTS
    Dirs,   \* the mount points of local disks
    Space,  \* Space[dir]: used and total, in MiB
    None,   \* the null of a map that lacks the key
    MaxCount, MaxFailures, MaxSwaps, MaxMisreads \* bounds: a byte counter, the
        \* calls that throw, the exchanged disks, the misreadings

ASSUME DisksAssumption ==
    /\ None \notin Int
    /\ IsFiniteSet(Dirs)
    /\ \A dir \in Dirs :
          Space[dir].total \in Nat /\ Space[dir].used \in 0..Space[dir].total
    /\ {MaxCount, MaxFailures, MaxSwaps, MaxMisreads} \subseteq Nat

VARIABLES
    mounted,  \* getFileSystemList: the mounted local disks in their order
    counter,  \* counter[dir]: the bytes that the disk for dir has moved
    fsData,   \* the last reading, by mount point
    result,   \* of the last call: bytes and space, or None if it threw
    failures, swaps, misreads,
    base, owed, negatives, misled, heard  \* history: first reading per mount
        \* point; bytes moved or brought in by an exchanged disk less the bytes
        \* reported; the results below zero; the bytes between the misreadings
        \* and the counters; the file systems that answered the last call

diskVars == <<mounted, counter, fsData, result, failures, swaps, misreads,
              base, owed, negatives, misled, heard>>

Init ==
    /\ mounted \in {SetToSeq(D) : D \in SUBSET Dirs}
    /\ counter = [dir \in Dirs |-> 0]
    /\ fsData = [dir \in Dirs |-> None]
    /\ result = None
    /\ failures = 0 /\ swaps = 0 /\ misreads = 0
    /\ base = fsData /\ owed = 0 /\ negatives = 0 /\ misled = 0 /\ heard = {}

-----------------------------------------------------------------------------
(* The machine. *)

Mounted == Range(mounted)

Transfer ==
    /\ \E dir \in Mounted :
          /\ counter[dir] < MaxCount
          /\ counter' = [counter EXCEPT ![dir] = @ + 1]
    /\ owed' = owed + 1
    /\ UNCHANGED <<mounted, fsData, result, failures, swaps, misreads,
                   base, negatives, misled, heard>>

Mount ==
    /\ \E dir \in Dirs \ Mounted : mounted' = Append(mounted, dir)
    /\ UNCHANGED <<counter, fsData, result, failures, swaps, misreads,
                   base, owed, negatives, misled, heard>>

Unmount ==
    /\ \E i \in DOMAIN mounted : mounted' = RemoveAt(mounted, i)
    /\ UNCHANGED <<counter, fsData, result, failures, swaps, misreads,
                   base, owed, negatives, misled, heard>>

\* The disk of a free mount point is exchanged for one with its own counter.
Swap ==
    /\ swaps < MaxSwaps
    /\ swaps' = swaps + 1
    /\ \E dir \in Dirs \ Mounted, c \in 0..MaxCount :
          /\ counter' = [counter EXCEPT ![dir] = c]
          /\ owed' = owed + c
    /\ UNCHANGED <<mounted, fsData, result, failures, misreads,
                   base, negatives, misled, heard>>

-----------------------------------------------------------------------------
(* getFileSystemUsage *)

\* SIGAR_FIELD_NOTIMPL
NotImpl == -1

\* The file system that answers and the bytes that its device is said to have moved.
GetFileSystemUsage == [of : Dirs, count : {NotImpl} \cup 0..MaxCount]

Own(dir) == [of |-> dir, count |-> counter[dir]]

Misread(list, usage) == {dir \in Range(list) : usage[dir] # Own(dir)}

\* What a call may be told of the disks of the list without an exception.
Answers(list) ==
    {usage \in [Range(list) -> GetFileSystemUsage] :
        misreads + Cardinality(Misread(list, usage)) <= MaxMisreads}

-----------------------------------------------------------------------------
(* getHddData *)

\* read - readOld; a disk that is new only leaves its counter.
Change(dir, usage) ==
    IF fsData[dir] = None THEN 0 ELSE usage[dir].count - fsData[dir]

TotalRead(list, usage) ==
    SumFunction([i \in DOMAIN list |-> Change(list[i], usage)])

\* total += total + amount, for each file system that answers
Doubled(amount, list) ==
    LET total[n \in 0..Len(list)] ==
            IF n = 0 THEN 0
            ELSE total[n - 1] + (total[n - 1] + amount[list[n]])
    IN  total[Len(list)]

Used == [dir \in Dirs |-> Space[dir].used]
Total == [dir \in Dirs |-> Space[dir].total]

Answering(list, usage) == [i \in DOMAIN list |-> usage[list[i]].of]

\* Faulty variant: the doubling is taken out of one of the two sums only.
TotalUsedOnce(list, usage) ==
    SumFunction([i \in DOMAIN list |-> Used[usage[list[i]].of]])

TotalUsed(list, usage) == Doubled(Used, Answering(list, usage))

TotalTotal(list, usage) == Doubled(Total, Answering(list, usage))

\* Faulty variant: the first reading is kept for ever.
ReadingsKept(list, usage) ==
    [dir \in Dirs |->
        IF dir \in Range(list) /\ fsData[dir] = None THEN usage[dir].count
        ELSE fsData[dir]]

\* Faulty variant: only the disks of this call are kept.
ReadingsOfMounted(list, usage) ==
    [dir \in Dirs |-> IF dir \in Range(list) THEN usage[dir].count ELSE None]

\* What the loop leaves in fsData.
Readings(list, usage) ==
    [dir \in Dirs |->
        IF dir \in Range(list) THEN usage[dir].count ELSE fsData[dir]]

\* The history variables, kept apart from Readings.
FirstReadings(list, usage) ==
    [dir \in Dirs |->
        IF dir \in Range(list) /\ base[dir] = None
          THEN usage[dir].count ELSE base[dir]]

Distance(x, y) == IF x < y THEN y - x ELSE x - y

Misled(list, usage) ==
    [dir \in Dirs |->
        IF dir \in Range(list) THEN Distance(usage[dir].count, counter[dir]) ELSE 0]

\* What the loop does for the disks of the list, before the sums are used.
ReadDisks(list, usage) ==
    /\ fsData' = Readings(list, usage)
    /\ base' = FirstReadings(list, usage)
    /\ misreads' = misreads + Cardinality(Misread(list, usage))
    /\ misled' = misled + SumFunctionOnSet(Misled(list, usage), Dirs)
    /\ heard' = {usage[dir].of : dir \in Range(list)}
    /\ UNCHANGED <<mounted, counter, swaps>>

GetHddData ==
    \E usage \in Answers(mounted) :
        /\ ReadDisks(mounted, usage)
        /\ result' = [read |-> TotalRead(mounted, usage),
                      used |-> TotalUsed(mounted, usage),
                      total |-> TotalTotal(mounted, usage)]
        /\ owed' = owed - TotalRead(mounted, usage)
        /\ negatives' = negatives + (IF TotalRead(mounted, usage) < 0 THEN 1 ELSE 0)
        /\ UNCHANGED failures

\* getFileSystemUsage throws for the disk after those of `list': their readings
\* are kept, the sums are lost.
GetHddDataThrows ==
    /\ failures < MaxFailures
    /\ failures' = failures + 1
    /\ \E k \in 0..(Len(mounted) - 1) :
          LET list == SubSeq(mounted, 1, k)
          IN  \E usage \in Answers(list) : ReadDisks(list, usage)
    /\ result' = None
    /\ UNCHANGED <<owed, negatives>>

Next ==
    \/ Transfer \/ Mount \/ Unmount \/ Swap
    \/ GetHddData \/ GetHddDataThrows

Spec == Init /\ [][Next]_diskVars

-----------------------------------------------------------------------------

\* While no call throws and no disk is exchanged, what is reported of a disk is its
\* last reading less its first: unmounting and mounting it again loses and repeats
\* nothing, and what a misreading drops or adds, the next true reading makes good.
NothingLost ==
    failures = 0 /\ swaps = 0 =>
        owed = SumFunction([dir \in Dirs |->
                  counter[dir] - (IF fsData[dir] = None THEN 0
                                  ELSE fsData[dir] - base[dir])])

\* Whatever fails, the results add up to no more than the disks have moved and the
\* misreadings were off, each misreading once although two results use it; an
\* exchanged disk counts with what it had moved before.  (A disk that is read as
\* -1 has all its bytes reported by the next call.)
NeverOverReports == owed + misled >= 0

\* A result below zero, which costs the sample its frame, is paid for with an
\* exchanged disk or a misreading: no sequence of mounts and of calls that throw
\* produces one by itself, and no exchange or misreading costs two frames.
OneNegativePerCause == negatives <= swaps + misreads

\* The space bar stays between the emptiest and the fullest of the file systems that
\* answered the call, and so within the row, although the sums double at every
\* disk and mount points that were seen before are gone.
SpaceBetween ==
    [][GetHddData /\ mounted # <<>> =>
        /\ \E dir \in heard' :
              Space[dir].used * result'.total <= result'.used * Space[dir].total
        /\ \E dir \in heard' :
              result'.used * Space[dir].total <= Space[dir].used * result'.total
      ]_diskVars
=============================================================================
