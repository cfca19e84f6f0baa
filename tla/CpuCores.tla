------------------------------ MODULE CpuCores ------------------------------
(***************************************************************************)
(* The loads of the cores: getCpuPercList of Sigar.java, which compares    *)
(* the counters of every core with those of the call before,               *)
(* getAllCoresLoad, which keeps the result for the window, and the bars,   *)
(* one for every core that was on line when the window was made.  Cores    *)
(* come and go; a load is abstracted to the core it belongs to, so that a  *)
(* list is its length.                                                     *)
(***************************************************************************)
EXTENDS Integers

CONSTANTS
    MaxCores,
    MaxArrivals, \* bound: how often the number of cores rises
    Null         \* null

ASSUME CoresAssumption ==
    MaxCores \in Nat \ {0} /\ MaxArrivals \in Nat /\ Null \notin Nat

VARIABLES
    online,            \* what getCpuList returns
    lastCpuList,       \* Sigar's counters of the call before
    lastAllCoresLoads, \* the data provider's field
    cpuBars,           \* the window's bars, 0 before they are made
    phase,             \* of main: "pause" in its own first call, then it
                       \* "runs" the worker, or "died" of an exception
    posted,            \* a refresh is in Swing's queue
    served,            \* the bars that the last refresh has set
    arrivals, lost     \* history: rises of online, samples lost to one

coreVars == <<online, lastCpuList, lastAllCoresLoads, cpuBars, phase, posted,
              served, arrivals, lost>>

Lengths == 1..MaxCores

CoresTypeOK ==
    /\ online \in Lengths
    /\ lastCpuList \in Lengths \cup {Null}
    /\ lastAllCoresLoads \in Lengths \cup {Null}
    /\ cpuBars \in 0..MaxCores
    /\ phase \in {"pause", "runs", "died"}
    /\ posted \in BOOLEAN
    /\ served \subseteq 0..(MaxCores - 1)
    /\ arrivals \in 0..MaxArrivals /\ lost \in 0..MaxArrivals

\* main has read the counters for the first time and pauses before it reads them
\* again to have something to compare.
CoresInit ==
    /\ online \in Lengths
    /\ lastCpuList = online
    /\ lastAllCoresLoads = Null
    /\ cpuBars = 0
    /\ phase = "pause"
    /\ posted = FALSE /\ served = {}
    /\ arrivals = 0 /\ lost = 0

-----------------------------------------------------------------------------

CoresArrive ==
    /\ arrivals < MaxArrivals
    /\ \E k \in Lengths : k > online /\ online' = k
    /\ arrivals' = arrivals + 1
    /\ UNCHANGED <<lastCpuList, lastAllCoresLoads, cpuBars, phase, posted,
                   served, lost>>

CoresLeave ==
    /\ \E k \in Lengths : k < online /\ online' = k
    /\ UNCHANGED <<lastCpuList, lastAllCoresLoads, cpuBars, phase, posted,
                   served, arrivals, lost>>

\* getCpuPercList indexes the older list with the cores of the newer one.
Comparable(old, new) == new <= old

\* show: the bars, then the worker.
MakeBars ==
    /\ phase = "pause"
    /\ lastCpuList' = online
    /\ IF Comparable(lastCpuList, online)
         THEN cpuBars' = online /\ phase' = "runs"
         ELSE cpuBars' = 0 /\ phase' = "died"
    /\ UNCHANGED <<online, lastAllCoresLoads, posted, served, arrivals, lost>>

\* Faulty variant: the older list is replaced only by a comparison that succeeds.
GetAllCoresLoadThrowsAgain ==
    /\ phase = "runs"
    /\ ~Comparable(lastCpuList, online)
    /\ lost' = lost + 1
    /\ UNCHANGED <<online, lastCpuList, lastAllCoresLoads, cpuBars, phase,
                   posted, served, arrivals>>

\* More cores than before: the sample is lost, the new counters are kept.
GetAllCoresLoadThrows ==
    /\ phase = "runs"
    /\ ~Comparable(lastCpuList, online)
    /\ lastCpuList' = online
    /\ lost' = lost + 1
    /\ UNCHANGED <<online, lastAllCoresLoads, cpuBars, phase, posted, served,
                   arrivals>>

\* The rest of the sample may still fail; if not, the worker posts a refresh.
GetAllCoresLoad ==
    /\ phase = "runs"
    /\ Comparable(lastCpuList, online)
    /\ lastCpuList' = online
    /\ lastAllCoresLoads' = online
    /\ posted' \in {posted, TRUE}
    /\ UNCHANGED <<online, cpuBars, phase, served, arrivals, lost>>

\* Faulty variant: all bars are looked up before the first is set.
RefreshAllOrNone ==
    /\ posted
    /\ posted' = FALSE
    /\ served' = IF lastAllCoresLoads > cpuBars
                   THEN {} ELSE 0..(lastAllCoresLoads - 1)
    /\ UNCHANGED <<online, lastCpuList, lastAllCoresLoads, cpuBars, phase,
                   arrivals, lost>>

\* The Runnable shows the newest list, core by core, up to the first that has no
\* bar: get returns null there, and the exception ends the refresh.
Refresh ==
    /\ posted
    /\ posted' = FALSE
    /\ served' = {i \in 0..(lastAllCoresLoads - 1) : i < cpuBars}
    /\ UNCHANGED <<online, lastCpuList, lastAllCoresLoads, cpuBars, phase,
                   arrivals, lost>>

CoresNext ==
    \/ CoresArrive \/ CoresLeave
    \/ MakeBars \/ GetAllCoresLoadThrows \/ GetAllCoresLoad \/ Refresh

CoresSpec == CoresInit /\ [][CoresNext]_coreVars

-----------------------------------------------------------------------------

\* A core that comes on line costs one sample, no more, whenever it comes and
\* however many come at once.
OneSamplePerArrival == lost <= arrivals

\* The window catches up: when the number of cores has settled, the bars of all
\* cores that are on line are set, though cores may have come that have no bar and
\* end every refresh with an exception.
BarsFollow == <>[](served = {i \in 0..(online - 1) : i < cpuBars})
=============================================================================
