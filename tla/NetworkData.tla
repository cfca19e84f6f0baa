----------------------------- MODULE NetworkData -----------------------------
(***************************************************************************)
(* NetworkData.java: the network traffic since the last call, from the     *)
(* byte counters of the machine's interfaces.  getMetric reads the         *)
(* counters interface by interface, keeps per interface the last reading   *)
(* and per hardware address the list of changes, then averages the lists   *)
(* and clears them.  A call that fails in the middle keeps what it has     *)
(* saved.  The worker thread is the only caller.  A list of changes is     *)
(* kept as its sum and its length, which is all that getMetricData uses.   *)
(***************************************************************************)
EXTENDS Integers, FiniteSets, Functions

CONSTANTS
    Interfaces,  \* those with a hardware address: the others are skipped
    AddressMaps, \* the possible hwOf: from interfaces to hardware addresses
    Directions,  \* rx and tx, two pairs of maps filled side by side
    None,        \* the null of a map that lacks the key
    Half,        \* 2^31: the int that getMetricData adds up in has 2 * Half values
    MaxCount, MaxFailures, MaxResets, MaxList \* bounds: a byte counter, the
                 \* failing calls, the counter resets, a list of changes

ASSUME NetworkAssumption ==
    /\ None \notin Nat
    /\ Half \in Nat \ {0}
    /\ IsFiniteSet(Interfaces)
    /\ {MaxCount, MaxFailures, MaxResets, MaxList} \subseteq Nat

VARIABLES
    hwOf,      \* hwOf[ni]: its address, for good; several may share one
    present,   \* the interfaces that getNetInterfaceList returns
    counter,   \* counter[d][ni]: the system's byte counters
    current,   \* rxCurrentMap, txCurrentMap: the last reading, by interface
    change,    \* rxChangeMap, txChangeMap: the changes, by hardware address
    outcome,   \* how the last call of getMetric ended
    failures, resets,
    base, sent, clean  \* history: first reading per interface, sum of all
                       \* results, no call failed or overflowed so far

netVars == <<hwOf, present, counter, current, change, outcome, failures, resets,
             base, sent, clean>>

Addresses == {hwOf[ni] : ni \in Interfaces}

Init ==
    /\ hwOf \in AddressMaps
    /\ present = Interfaces
    /\ counter = [d \in Directions |-> [ni \in Interfaces |-> 0]]
    /\ current = [d \in Directions |-> [ni \in Interfaces |-> None]]
    /\ change = [d \in Directions |-> [a \in {} |-> 0]]
    /\ outcome = "none"
    /\ failures = 0 /\ resets = 0
    /\ base = current
    /\ sent = [d \in Directions |-> 0]
    /\ clean = TRUE

-----------------------------------------------------------------------------
(* The machine. *)

Transfer ==
    /\ \E d \in Directions, ni \in present :
          /\ counter[d][ni] < MaxCount
          /\ counter' = [counter EXCEPT ![d][ni] = @ + 1]
    /\ UNCHANGED <<hwOf, present, current, change, outcome, failures, resets,
                   base, sent, clean>>

\* An interface's driver starts again from zero.
Reset ==
    /\ resets < MaxResets
    /\ resets' = resets + 1
    /\ \E ni \in Interfaces :
          counter' = [d \in Directions |-> [counter[d] EXCEPT ![ni] = 0]]
    /\ UNCHANGED <<hwOf, present, current, change, outcome, failures,
                   base, sent, clean>>

\* A USB or virtual adapter comes or goes.
Plug ==
    /\ \/ \E ni \in present : present' = present \ {ni}
       \/ \E ni \in Interfaces \ present : present' = present \cup {ni}
    /\ UNCHANGED <<hwOf, counter, current, change, outcome, failures, resets,
                   base, sent, clean>>

-----------------------------------------------------------------------------
(* getMetric *)

Wrap(x) == ((x + Half) % (2 * Half)) - Half

\* Java's division rounds towards zero.
Quotient(x, n) == IF x >= 0 THEN x \div n ELSE -((-x) \div n)

\* getMetricData's part for one list.
Average(list) == Quotient(Wrap(list.sum), list.n)

NoChanges == [sum |-> 0, n |-> 0]

\* The list of an address, if saveChange has created it.
Changes(d, a) == IF a \in DOMAIN change[d] THEN change[d][a] ELSE NoChanges

\* Those that were read before, and what they moved since.
Known(d, read) == {ni \in read : current[d][ni] # None}

Delta(d) == [ni \in Interfaces |-> IF current[d][ni] = None THEN 0
                                   ELSE counter[d][ni] - current[d][ni]]

\* list.add, for every interface of an address.
Extended(d, read, a) ==
    LET known == {ni \in Known(d, read) : hwOf[ni] = a}
    IN  [sum |-> Changes(d, a).sum + SumFunctionOnSet(Delta(d), known),
         n   |-> Changes(d, a).n + Cardinality(known)]

\* Faulty variant: the list is created when the interface is first seen.
SavedAtFirstSight(read) ==
    [d \in Directions |->
        [a \in DOMAIN change[d] \cup {hwOf[ni] : ni \in read} |->
            Extended(d, read, a)]]

\* saveChange for every interface of a set: the maps it leaves behind.
Saved(read) ==
    [d \in Directions |->
        [a \in DOMAIN change[d] \cup {hwOf[ni] : ni \in Known(d, read)} |->
            Extended(d, read, a)]]

\* Faulty variant: the maps are made anew by every call.
ReadingsMadeAnew(map, read) ==
    [d \in Directions |->
        [ni \in Interfaces |->
            IF ni \in read THEN counter[d][ni] ELSE None]]

\* currentMap.put(ni, current)
Readings(map, read) ==
    [d \in Directions |->
        [ni \in Interfaces |->
            IF ni \in read THEN counter[d][ni] ELSE map[d][ni]]]

\* The history variable, kept apart from Readings.
FirstReadings(read) ==
    [d \in Directions |->
        [ni \in Interfaces |->
            IF ni \in read /\ base[d][ni] = None
              THEN counter[d][ni] ELSE base[d][ni]]]

Report(lists) ==
    [d \in Directions |->
        SumFunction([a \in DOMAIN lists[d] |-> Average(lists[d][a])])]

\* No sum overflows the int.
Fits(lists) ==
    \A d \in Directions : \A a \in DOMAIN lists[d] :
        Wrap(lists[d][a].sum) = lists[d][a].sum

\* Faulty variant: the lists are not cleared.
ClearedNever(lists) == lists

Cleared(lists) ==
    [d \in Directions |-> [a \in DOMAIN lists[d] |-> NoChanges]]

\* The bound on the lists never stops a call that finds all interfaces.
Room ==
    \/ present = Interfaces
    \/ \A d \in Directions : \A a \in DOMAIN change[d] : change[d][a].n < MaxList

\* Faulty variant: the loop around the call ends at the first exception.
GetMetricUntilFailure ==
    /\ Room
    /\ outcome \notin {"arithmetic", "sigar"}
    /\ current' = Readings(current, present)
    /\ base' = FirstReadings(present)
    /\ LET lists == Saved(present)
           empty == \E d \in Directions :
                       \E a \in DOMAIN lists[d] : lists[d][a].n = 0
       IN  /\ change' = IF empty THEN lists ELSE Cleared(lists)
           /\ outcome' = IF empty THEN "arithmetic" ELSE "ok"
    /\ UNCHANGED <<hwOf, present, counter, failures, resets, sent, clean>>

\* An empty list makes getMetricData divide by zero, before anything is cleared.
GetMetric ==
    /\ Room
    /\ current' = Readings(current, present)
    /\ base' = FirstReadings(present)
    /\ LET lists == Saved(present)
           empty == \E d \in Directions :
                       \E a \in DOMAIN lists[d] : lists[d][a].n = 0
       IN  \/ /\ empty
              /\ change' = lists
              /\ outcome' = "arithmetic"
              /\ clean' = FALSE
              /\ UNCHANGED sent
           \/ /\ ~empty
              /\ change' = Cleared(lists)
              /\ outcome' = "ok"
              /\ sent' = [d \in Directions |-> sent[d] + Report(lists)[d]]
              /\ clean' = (clean /\ Fits(lists))
    /\ UNCHANGED <<hwOf, present, counter, failures, resets>>

\* A Sigar call throws for some interface: those before it have been saved.
GetMetricThrows ==
    /\ Room
    /\ failures < MaxFailures
    /\ failures' = failures + 1
    /\ \E read \in SUBSET present \ {present} :
          /\ current' = Readings(current, read)
          /\ base' = FirstReadings(read)
          /\ change' = Saved(read)
    /\ outcome' = "sigar"
    /\ clean' = FALSE
    /\ UNCHANGED <<hwOf, present, counter, resets, sent>>

Next == Transfer \/ Reset \/ Plug \/ GetMetric \/ GetMetricThrows

Spec == Init /\ [][Next]_netVars

\* The worker calls again and again, whether or not a call failed.
LiveSpec == Spec /\ WF_netVars(GetMetric)

-----------------------------------------------------------------------------

\* The bytes an interface has moved between its first and its last reading.
Growth(d) ==
    SumFunction([ni \in Interfaces |-> IF current[d][ni] = None THEN 0
                                       ELSE current[d][ni] - base[d][ni]])

Distinct == \A a, b \in Interfaces : hwOf[a] = hwOf[b] => a = b

\* Every byte is reported once: as long as no call failed and no interface moved
\* more between two calls than an int holds, the results add up to what the
\* interfaces moved between their first and last readings, though interfaces
\* came and went between the calls.
NothingLost ==
    clean /\ Distinct /\ resets = 0 => \A d \in Directions : sent[d] = Growth(d)

\* No byte is reported twice, whatever fails or overflows: readings that a failed
\* call saved are reported once, averaged, by the call that succeeds.
NeverOverReports ==
    resets = 0 => \A d \in Directions : sent[d] <= Growth(d)

\* Whatever failed before, a call that finds all interfaces succeeds: no history
\* of partial calls, vanished interfaces or resets leaves an empty list behind.
AllPresentSucceeds ==
    [][present = Interfaces /\ GetMetric => outcome' = "ok"]_netVars

\* The worker gets its network values again once all interfaces stay.
RecoversWhenBack == <>[](present = Interfaces) => []<>(outcome = "ok")

\* README: the board is there "to connect to the PC and receive data via USB
\* from the PC", so the worker's sample, of which getMetric is a part, keeps
\* succeeding.
SamplesKeepComing == []<>(outcome = "ok")
=============================================================================
