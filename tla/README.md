# ReCoMonB: models, checks and proofs

ReCoMonB (Real Computer Monitoring Block) is a Java program that samples the
load of a PC and shows it on an 8x8 LED matrix behind a PIC32 board on the USB
port. It takes its readings from Hyperic Sigar 1.6.4, whose C library is part of
the repository (`src/pc/lib/hyperic-sigar-1.6.4/src`). This directory holds TLA+
models of the program in `src/pc/src/recomonb` and of the library, the TLC
configurations that check them, and proofs checked by TLAPS.

## 1. Inventory

| Component | State | Operations | Interacts with |
|---|---|---|---|
| `ReCoMonBUpdater` | the field `cpuMeter` (a HID handle or null), the object's monitor | `connect()` (not synchronized), `pushData()` (synchronized) | called by the worker and by the event thread (EDT); calls hidapi |
| Worker (`SwingWorker` in `ReCoMonBMainFrame.show`) | the local flag `connected`, its place in the loop | sample, connect or push, refresh the window, sleep, for ever | calls the data provider and the updater; posts to the EDT |
| Event thread | Swing's event queue | refresh of the CPU bars; the buttons' frames (`pushM`, `pushB`), pushed on the EDT itself; exit | calls the updater |
| Window, tray, sliders | visibility, `sleepTime` | hide, show, iconify, change the sleep | the slider's value is read by the worker |
| hidapi and the board | device handles, queued reports; what the firmware has to send | open, write, read; answer each frame with its `data[1..12]` | no source in the repository (a jar with natives, a `.hex` file) |
| `MeasurementDataHolder` | list, limit, maximum | `newMeasurement`, `setLimit`, `getMaximum` | four of them, owned by the data provider |
| `NetworkData` | per interface the last byte counters, per hardware address the changes since the last result | `getMetric` | called by the data provider; calls Sigar |
| `ReCoMonBLoadDataProvider` | `fsData`: last byte counters per mounted disk | `getHddData`, loads and memory | Sigar through `Monitoring` |
| `ReCoMonBDataProvider` | last values and last frame, the four holders | `getCpuData`: sample everything, scale, build the frame | both providers above, `CColor` |
| `CColor` | none | pack two colours per byte, fill a bar | data provider |
| `Monitoring`, `ConfigDataProvider`, `ComputerMonitoring`, playground, tests, test frames | none to speak of | delegation, experiments | |
| Sigar: cache (`sigar_cache.c`) | a hash table: size, count, chains | look up or create, find, destroy | behind every cache of a handle |
| Sigar: processes (`sigar.c`, `os/*`) | the record of the last process; the totals of `proc_cpu` by pid | memory, credentials, times, state, handles; percentage; state of all | the operating system; the cache |
| Sigar: connections (`sigar.c`, `os/*`) | `net_listen`, the ports that listen; the Solaris stream | list, count, find the address or the owner of a port | a callback for every row of the socket tables; the cache |
| Sigar: queries (`sigar_ptql.c`) | the branches of a query | create, match, find, destroy | processes, arguments, ports, services |
| Sigar: calls (`sigar.c`, `sigar_util.c`, `os/*`) | the handle: buffers, streams, libraries, caches | open, close, and a call for each kind of reading | the operating system of six platforms |
| Sigar: Java binding (`javasigar.c`) | the `jni_sigar_t` of a `Sigar` object | open, close, copy lists into Java | called by the providers and `Monitoring` |
| Sigar: line editing, formatting, file attributes, performance counters, virtual machines | none, or not used by the monitor | | |

What is hard about it:

* **Two threads and one object.** The worker and the EDT both push frames; the
  worker also reconnects, and `connect()` does not take the monitor that
  `pushData()` holds.
* **A blocking read without a timeout**, with the monitor held.
* **A board that comes and goes**, calls that fail on a plugged board, answers
  that outlive the transfer (or the process) that asked for them.
* **Failures in the middle of a sample**: everything that throws out of
  `getCpuData` skips the push *and* the sleep; a network call that fails half
  way leaves lists half filled.
* **Numbers**: sums of bytes kept in an `int`, division by the size of a list,
  counters that restart, ratios that become an array index.
* **A library that keeps things**: a record of the last process that outlives the
  process, ports that stopped listening, a stream left half read, buffers shared
  by unrelated calls; on six platforms, each with its own code.
* **Failure at every step** of a call that holds descriptors, streams and lists.
* **Stale readings**: the counters of the call before belong to disks that were
  exchanged, or to fewer cores than there are now; the window's bars are those
  of the cores at the start.

What makes each component correct: transfers exclude each other and the answer
read is the one to the frame written; `connected` never lets the worker push
through a null field; a board that stays plugged in is fed for ever; the window
keeps running; a holder's maximum is that of the newest `limit` values; bytes
are reported once and a failed sample does not spoil the later ones; a bar stays
inside its row, keeps the order of its pair and agrees with the window; a cache
is a dictionary and frees what it allocated; an answer about a process is about
that process; what is cached of a port is what was seen; a query finds the
processes its conditions mean; a call gives back what it took, uses nothing it
does not have, and a closed handle holds nothing.

`PROJECT.json` lists every component with its status and every hazard at its
line.

## 2. Modules

| Module | What it models |
|---|---|
| `HIDBoard` | The board and the library's calls, as the updater uses them (external). |
| `ReCoMonBUpdater` | EXTENDS `HIDBoard`. `connect` and `pushData`, one action per access to shared state; `UpdaterSpec` is the object under arbitrary callers. |
| `ReCoMonBMainFrame` | EXTENDS `ReCoMonBUpdater`. The worker's loop, the EDT, clicks, a relaunch. |
| `RecentMaximum` | Abstract: the maximum of the newest `limit` entries of a log. |
| `MeasurementDataHolder` | The holder's two operations. |
| `MeasurementHistory` | A holder beside the log of its measurements; refinement of `RecentMaximum`. |
| `NetworkData` | `getMetric` over interfaces that come, go, restart and fail. |
| `ReCoMonBLoadDataProvider` | `getHddData` over disks that are mounted, unmounted, exchanged and misread, and calls that fail. |
| `CpuCores` | The lists of core loads, from Sigar's comparison to the window's bars. |
| `CColor` | From a ratio to the four bytes of a row. Operators only. |
| `LEDBar` | EXTENDS `CColor`. One row while its reading moves, against a reference. |
| `ReCoMonBDataProvider` | EXTENDS `CColor`, four INSTANCEs of `MeasurementDataHolder`. One call of `getCpuData`: what `GetCpuData` of `ReCoMonBMainFrame` abstracts to a frame or a failure. |
| `SigarPlatform` | The six platforms. |
| `KeyedStore` | Abstract: one value per key, created empty when looked up. |
| `SigarCache` | The hash table and its growth; refinement of `KeyedStore`. |
| `SigarProcess` | The record of the last process and what is answered from it. |
| `SigarConnections` | The walks over the socket tables, their callbacks, the cache of listeners, the Solaris stream. |
| `SigarPtql` | Queries, from their text to the processes found. |
| `SigarSteps` | The steps a call of the library is made of, and how they combine. Operators only. |
| `SigarCommonCalls` | EXTENDS `SigarSteps`. The calls all platforms share and the native methods. |
| `SigarLinuxCalls`, `SigarAixCalls`, `SigarHpuxCalls`, `SigarSolarisCalls`, `SigarDarwinCalls`, `SigarWin32Calls` | EXTEND `SigarCommonCalls`. The calls of a platform. |
| `SigarCalls` | EXTENDS all six. What a step does to the handle, the resources and the lists: the machine that runs any sequence of calls. |
| `MC*` | Instances for TLC: frames, handles, threads, interfaces, symmetry. |
| `SharedLemmas` | What several proofs rest on: sums over finite sets, and the rows of the matrix. |
| `*_proofs` | The theorems, see section 4. |

Definitions named after a variant of another one and introduced by "Faulty
variant" (`EnterAtOnce`, `CatchExceptionStaysConnected`, ...) are used by no
specification. Each is a plausible bug in the definition it stands before, and
shows that the property it is listed with in `PROJECT.json` can fail.

### Updater and board

`call[t]` is the point of thread `t` inside the updater or the way its last call
ended (`ok`, `threw`, `npe` for a NullPointerException, `mismatch` for "Mismatch
while reading back"). `pushData` is `Enter` (take the monitor), `Write` (first
load of `cpuMeter` and the write), `Fetch` (second load, line 38), `Read` (the
blocking read, the comparison, and leaving the method). Everything after the
read touches only locals and the monitor, so it is one action. `connect` is
`OpenById` and `Assign`: between the two the new handle exists but the field
still names the old one. Each load of the field sees the current value: the
worker and the EDT synchronize on the monitor and block in native code between
the loads, and the Java memory model lets the second load see the other
thread's unsynchronized write.

`HIDBoard` states what is relied on: a handle belongs to one attachment of the
board and is dead after it is unplugged; a read on a dead handle throws, a read
on a live one waits. `wire` holds the answers that the board has still to send;
every live handle gets a copy of each (`queue`). A lost handle is closed by the
finalizer (`Finalize`), since the program never closes one. `shared` is the
platform, chosen at the start from `SharedOpen`: TRUE where the device may be
opened twice, FALSE where the open handle blocks a second open (`openById` then
returns null). `Glitch` is a transient failure of a
call on a plugged board, at most `MaxFaults` of them.

The data of a frame is abstracted to its identity, and an answer to `EchoOf` of
the frame, because the comparison of twelve bytes only tells equal from
different. Two frames of the worker may have the same answer.

### Worker and event thread

`step` is the worker's place in its loop. `GetCpuData` draws any frame, or fails
(`GetCpuDataThrows`: the outer catch starts the next round at once, without
sleep). `CatchException` resets `connected`; for a NullPointerException the
handler's own `e.getMessage().equals` fails, so the round skips the window and
the sleep. `PostBars` posts the refresh; two refreshes in a row have the effect
of one and are kept as one, which keeps the queue finite. `Click` posts a
button's frame; its Runnable pushes it on the EDT and forgets any exception, so
`connected` does not learn of it. `Restart` is the Exit button or a kill,
followed by a new launch: the Java state is new, the board is as it was.

### MeasurementDataHolder

The list is a sequence, `remove(0)` is `Tail`. The maximum is the last element
of the sorted copy: an element that no element exceeds. `setLimit` is called
only on an empty holder, as the main frame (lines 53-63) and the tests do.

### NetworkData

One action is one call of `getMetric`: only the worker calls it, and a counter
that moves during the call is the same as one that moves before or after it. A
call that fails has read any part of the interfaces first. A list of changes is
kept as its sum and length, which is all `getMetricData` looks at; `Wrap` is the
`int` accumulator and `Quotient` Java's division. `hwOf` is chosen at the start:
an address for each interface, or one for all. Interfaces without a hardware
address are skipped by the code and left out.

### ReCoMonBLoadDataProvider

`fsData` keeps the last counters by mount point and never forgets one. Bytes read
and written are summed by the same statements side by side; one of the two is
modelled. `Swap` exchanges the disk of a free mount point for one with its own
counter. `owed` and `negatives` are history: bytes moved but not reported, and
results below zero. The used and total space are summed as the code does it,
`total += total + one`.

`getFileSystemUsage` throws only where `statvfs` fails. A failure of the disk usage
behind it is swallowed (`linux_sigar.c:1471`, and the same on Windows, Solaris and
Mac OS X): the caller is handed the -1 of `SIGAR_DISK_STATS_INIT`, or the counter of the whole
device when the search for the partition ended early; and a mount point whose disk
was unmounted after the list was made answers with its parent's space and counters.
All of these are `Misread`: any file system may answer, with -1 or any counter, at
most `MaxMisreads` times. `misled` is history, the distance between the misread
counters and the true ones, and `heard` says which file systems answered. A disk
that is read as -1 once has all its bytes reported by the next call, so what can be
promised is weaker than "no more than was moved": `NeverOverReports` allows
`misled`, `OneNegativePerCause` a result below zero for each misreading, and
`SpaceBetween` speaks of the file systems that answered. `NothingLost` needs no
allowance: what is reported of a disk is its last reading less its first, so the
misreadings cancel.

### CpuCores

A list of loads is abstracted to its length, and every core to its index. Sigar
compares the counters with those of the call before and indexes the older list
with the cores of the newer one; a core more ends the call with an exception,
after the new counters were stored. `main` is the first caller, before the worker
runs, and dies of that exception if a core arrives during the pause between its two
readings: there the program really may stop. The
refresh of the window goes through the list until it meets a core without a bar,
whose null ends it.

### CColor and LEDBar

A ratio is the double that n / d yields, kept as the two integers. The product with
100 is rounded to a double before it is cast to `int`. For n and d below 10^13, the
ratio is too far from every hundredth but its own for the rounding to matter, so the
cast gives the exact quotient rounded towards zero (`Percent`), but where the ratio
is a hundredth itself: k / 100 * 100 is a double below k for the seven k of `Short`
among those under 200. That was computed for each of these k. 29, 57 and 58 change
no bar (the next boundaries are 38 and 63); 113 is the one that matters, since 113
would be nine bars and 112 is eight: the row for 1.13 is sent. From 200 on, every
row is lost anyway. A load of the cores is a sum of doubles that is handed over as a
ratio; it is taken to be one of integers too. `LEDBar` states the result without any
of these: a row shows as many LEDs as percentages of the list 13, 25, 38, 50, 63,
75, 88, 100 were reached. `Throws` is the ArrayIndexOutOfBoundsException of
`fillData`.

### ReCoMonBDataProvider

One action is one call of `getCpuData`, since only the worker calls it; there is
one for each step at which a provider may throw, and in `GetCpuData` a bar may.
Between its two measurements a pair cannot be interrupted. The four holders are
instances of `MeasurementDataHolder` over the provider's variables, so the holder
that is checked and proved about is the one that is composed. `SetHddData` and
`SetNetworkData` are the main frame's reading of the last values, by other code and
after the call. Left out: bytes in excess of an `int` of Kbytes (2 TB in one
sample), `lastData` and the accumulated disk values, which only unreachable code
or a label reads.

Two effects of the code that the properties had to be weakened for: the first
bar of a pair is scaled before the second reading is measured, so only the
comparison "first not larger than second" survives on the board, and only the
second bars agree with the window; and with negative readings the maximum may be
the initial -1, which makes a positive ratio of a negative reading, so a negative
change does not always fail.

### Sigar: the cache

A cell is known by the value of `count` after it was added; a bucket is the set
of its cells, because the order of a chain decides only the length of a search.
`Miss` is `sigar_cache_get` for a key that is not there: the growth, which moves
every cell, and the cell that is added to the table as it is then. `IsDictionary`
maps the chains to `KeyedStore`.

### Sigar: processes

Every platform keeps one record of the process it looked at last and reuses it
for `Expire` seconds. A call is a set of outcomes, each the record afterwards and
what the answer was made from: the record, the process itself, or both, in the
order the code reads them and with a failure at each read. `procs` is the
operating system: `life` counts the processes that had a pid, `time` is the CPU
time of the present one. `owner` and `failed` in the record are history. On Linux,
AIX, HP-UX and Solaris the pid is noted before the read that may fail: that is
the exception `OnlyFailuresMixProcesses` makes. A clock tick is what
`sigar_time_now_millis` can tell, `PerSecond` of them are what `time()` can.

### Sigar: connections

A walk reads one table after the other, and sockets open and close in between;
within a table the rows are delivered in any order. The rows that the flags
select are those of the platform's code: AIX never reads UDP, HP-UX gives UDP
rows to servers only, Windows decides by a variable it has not set yet, which is
a choice. `heard` and `known` are history: the listeners met so far, and those
met before the walk began. The counters per state of `sigar_net_stat_t` are kept
as the sets of connections. On Solaris all calls read one stream: `mib2` is what is
left of it. A database of 65 or 66 message kinds becomes the four the code tells
apart.

### Sigar: queries

A letter is a number and the upper case of letter c is c + 10, so that a test for
equal, prefix, suffix, part or order, with or without case, is what the code's
string functions compute. A number that cannot be parsed is a value of kind "text".
`AddBranch` parses and adds one condition, `QueryCreate` leaves the branches in any
order `qsort` may leave them in (it is not stable), `QueryFind` makes the list of
processes. A process is matched one branch at a time: `ReadParent` reads its parent
anew before every branch with the modifier P, `MatchBranch` reads the data of the
process or of that parent and compares. In between processes exit (`Exits`), and
their children are adopted by one of `Reapers` or, where none is left, get the
parent 0; on Windows they keep the old number. No pid is reused during a search and
no process starts. A walk over the Windows services lists a process once for each of
its services that match. A regular expression is one that is a plain text.

`Comparable` is what is left out, each a condition that makes the code read memory
that holds something else: a reference to a branch of another type, or of a class
without one; a variable where the code expects a number or a literal text; and a
comparison of pids by an operator for texts.

The members of 32 and 64 bits are compared as unsigned numbers, whatever they are in
the process (`Ui32Op`, `Ui64Op`, with sizes as constants): `State.Nice.lt=0` finds
nothing, and `State.Nice.gt=0` finds a process with a negative nice value. Of the
owners of a port `sigar_proc_port_get` names one or none (`PidPortGet` is the set of
its answers).

Limits of what a query means that the properties had to respect: where a negative
number meets one that is not, nothing is claimed (`SignsAgree`), nor is it that
every owner of a port is found; two branches about the parent may be about two
parents, so `FindsNoStranger` promises for each condition a parent the process had
during the search, not one for all of them; a process whose services were walked may
be found twice, and two conditions that filter the list of processes (`Pid`, `Port`,
`Service`) find the union, not the intersection. So `FindMeansAll` and
`FindsNoStranger` speak of queries with one filter at most, and of single
occurrences only where no services are walked.

### Sigar: calls

A call is a sequence of steps (`SigarSteps`): open, take, use or free a
resource, ask the system something that may fail, store a row in the list of the
answer, touch a field of the handle; and the forks, loops and jumps between them.
The platform modules write each function of the C code as such a sequence, in the
code's order, with what each early return frees. `SigarCalls` runs any sequence
of calls on one object, step by step, and every step that can fail does. The state
is the fields of the handle (null, live, filled, dangling or garbage) and, for the
call in progress, what it holds, what it lost, what it used without having it, and
the step it is at.
The numbers a call computes are left out; the branches they decide are choices.

On Windows a library is loaded when it is first needed. One that does not load is
marked with `INVALID_HANDLE_VALUE`, is not tried again, and is freed by the close
all the same (`Dll`, `Spoil`, `DllFree`). A performance object that has no instances
is no error, so a list of CPUs may be handed over that was never made
(`Win32CpuListUnmade`); and `sigar_disk_usage_get` walks an object found before a
second question that may have moved the buffer. Not modelled: a function that is
missing from a library that did load, whose pointer the callers test or not.

What this found, beside what the properties say: they hold apart from the leaks
listed in `Leaks`, what is listed in `StaleBuffers` (the interface buffer, the
stream buffer of Solaris, and the three cases of Windows above), and what an open
that fails leaves (`LeftByOpen`). Each leak names a call, how it ended and what it
did not give back, and each stale entry what is used without being there, so that a
further one fails the run. A hazard that the code really falls for is one of these
entries. A list that is being copied when Java throws is never freed.

### One run for several parts

`MCSmallParts` and `MCSigarParts` put parts that share no variables side by side:
a variable chosen at the start says which of them moves, the others rest. Every
reachable state is one of a single part, so each property is checked exactly as
it would be alone. That is not so for liveness in general; `BarsFollow`
is stated under a fairness that is restricted to the part it is about.

## 3. Checks

Every run explores its whole state space.

| Run | Question | Bounds |
|---|---|---|
| `frame_safety` | Can the worker push through a null field, or read the answer to another frame? | 1 worker frame, 1 button, 1 click, 1 failure, 1 relaunch |
| `device_live` | Is the board fed and the window alive when the board is unplugged and plugged in, and does the worker resynchronise after a failure or a relaunch? | 2 worker frames, 1 failure and 1 relaunch, or 1 click and 1 worker frame |
| `swapped_handle` | And after a failure with a click as well? No: see below | 1 failure, 1 click |
| `network` | Is every byte reported once, and does a call that finds all interfaces succeed? | 2 interfaces, 1 or 2 addresses, one direction, counters to 2, 2-bit int, 1 failure, 1 reset |
| `network_stall` | Do samples keep coming? No: see below | 1 interface, both directions |
| `disks` | Is every byte of a disk reported at most once, what does a misreading cost, and what makes a result negative? | 2 disks in any order, counters to 1, 1 failure, 1 exchange, 1 misreading |
| `sample` | When does a sample lose its frame, and do its bars fit together? | holders of 2, 3 disk and 2 network readings, 2 spaces, 2 CPU times |
| `small_parts` | Is a holder the maximum of the newest values, does a row show the ratio, what does a core that comes on line cost? | 4 values, limits 2 and 3, 6 measurements; readings -30..130, scales 0, 7 and 100, three pairs of colours; 4 cores, 3 arrivals |
| `sigar_parts` | Is the cache a dictionary, is an answer about the process that was asked for, is what is cached of ports what was met, and does a query find what it says? | 5 keys, first table of 1; 2 pids, 2 lives, 3 seconds; 4 sockets of one port; 3 processes, 24 conditions, queries of 2, numbers of 4 and 6 bits |
| `sigar_calls` | What does a call lose, use without having it, write past its list, or leave in a closed handle? | 6 platforms, all calls in any order, loops of a call take 2 turns, at most 2 fields kept beside the permanent ones |
| `proc_percent` | Is the percentage of a process within that of the cores? No: see below | 1 busy process, 6 half seconds, no failures |
| `udp_query` | Does a query for a UDP port find the process? No: see below | as `sigar_parts` |

The first three runs cover platforms with and without shared opens, the Sigar
runs the six platforms of the library (the cache and the queries those that
differ). `small_parts`, `sigar_parts` and `sigar_calls` do not check deadlock: a
full history, an exhausted clock or the main thread's early death
are real ends; in `sigar_calls` the constraint stops the extension of states.

Why the bounds are enough: three handles cover the field, one blocked in a read and
one being opened, and handle names are reused once closed, so the number of
reconnections is unbounded. So are unplugging, plugging, the worker's rounds and the
EDT's refreshes. Two worker frames with different answers let a stale answer differ
from the awaited one; a button's frame does the same in `frame_safety`. One failure
is enough to leave an answer behind or to lose the link. The properties of the
failure-free system (`NoMismatch`, `InStep`, `NoSwapInTransfer`) are about the part
of a behaviour before the first failure or relaunch, within which unplugging is
unbounded. A log of six outgrows a limit of three twice. A 2-bit int holds one byte
at most, so counters to 2 overflow it. The two directions of a call are filled and
cleared side by side. Readings of -30 to 130 per cent pass both ends of the row, in
steps of a per cent and of a seventh. Two disks have the weights 2 and 1 in the
doubled sums, and one misreading lies between two readings of either. Holders of two
are full after two samples, forget after three, and keep a maximum that the last
reading does not reach. `ClicksOrFaults` ends behaviours with a click and a fault:
those are `swapped_handle`, where the liveness fails. A table of one bucket grows
twice on the way to five keys, whose remainders collide before and after. Two lives
of one pid, beside a second process whose record is met under the first pid, tell a
reused pid from a mixed-up record; three seconds let a record of two expire. Two
listeners of one port on either family, a connection of the port and a UDP socket
are all the callbacks tell apart. Two conditions are enough for a reference, for an
order of branches, and for a process to exit and a parent to change between two
readings of it; the proof is for any number. The 24 cover every class, type and kind
of value, among them a negative nice value and a parent compared by number. A list
that starts with one row grows once in two turns, and no call has more than two
loops that depend on each other. A field kept by a call matters to another call that
uses it and to the close: two kept fields at a time cover every pair.

What the failing runs show:

* `swapped_handle`. The worker's push fails while the board stays plugged in; a
  button's frame is in transfer on the EDT; the worker's `connect()` falls between
  the EDT's write and its second load of `cpuMeter`. The answer goes to the old
  handle, the EDT reads from the new one, for ever, with the monitor held. The
  window is frozen and the board receives nothing more. Without a failed call or
  relaunch this cannot happen: `NoSwapInTransfer` holds before the first of them,
  and `EDTKeepsRunning` where no click meets one. Where the device opens only once
  it needs the board to be replugged between the write and the read as well.
* `network_stall`. An interface that was measured disappears: its list stays empty,
  every later sample divides by zero, and no frame is sent until it is back.
  `AllPresentSucceeds` and `RecoversWhenBack` show that it recovers then, whatever
  happened in between.
* `proc_percent`. The first call reads the record; a second call within its expiry
  is answered from it, so the total stays while `last_time` moves; the third reads a
  new record, whose total has grown over both intervals, and divides by the second.
  `TestProcTime` asserts that the percentage is at most 100 for each core.
* `udp_query`. `Port.udp.eq=7` is looked for among the TCP sockets
  (`sigar_ptql.c:1283`), so one that has only the TCP socket of that number is found
  instead, though `TestPTQL` queries for the owner of the SNMP port this way.

### Fairness

`LiveSpec` of the main frame assumes weak fairness of the worker and of the EDT
(the threads are scheduled; a blocked read is not enabled), of the board's
answers, and of the finalizer; and strong fairness of the EDT's entry into the
monitor, because the worker samples and sleeps (three seconds by default)
outside it between two transfers. Failures, clicks, relaunches and unplugging
are never forced: the fair actions are restricted to steps that are no failure.
`PromptBoard` says that the board answers within the worker's sleep. Without it
a stale answer can stay one frame ahead through every reconnection, since the
slider lets the sleep be zero; `LinkSettles` is only claimed with it.
`LiveSpec` of `NetworkData` assumes that the worker keeps calling: its loop ends
with no exception. `SmallSpec` of `MCSmallParts` assumes of the cores that the worker keeps
sampling, that its samples do not all fail in their later steps (a sample that
fails posts no refresh), and that the EDT runs what was posted.

## 4. Proofs

TLAPS checks, for every value of the constants that the named assumptions allow:

* `ReCoMonBMainFrame_proofs`, part one: types and `MonitorExclusion` of the updater
  under any number of arbitrary callers. `UInv`, their conjunction, is inductive.
  `BoardTyping` covers every outcome of every library call once; the `Updater...Inv`
  lemmas cover a step inside a method, a call and the environment, and are reused
  below.
* Part two: the same for the composed system, and `ConnectedHasHandle`. That one is
  not inductive: it needs to know where the worker's calls can stand at each point
  of its loop, that a finished `connect` left a handle in the field, and that the
  EDT never connects. `LoopInv` says so; `IInv` adds it to the types.
* Part three: `InStep`, `NoMismatch` and `NoSwapInTransfer`, for any number of
  handles, frames and clicks, before the first failure or relaunch. `TransferInv`
  adds to `IInv` that the field's handle is open, that a handle is held inside a
  call only, and, while nothing has failed, `LinkInv`: whoever waits for an answer
  waits on the field's handle (`OwnAnswer`); what is queued for that handle and what
  is on the wire are together exactly what is owed to the one frame in transfer
  (`Paired`); nothing is left behind by a call that is over (`NothingLeft`), and a
  dead handle makes the worker give up its link (`GivesUpDead`). `Paired` is what
  `InStep` lacks to be inductive: the place of the answer.
* `SharedLemmas`: the lemmas on rows that the next two rest on. A truncated quotient
  reaches k when the dividend reaches k times the divisor; hence the number of bars
  for any ratio, that it is 0 to 8 for a ratio in [0, 1], that a larger ratio has no
  fewer bars, and which LEDs are lit.
* `ReCoMonBDataProvider_proofs`: `OnlyNegativesFail`, `PairsInStep`, `WindowAgrees`
  and `OrderKept` for any limit, readings, spaces, memories and CPU times. The
  argument: whatever a holder has kept, its maximum is an integer, and after a
  measurement it is at least the value measured; so a reading from zero up over the
  larger maximum of its pair is a ratio in [0, 1], and its row is returned. For the
  order of the bars two ratios with different scales are compared: the scale of the
  second is not larger than that of the first unless the second reading is the new
  maximum and its bar is full. That needs `Covered`, that the maximum of a second
  holder is not below what it keeps. `PInv` is the conjunction.
* The parts a sample is made from, in the same module. Of the holder: the list is
  the tail of the log (`HoldsRecent`, from lemmas about cutting and extending a
  sequence), the newest value is within the maximum, and every behaviour of the
  holder is one of `RecentMaximum`. Of a row: `ShowsRatio` and `FailsFarOutside` for
  every reading and scale (which speak of Java's doubles for numbers below 10^13);
  `BarInv` says only that the row is that of the reading. Of the cores:
  `OneSamplePerArrival`; the number of lost samples alone is not inductive, and
  `CoresInv` adds the sample that an arrival has still to cost.
* `NetworkData_proofs`: `NeverOverReports` and `NothingLost` for any interfaces,
  addresses and counters and an `int` of any width (the constant `Half`), and
  `AllPresentSucceeds`. `NetInv` says that a list exists only for an address with an
  interface that was read (`ListsHaveReaders`: the next call that finds the
  interface fills it, so no division by zero); that, until a counter restarts,
  counters only go up and what was sent and what the lists hold is within the growth
  (`Covered`); and that, while every call succeeds and addresses are distinct, the
  lists are empty between calls and everything was sent (`Settled`). The `int` and
  the division are handled in one place: a sum from zero up is never enlarged by the
  wrap or by the quotient.
* `ReCoMonBLoadDataProvider_proofs`: `NeverOverReports`, `NothingLost` and
  `OneNegativePerCause` for any disks, sizes, counters and misreadings. `DiskInv`
  bounds what the next reading can report (`Due`) by what is owed and what the
  misreadings were off, and counts the disks whose counter is behind the one
  remembered (`Behind`) among the exchanges and misreadings that are not paid for
  yet. `SpaceBetween`, for any number of disks: in `total += total + one` every disk
  has the same weight in the used and in the total space, and two weighed sums keep
  the order of their terms when those are multiplied crosswise.
* `SharedLemmas` again: sums over finite sets (pointwise order, difference,
  additivity, a sum split by a key). Induction over the set is not available here;
  each claim is shown by taking a smallest set that breaks it, which the
  well-foundedness of strict inclusion provides.
* `SigarParts_proofs`. The cache: every cell sits once, in the bucket of its key,
  across any growth (`CacheIInv`), so destroying the table frees all
  (`NothingLeaks`); and the table implements `KeyedStore` (`IsDictionary`): what is
  stored under a key is the one cell of the key, which growth moves and does not
  change.
* The processes, for all platforms and any number of processes and pids:
  `OnlyFailuresMixProcesses` and `TotalsGrow`. What was seen of a process is never
  ahead of it (`NotAhead`), neither in the record nor in the kept totals; where
  times come from the record, no total is ahead of the record either
  (`TotalsWereRecords`): without this a total could go back when the record is
  served after the process itself was read. The `...Sound` lemmas say once what the
  outcomes of any call do to the record; the platforms only combine them.
* The connections: `ListenCacheSound`, `DirectionsKept` and `StreamLeftByTcpOnly`
  for any set of sockets. `ConnectionIInv` adds that a walk knows no more than was
  heard.
* The queries: `FindMeansAll` and `FindsNoStranger` for any processes, any
  conditions, queries of any length and any order `qsort` may choose. `PtqlIInv`
  says that the branches are those of the conditions, rearranged, and in their own
  order when one refers to another (`Arrangements`); that what is still to be
  matched passed the filter and what was found is what all conditions hold for; that
  while all processes live none of those was missed (`NoneMissed`); and that each is
  listed once unless services are walked (`EachOnce`). `StatusSays` connects the
  match of a branch with what its condition says, type by type, where the signs
  agree; `FilterSays` does so for the branches that make the list. Since a match is
  spread over several steps, the invariant also says what the branches before the
  present one have shown of the process, and that the parent that was read is among
  those it had.
* `SigarCalls_proofs`: `RowsFit`, for chunks of any size and any number of turns. A
  program fits (`FitsIn`) when there is a map from its places to what is known of
  the list there (`Level`: nothing, room for a row, room for all rows that were
  counted, or for one more) that every step, branch and failure keeps, and that has
  room where a row is stored. Each way in which programs are combined (one behind
  the other, forks, loops, callers that go on after a failure, another list) keeps
  this, by lemmas on where the steps of the parts come to stand; so every function
  of the platform modules fits, one by one (`...Safe`), and then every native method
  (`ProgramsSafe`). `RowsIInv` says of the machine that the call stands at a place
  of its program whose map speaks the truth of what the call holds; TLC checks
  `RowsFit` itself, since it cannot choose such a map. Rows of the lists that the
  handle keeps (`OnKept`) are not counted by the model, and nothing is proved of
  them.
* `SigarResources_proofs`: `NothingLost`, `NothingStale` and `HandleClosed`, for any
  number of turns and any sequence of calls on a handle. Each name is followed by
  itself: a resource of a call, or a field of the handle with the values it may have
  (`At`): between two calls ("rest"), where a call has it ("work"), before it is
  there ("null"), after it was freed ("gone") and when an open failed ("left"). Only
  the two buffers of the `mib2` stream of Solaris are followed together with its
  descriptor, which says whether they are there (`Beside`). A program moves a name
  (`MovesIn`, in `SigarCalls_proofs`) from one set of values to another, and where
  it fails to a third, when there is a map from its places to what is known there
  that every step, branch and failure keeps. As for the rows, each way of combining
  programs keeps this, by one lemma each, so every function of the six platform
  modules is shown to leave a name as it found it, or in the state that its callers
  count on, and then every native method (`Done`). No step of such a map overwrites
  what is held, and none uses or frees what may be missing unless it is one of the
  `StaleBuffers` (on Windows: the mark of a library that did not load, the list of
  CPUs that was not made, the object behind a moved buffer); what a program may
  still hold at its end (`Final`) is nothing, or one of the `Leaks`.
* The machine: none of the three is inductive, since what is held when a call ends
  depends on what was held in the middle, and what a call finds on what the ones
  before it left. `CallsIInv` adds to `RowsIInv` that nothing was overwritten and
  nothing missing was used so far (`Clean`), that between calls the fields are at
  rest (`Resting`), and that during a call, for every name by itself, the call
  stands at a place of its program with a value that the map of its program has
  there (`Placed`). `CallsStep` proves it for a step of a program, for its return
  and for the next call. TLC does not check `CallsIInv`, which speaks of all maps of
  a program; the run checks what it implies.

The proof of the queries changed the model in three places where it was wrong or said too
much: the order of branches of equal type is `qsort`'s and not theirs in the text, a walk
over the services repeats a process, and `Comparable` excluded too little.

`MonitorExclusion` of the updater under arbitrary callers is proved, for any
number of threads; no run repeats that on a few, since `frame_safety` checks it in
the composed system.

Every invariant and every action property of the passing runs is stated by a
theorem. Only model-checked: the liveness properties (`BoardKeepsReceiving`,
`LinkSettles`, `EDTKeepsRunning`, `RecoversWhenBack`, `BarsFollow`), because
fairness and ENABLED are out of the prover's reach.

## 5. Not modelled, and the plan

Not modelled: layout, colours and visibility of the window; the unreachable
brightness sliders and `getCpuDataConfigOnly`; test frames; playground; scripts;
the older command-line program. Of Sigar: the line editor of its shell
(`sigar_getline.c`), the formatting of addresses and sizes (`sigar_format.c`), file
attributes (`sigar_fileinfo.c`), performance counters, event log, services and
virtual machines (`jni/`), raw and Unix sockets, the FreeBSD parts of
`darwin_sigar.c`, the numbers its calls compute, and its Java side except for
`getCpuPercList`.

Done: the updater, both threads and the board; the holders; network, disks and
cores; the rows of the matrix; the sample as a whole; the parts of Sigar that keep
a state, and its calls as users of resources; all their safety properties are proved. Next,
in this order:

1. Sigar: the differences of the counters of a disk (`sigar_disk_usage_get` with an
   interval that may be zero) and the arithmetic of CPU percentages.
2. The window and the tray: visibility (hide, iconify, show) and the slider
   against the worker; the indicators when the push failed after the sample.
3. `ComputerMonitoring`, the older program, with its own bars.
