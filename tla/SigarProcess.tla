---------------------------- MODULE SigarProcess ----------------------------
(***************************************************************************)
(* The per-process calls of the Sigar library: the record of the last      *)
(* process looked at, which every platform keeps for a short while, the    *)
(* handlers that answer from it, and the two callers in sigar.c that build *)
(* on them: the CPU percentage of a process and the walk of all states. *)
(* Processes come, go and reuse pids while the library looks.              *)
(***************************************************************************)
EXTENDS Integers, SigarPlatform

CONSTANTS Pids,
          MaxClock,    \* bound on time
          MaxLives,    \* bound on the processes that had one pid
          PerSecond,   \* clock ticks in a second: time() counts seconds
          Expire,      \* SIGAR_LAST_PROC_EXPIRE, in seconds
          Cores        \* cpu time a process can gain in a clock tick

ASSUME ProcessAssumption == /\ Pids # {} /\ 0 \notin Pids
                            /\ {MaxClock, MaxLives, PerSecond, Expire} \subseteq Nat \ {0}
                            /\ Cores \in Nat

VARIABLES clock,
          procs,     \* procs[p]: life counts the processes that had pid p
          pinfo,     \* the record of the last process, and when it was read
          procCpu,   \* sigar->proc_cpu: the last call for each pid
          reply,     \* what the last call returned
          unasked    \* the pids sigar_proc_stat_get still has to ask
processVars == <<platform, clock, procs, pinfo, procCpu, reply, unasked>>

NoProcess == [life |-> 0, time |-> 0, alive |-> FALSE]
NoReply == [op |-> "none"]
\* sigar_os_open sets the pid of the record to one no process has.
NoPid == 0
NoRecord == [pid |-> NoPid, mtime |-> 0, owner |-> NoPid, proc |-> NoProcess,
             failed |-> FALSE]

ProcessInit ==
  /\ clock = PerSecond
  /\ procs = [p \in Pids |-> NoProcess]
  /\ pinfo = NoRecord
  /\ procCpu = [p \in Pids |-> [last |-> 0, total |-> 0,
                              owner |-> NoPid, life |-> 0]]
  /\ reply = NoReply
  /\ unasked = {}

(***************************************************************************)
(* The operating system                                                    *)
(***************************************************************************)
Quiet == reply' = NoReply /\ UNCHANGED <<platform, pinfo, procCpu, unasked>>

Tick == /\ clock < MaxClock
        /\ clock' = clock + 1
        /\ \E gain \in [Pids -> 0..Cores] :
             /\ \A p \in Pids : ~procs[p].alive => gain[p] = 0
             /\ procs' = [p \in Pids |-> [procs[p] EXCEPT !.time = @ + gain[p]]]
        /\ Quiet

Spawn(p) == /\ ~procs[p].alive
            /\ procs[p].life < MaxLives
            /\ procs' = [procs EXCEPT ![p] = [life |-> @.life + 1, time |-> 0,
                                              alive |-> TRUE]]
            /\ UNCHANGED clock
            /\ Quiet

Exit(p) == /\ procs[p].alive
           /\ procs' = [procs EXCEPT ![p] = [life |-> @.life, time |-> 0,
                                             alive |-> FALSE]]
           /\ UNCHANGED clock
           /\ Quiet

\* A system call about a process fails when it is gone, and may fail anyway.
Readable(p) == {FALSE, procs[p].alive}

(***************************************************************************)
(* The record: reused while it is young and of the same pid. Otherwise the *)
(* pid and the time are noted BEFORE the read that may fail, so that after *)
(* a failure the record names p and still describes another process.       *)
(***************************************************************************)
Seconds == clock \div PerSecond

\* Faulty variant: a record is reused whatever its age.
FreshForEver(r, p) == r.pid = p

Fresh(r, p) == r.pid = p /\ Seconds - r.mtime < Expire

ReadRecord(r, p, got) ==
  IF Fresh(r, p) THEN r
  ELSE IF got THEN [pid |-> p, mtime |-> Seconds, owner |-> p,
                    proc |-> procs[p], failed |-> FALSE]
  ELSE [r EXCEPT !.pid = p, !.mtime = Seconds, !.failed = TRUE]

(***************************************************************************)
(* The outcomes of a call: the record after it and the answer. An answer   *)
(* may use the record, and may have read the process itself ("live").      *)
(***************************************************************************)
Fails(p, r) == [rec |-> r, ans |-> [op |-> "get", pid |-> p, ok |-> FALSE]]

Answers(p, r, used, live) ==
  [rec |-> r, ans |-> [op |-> "get", pid |-> p, ok |-> TRUE, used |-> used,
                       live |-> live]]

FromRecord(p, r) ==
  {IF Fresh(r, p) \/ got THEN Answers(p, ReadRecord(r, p, got), TRUE, FALSE)
                         ELSE Fails(p, ReadRecord(r, p, got)) :
     got \in Readable(p)}

\* The record first, then the process, which the answer needs or not.
FromBoth(p, needed) ==
  UNION {{IF (Fresh(pinfo, p) \/ got) /\ (needed => live)
          THEN Answers(p, ReadRecord(pinfo, p, got), TRUE, live)
          ELSE Fails(p, ReadRecord(pinfo, p, got)) :
            live \in Readable(p)} : got \in Readable(p)}

FromProcess(p) ==
  {IF live THEN Answers(p, pinfo, FALSE, TRUE) ELSE Fails(p, pinfo) :
     live \in Readable(p)}

(***************************************************************************)
(* Linux. /proc/pid/statm is read for the memory whatever became of the    *)
(* record, whose fault counts are copied even after its read failed. The   *)
(* thread count of /proc/pid/status is optional.                           *)
(***************************************************************************)
LinuxMem(p) ==
  UNION {{IF live THEN Answers(p, ReadRecord(pinfo, p, got), TRUE, TRUE)
                  ELSE Fails(p, ReadRecord(pinfo, p, got)) :
            live \in Readable(p)} : got \in Readable(p)}
LinuxCred(p) == FromProcess(p)
LinuxTime(p) == FromRecord(p, pinfo)
LinuxState(p) == FromBoth(p, FALSE)

(***************************************************************************)
(* AIX asks getthrds for the processor; HP-UX answers all from its record. *)
(***************************************************************************)
AixMemCredTime(p) == FromRecord(p, pinfo)
AixState(p) == FromBoth(p, FALSE)
Hpux(p) == FromRecord(p, pinfo)

(***************************************************************************)
(* Solaris reads /proc/pid/psinfo into the record and /proc/pid/usage      *)
(* directly: for the faults, which are optional, and for the times.        *)
(***************************************************************************)
SolarisPsinfo(p) == FromRecord(p, pinfo)
SolarisCred(p) == SolarisPsinfo(p)
SolarisState(p) == SolarisPsinfo(p)
SolarisMem(p) == FromBoth(p, FALSE)
SolarisTime(p) == FromProcess(p)

(***************************************************************************)
(* Mac OS X asks the kernel task for memory and times, the record for the  *)
(* start time and the credentials; the task's threads give the state when  *)
(* the task may be looked at.                                              *)
(***************************************************************************)
DarwinPinfo(p) == FromRecord(p, pinfo)
DarwinMem(p) == FromProcess(p)
DarwinCred(p) == DarwinPinfo(p)
\* Faulty variant: the times come from the record when the task cannot be
\* looked at.
DarwinTimeEither(p) == FromBoth(p, FALSE)
DarwinTime(p) == FromBoth(p, TRUE)
DarwinState(p) == FromBoth(p, FALSE)

(***************************************************************************)
(* Windows notes the pid only once the performance object is there, and    *)
(* counts handles from a record it forces to be read anew.                 *)
(***************************************************************************)
Win32Info(p, r) ==
  FromRecord(p, r) \cup (IF Fresh(r, p) THEN {} ELSE {Fails(p, r)})
Win32Mem(p) == Win32Info(p, pinfo)
Win32State(p) == Win32Info(p, pinfo)
Win32Time(p) == FromProcess(p)
Win32Fd(p) == Win32Info(p, [pinfo EXCEPT !.pid = NoPid])

Mem(p) == CASE platform = "linux" -> LinuxMem(p)
            [] platform = "aix" -> AixMemCredTime(p)
            [] platform = "hpux" -> Hpux(p)
            [] platform = "solaris" -> SolarisMem(p)
            [] platform = "darwin" -> DarwinMem(p)
            [] platform = "win32" -> Win32Mem(p)

Cred(p) == CASE platform = "linux" -> LinuxCred(p)
             [] platform = "aix" -> AixMemCredTime(p)
             [] platform = "hpux" -> Hpux(p)
             [] platform = "solaris" -> SolarisCred(p)
             [] platform = "darwin" -> DarwinCred(p)
             [] platform = "win32" -> {Fails(p, pinfo)}

Time(p) == CASE platform = "linux" -> LinuxTime(p)
             [] platform = "aix" -> AixMemCredTime(p)
             [] platform = "hpux" -> Hpux(p)
             [] platform = "solaris" -> SolarisTime(p)
             [] platform = "darwin" -> DarwinTime(p)
             [] platform = "win32" -> Win32Time(p)

State(p) == CASE platform = "linux" -> LinuxState(p)
              [] platform = "aix" -> AixState(p)
              [] platform = "hpux" -> Hpux(p)
              [] platform = "solaris" -> SolarisState(p)
              [] platform = "darwin" -> DarwinState(p)
              [] platform = "win32" -> Win32State(p)

Fd(p) == IF platform = "win32" THEN Win32Fd(p) ELSE {}

Get(p) == /\ unasked = {}
          /\ \E o \in Mem(p) \cup Cred(p) \cup Time(p) \cup State(p) \cup Fd(p) :
               pinfo' = o.rec /\ reply' = o.ans
          /\ UNCHANGED <<platform, clock, procs, procCpu, unasked>>

(***************************************************************************)
(* sigar_proc_cpu_get: the time since the last call is noted first; a call *)
(* in the same instant repeats the last answer, a call that cannot read    *)
(* the process fails, and a total that shrank counts as a first one.       *)
(***************************************************************************)
Source(o) == IF o.ans.live THEN procs[o.ans.pid] ELSE o.rec.proc
Owner(o) == IF o.ans.live THEN o.ans.pid ELSE o.rec.owner

ProcCpuGet(p) ==
  LET prev == procCpu[p]
      timeDiff == clock - prev.last
  IN /\ unasked = {}
     /\ IF timeDiff = 0
        THEN /\ reply' = [op |-> "cpu", pid |-> p, ok |-> TRUE, again |-> TRUE]
             /\ UNCHANGED <<pinfo, procCpu>>
        ELSE \E o \in Time(p) :
               /\ pinfo' = o.rec
               /\ IF o.ans.ok
                  THEN LET total == Source(o).time
                           otime == IF total < prev.total THEN 0 ELSE prev.total
                       IN /\ procCpu' = [procCpu EXCEPT ![p] =
                               [last |-> clock, total |-> total,
                                owner |-> Owner(o), life |-> Source(o).life]]
                          /\ reply' = [op |-> "cpu", pid |-> p, ok |-> TRUE,
                                       again |-> FALSE, over |-> timeDiff,
                                       used |-> IF otime = 0 THEN 0
                                                ELSE total - otime]
                  ELSE /\ procCpu' = [procCpu EXCEPT ![p].last = clock]
                       /\ reply' = [op |-> "cpu", pid |-> p, ok |-> FALSE]
     /\ UNCHANGED <<platform, clock, procs, unasked>>

(***************************************************************************)
(* sigar_proc_stat_get: the list of processes, then the state of each, a   *)
(* process that went away in between being left out.                       *)
(***************************************************************************)
ProcStatBegin ==
  /\ unasked = {}
  /\ unasked' = {p \in Pids : procs[p].alive}
  /\ reply' = NoReply
  /\ UNCHANGED <<platform, clock, procs, pinfo, procCpu>>

ProcStatNext(p) ==
  /\ p \in unasked
  /\ unasked' = unasked \ {p}
  /\ \E o \in State(p) : pinfo' = o.rec /\ reply' = o.ans
  /\ UNCHANGED <<platform, clock, procs, procCpu>>

ProcessNext ==
  \/ Tick
  \/ \E p \in Pids : Spawn(p) \/ Exit(p) \/ Get(p) \/ ProcCpuGet(p) \/ ProcStatNext(p)
  \/ ProcStatBegin

ProcessSpec == (platform \in Platforms /\ ProcessInit) /\ [][ProcessNext]_processVars
-----------------------------------------------------------------------------
Process == [life : Nat, time : Nat, alive : BOOLEAN]
Record == [pid : Pids \cup {NoPid}, mtime : Nat, owner : Pids \cup {NoPid},
           proc : Process, failed : BOOLEAN]
ProcessTypeOK ==
  /\ platform \in Platforms
  /\ clock \in Nat
  /\ procs \in [Pids -> Process]
  /\ pinfo \in Record
  /\ procCpu \in [Pids -> [last : Nat, total : Nat, owner : Pids \cup {NoPid},
                          life : Nat]]

\* What was seen of a process, however long ago, is not ahead of the process
\* (or of nothing, when no process was seen yet): why the two properties below
\* hold.
NotAhead(owner, life, time) ==
  IF owner = NoPid THEN time = 0
  ELSE /\ life <= procs[owner].life
       /\ life = procs[owner].life /\ procs[owner].alive => time <= procs[owner].time

RecordIsPast == NotAhead(pinfo.owner, pinfo.proc.life, pinfo.proc.time)
TotalsArePast == \A p \in Pids :
  NotAhead(procCpu[p].owner, procCpu[p].life, procCpu[p].total)

\* Where the times come from the record, no total is ahead of the record.
TotalsWereRecords ==
  platform \in {"linux", "aix", "hpux"} =>
    \A p \in Pids :
      procCpu[p].owner = pinfo.owner /\ procCpu[p].life = pinfo.proc.life
        => procCpu[p].total <= pinfo.proc.time

RecordOfOwner == pinfo.failed \/ pinfo.pid \in {NoPid, pinfo.owner}

ProcessIInv == /\ ProcessTypeOK
               /\ RecordOfOwner
               /\ RecordIsPast
               /\ TotalsArePast
               /\ TotalsWereRecords

\* A successful answer made from the record is about the pid it was asked
\* for, as it was less than Expire seconds ago - unless the last attempt to
\* fill the record failed: then the record of some other process, or of a
\* process seen long ago, is returned under this pid as a success.
OnlyFailuresMixProcesses ==
  reply.op = "get" /\ reply.ok /\ reply.used
    => \/ pinfo.failed
       \/ /\ pinfo.owner = reply.pid
          /\ Seconds - pinfo.mtime < Expire

\* The total proc_cpu keeps for a pid goes back only when it was taken from
\* another process than before: a new one that reused the pid, or a stranger
\* whose record was served after a failed read.
TotalsGrow ==
  [][\A p \in Pids : procCpu'[p].total < procCpu[p].total
       => <<procCpu'[p].owner, procCpu'[p].life>>
            # <<procCpu[p].owner, procCpu[p].life>>]_processVars

\* What TestProcTime asserts of the percentage sigar_proc_cpu_get computes:
\* no more cpu time than the cores have in the time since the last call.
PercentWithinCores ==
  reply.op = "cpu" /\ reply.ok /\ ~reply.again => reply.used <= Cores * reply.over
=============================================================================
