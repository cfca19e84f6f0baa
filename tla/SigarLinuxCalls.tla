-------------------------- MODULE SigarLinuxCalls ---------------------------
(***************************************************************************)
(* os/linux/linux_sigar.c: the calls that open files under /proc and /sys, *)
(* as sequences of steps.                                                  *)
(***************************************************************************)
EXTENDS SigarCommonCalls

LinuxFields == {}

LinuxBootTime == Open("fp") \o Free("fp")
LinuxOpen == NewHandle \o LinuxBootTime
LinuxClose == Dispose("handle")

\* /proc/mtrr is read until it told the size; not learning it is no error.
LinuxRam == Maybe(Ask \o Open("fp") \o Free("fp"))
LinuxMem == File2Str \o Try(LinuxRam)
LinuxSwap == File2Str \o OrElse(File2Str, File2Str)
LinuxCpu == File2Str
LinuxUptime == File2Str

\* One row stands in for the cpus an older kernel does not list.
LinuxCpuList ==
  Open("fp") \o NewList("list")
    \o Either(AddTo("list") \o Loop(Maybe(AddTo("list"))) \o Free("fp"),
              Free("fp") \o Put("list"))

\* Without nptl, threads are told from processes by the file of each.
LinuxIsThread == Open("fd") \o Free("fd")
LinuxProcList ==
  Open("dirp") \o Maybe(Try(File2Str))
    \o Loop(Maybe(Try(LinuxIsThread)) \o Maybe(AddTo("list"))) \o Free("dirp")

LinuxProcEnv == Maybe(Open("fd") \o Free("fd"))
LinuxProcExe == Ask \o Ask \o Ask
LinuxProcModules == Open("fp") \o Free("fp")

LinuxFsList == Open("fp") \o NewList("list") \o Loop(AddTo("list")) \o Free("fp")

\* The counters of a device are in one of three files, chosen at open.
LinuxIodev == Iodev([fsList |-> LinuxFsList])
LinuxIostatSys == LinuxIodev \o File2Str
LinuxIostatDstat == LinuxIodev \o Ask \o Open("fp") \o Free("fp") \o Ask
LinuxIostatProcp ==
  LinuxIodev \o Ask \o Open("fp") \o Either(Free("fp"), Free("fp") \o Fail)
LinuxDiskUsage ==
  Either(LinuxIostatSys, Either(LinuxIostatDstat, Either(LinuxIostatProcp, Fail)))
    \o Try(LinuxUptime)
LinuxFsUsage == Ask \o Try(LinuxDiskUsage)

\* A cpu is read into the row after the last, which is then counted, and room
\* is made for the one after it.
LinuxCpuInfoList ==
  Open("fp") \o NewList("list")
    \o Loop(Maybe(Try(File2Str) \o Put("list") \o Grow("list"))) \o Free("fp")

\* A row that turns out not to be a route that is up is taken back.
LinuxRouteList ==
  Open("fp") \o NewList("list") \o Loop(Grow("list") \o Maybe(Put("list"))) \o Free("fp")

LinuxIfStat == Open("fp") \o Free("fp") \o Ask
LinuxProcNetRead == OrElse(Open("fp"), Open("fp")) \o Loop(Maybe(AddTo("list"))) \o Free("fp")
LinuxConnections == Loop(LinuxProcNetRead \o Try(LinuxProcNetRead))
LinuxConnectionGet == OrElse(Open("fp"), Open("fp")) \o Free("fp")

\* The process that has the socket: through the descriptors of all of them.
LinuxProcPort ==
  Loop(LinuxConnectionGet) \o Open("dirp")
    \o Loop(Try(Open("fd_dirp") \o Free("fd_dirp"))) \o Free("dirp")
LinuxTcp == Open("fp") \o Free("fp") \o Ask
LinuxNfs == Open("fp") \o Free("fp") \o Ask

Linux ==
  [open |-> LinuxOpen, close |-> LinuxClose, fsList |-> LinuxFsList,
   diskUsage |-> LinuxDiskUsage, fsUsage |-> LinuxFsUsage, cpuInfoList |-> LinuxCpuInfoList,
   cpuList |-> LinuxCpuList, cpu |-> LinuxCpu, mem |-> LinuxMem, swap |-> LinuxSwap,
   uptime |-> LinuxUptime, procList |-> LinuxProcList, procArgs |-> ProcfsArgs,
   procEnv |-> LinuxProcEnv, procFd |-> ProcFdCount, procExe |-> LinuxProcExe,
   procInfo |-> File2Str, connections |-> LinuxConnections,
   procModules |-> LinuxProcModules, threadCpu |-> Ask, routeList |-> LinuxRouteList,
   ifList |-> InterfaceList(TRUE), ifConfig |-> InterfaceConfig(FALSE),
   ifStat |-> LinuxIfStat, tcp |-> LinuxTcp, nfs |-> LinuxNfs, who |-> WhoListGet(WhoUtmp),
   netInfo |-> NetInfo(LinuxRouteList), rpcPing |-> RpcPing,
   more |-> [getProcPort |-> LinuxProcPort]]
=============================================================================
