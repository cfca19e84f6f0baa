-------------------------- MODULE SigarDarwinCalls --------------------------
(***************************************************************************)
(* os/darwin/darwin_sigar.c as it is built for Mac OS X: the calls that    *)
(* ask sysctl, mach and the io registry, as sequences of steps.            *)
(***************************************************************************)
EXTENDS SigarCommonCalls

DarwinFields == {"libproc", "pinfo"}

DarwinOpen ==
  Ask \o Ask \o NewHandle \o Clear("libproc") \o Try(Ask \o Keep("libproc")) \o Clear("pinfo")

\* The library of processes stays loaded.
DarwinClose == FreeKept("pinfo") \o Dispose("handle")

\* Before 10.4 the swap files are looked for.
DarwinSwapFs == Open("dirp") \o Free("dirp") \o Ask
DarwinSwap == OrElse(Ask, DarwinSwapFs) \o Ask
DarwinCpuList == Ask \o Take("cpuload") \o NewList("list") \o Loop(AddTo("list")) \o Free("cpuload")

\* A buffer for what the system has to tell, asked for its size first.
DarwinSysctl(buf) == Ask \o Take(buf) \o AskOr({buf})
DarwinProcList == DarwinSysctl("proc") \o Loop(Maybe(AddTo("list"))) \o Free("proc")
DarwinGetPinfo == KeepOnce("pinfo") \o UseKept("pinfo") \o Ask

\* The arguments of a process, its environment and its name are in one block.
DarwinKernArgs == Take("buf") \o AskOr({"buf"})
DarwinProcArgs ==
  DarwinKernArgs \o Maybe(FailAfter({"buf"})) \o Loop(AddTo("list")) \o Free("buf")
DarwinProcEnv == DarwinKernArgs \o Maybe(FailAfter({"buf"})) \o AskOr({"buf"}) \o Free("buf")
DarwinProcExe == DarwinKernArgs \o Maybe(Free("buf")) \o FreeIf("buf")
DarwinProcModules == Either(<<>>, Fail)

DarwinFsList ==
  DarwinSysctl("fs") \o NewList("list") \o Loop(Maybe(AddTo("list"))) \o Free("fs")
DarwinDiskUsage ==
  Iodev([fsList |-> DarwinFsList]) \o Open("service") \o OpenOr("parent", {"service"})
    \o Maybe(Take("props") \o Free("props")) \o Free("service") \o Free("parent")
DarwinFsUsage == Ask \o Try(DarwinDiskUsage)
DarwinCpuInfoList == Try(Ask) \o Try(Ask) \o NewList("list") \o Loop(AddTo("list"))
DarwinRouteList ==
  DarwinSysctl("buf") \o NewList("list") \o Loop(Maybe(AddTo("list"))) \o Free("buf")

DarwinConnections ==
  Loop(DarwinSysctl("buf") \o Loop(Use("buf") \o Maybe(AddTo("list"))) \o Free("buf"))

\* The messages of the interfaces are kept in the buffer of the handle, and so
\* are the descriptors of a process while its ports are looked through.
DarwinIfmsgInit ==
  Ask \o KeepOnce("ifconf_buf") \o Overwrite("ifconf_buf") \o Ask \o Fill("ifconf_buf")
DarwinHasIfaddr == Open("sock") \o Free("sock") \o Ask
DarwinIfmsgIterList ==
  NewList("list") \o Loop(UseFilled("ifconf_buf") \o Maybe(Try(Maybe(DarwinHasIfaddr) \o AddTo("list"))))
DarwinIfmsgIterGet == UseFilled("ifconf_buf") \o Ask
DarwinIfList == DarwinIfmsgInit \o DarwinIfmsgIterList
DarwinIfConfig ==
  IfKept("ifconf_buf", <<>>, DarwinIfmsgInit) \o DarwinIfmsgIterGet
    \o Open("sock") \o Loop(Use("sock")) \o Free("sock")
DarwinIfStat == DarwinIfmsgInit \o DarwinIfmsgIterGet

DarwinFdinfo ==
  KeepOnce("ifconf_buf") \o Overwrite("ifconf_buf") \o Ask \o Loop(Overwrite("ifconf_buf") \o Ask)
DarwinProcPort ==
  IfKept("libproc", <<>>, Fail) \o NewList("list") \o Within({"list"}, DarwinProcList)
    \o Loop(Try(DarwinFdinfo \o UseKept("ifconf_buf"))) \o Free("list") \o Maybe(Fail)

Darwin ==
  [open |-> DarwinOpen, close |-> DarwinClose, fsList |-> DarwinFsList,
   diskUsage |-> DarwinDiskUsage, fsUsage |-> DarwinFsUsage,
   cpuInfoList |-> DarwinCpuInfoList, cpuList |-> DarwinCpuList, cpu |-> Ask, mem |-> Ask,
   swap |-> DarwinSwap, uptime |-> Maybe(Fail), procList |-> DarwinProcList,
   procArgs |-> DarwinProcArgs, procEnv |-> DarwinProcEnv, procFd |-> Fail,
   procExe |-> DarwinProcExe, procInfo |-> DarwinGetPinfo, procModules |-> DarwinProcModules,
   threadCpu |-> Ask, routeList |-> DarwinRouteList,
   netInfo |-> NetInfo(DarwinRouteList), ifList |-> DarwinIfList,
   ifConfig |-> DarwinIfConfig, ifStat |-> DarwinIfStat, tcp |-> Ask,
   nfs |-> Ask, who |-> WhoListGet(OrElse(WhoUtmp, WhoUtmpx)),
   connections |-> DarwinConnections, rpcPing |-> RpcPing,
   more |-> [getProcPort |-> DarwinProcPort]]
=============================================================================
