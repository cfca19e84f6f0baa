--------------------------- MODULE SigarAixCalls ----------------------------
(***************************************************************************)
(* os/aix/aix_sigar.c: the calls that ask perfstat, getprocs and the odm,  *)
(* as sequences of steps.                                                  *)
(***************************************************************************)
EXTENDS SigarCommonCalls

AixFields == {"kmem", "pinfo", "cpuinfo", "diskmap"}

\* Without /dev/kmem, or its offsets, the handle works all the same.
AixOpen ==
  NewHandle \o Clear("kmem") \o Clear("pinfo") \o Clear("cpuinfo")
    \o Try(Ask \o Keep("kmem") \o OrElse(Ask, Dispose("kmem") \o Clear("kmem")))
    \o Clear("diskmap")
AixClose ==
  FreeKept("kmem") \o FreeKept("pinfo") \o FreeKept("cpuinfo") \o FreeKept("diskmap")
    \o Dispose("handle")

AixSwap == Loop(Try(Ask)) \o Try(Ask)
AixCpuList == NewList("list") \o Loop(AddTo("list") \o Try(Ask))
AixBootTime == Open("fd") \o Loop(AskOr({"fd"})) \o Free("fd")
AixUptime == Maybe(AixBootTime)
AixWhoUtmp == Open("fp") \o Loop(Maybe(AddTo("list"))) \o Free("fp")
AixConnections == Loop(Ask \o Maybe(AddTo("list")))
AixProcList == Loop(AddTo("list"))
AixGetprocs == KeepOnce("pinfo") \o Maybe(UseKept("pinfo") \o Ask)
AixProcArgs == Ask \o Loop(AddTo("list"))

\* Only of the process itself; the list of a stranger's is not implemented.
AixModulesLocal ==
  Take("buffer") \o Loop(Use("buffer")) \o Use("buffer") \o Loop(AskOr({"buffer"})) \o Free("buffer")
AixProcModules == Either(AixModulesLocal, Fail)
AixThreadCpu == Maybe(Ask) \o Ask

AixFsList ==
  Ask \o Take("buf") \o AskOr({"buf"}) \o NewList("list")
    \o Loop(Use("buf") \o AddTo("list")) \o Free("buf")

\* Which file system is on which disk, from the odm: asked once.
AixDiskmap ==
  Ask \o Take("disk") \o AskOr({"disk"}) \o Keep("diskmap")
    \o Loop(Use("disk") \o Maybe(Take("odm")
              \o Maybe(Take("attr") \o Maybe(UseKept("diskmap")) \o Free("attr"))
              \o Free("odm")))
    \o Free("disk")
AixFsUsage ==
  Ask \o IfKept("diskmap", <<>>, Try(AixDiskmap))
    \o IfKept("diskmap", Try(Ask \o UseKept("diskmap")), <<>>)

AixOdmModel == Maybe(Maybe(Take("odm_obj") \o Free("odm_obj")))
AixCpuInfoList == NewList("list") \o Loop(AddTo("list") \o Try(Ask) \o AixOdmModel)

Aix ==
  [open |-> AixOpen, close |-> AixClose, fsList |-> AixFsList, diskUsage |-> Ask,
   fsUsage |-> AixFsUsage, cpuInfoList |-> AixCpuInfoList, cpuList |-> AixCpuList,
   cpu |-> Ask, mem |-> Ask, swap |-> AixSwap, uptime |-> AixUptime,
   procList |-> AixProcList, procArgs |-> AixProcArgs, procEnv |-> Ask, procFd |-> Ask,
   procExe |-> Ask \o Ask, procInfo |-> AixGetprocs, procModules |-> AixProcModules,
   threadCpu |-> AixThreadCpu, routeList |-> Fail, ifList |-> InterfaceList(FALSE),
   ifConfig |-> InterfaceConfig(TRUE), ifStat |-> Ask, tcp |-> Ask, nfs |-> Ask,
   who |-> WhoListGet(AixWhoUtmp), connections |-> AixConnections,
   netInfo |-> NetInfo(Fail), rpcPing |-> RpcPing, more |-> [getProcPort |-> Maybe(Fail)]]
=============================================================================
