--------------------------- MODULE SigarHpuxCalls ---------------------------
(***************************************************************************)
(* os/hpux/hpux_sigar.c: the calls that ask pstat and the mib device, as   *)
(* sequences of steps.                                                     *)
(***************************************************************************)
EXTENDS SigarCommonCalls

HpuxFields == {"pinfo", "mib"}

HpuxOpen == NewHandle \o Clear("pinfo") \o Clear("mib")
HpuxClose == FreeKept("pinfo") \o FreeKept("mib") \o Dispose("handle")

\* Rows of processors that pstat does not answer for are left out.
HpuxCpuList == NewList("list") \o Loop(Try(Ask \o AddTo("list")))
HpuxProcList == Loop(Loop(AddTo("list"))) \o Maybe(Fail)
HpuxGetproc == KeepOnce("pinfo") \o Maybe(UseKept("pinfo") \o Ask)
HpuxProcArgs == Ask \o Loop(AddTo("list"))
HpuxProcFd == Ask \o Loop(<<>>) \o Ask
HpuxProcExe == Ask \o Ask \o Ask \o Ask

\* The stream of the mount table is not closed.
HpuxFsList == Open("fp") \o NewList("list") \o Loop(Maybe(AddTo("list")))

\* The list of file systems the cache is filled from is not freed.
HpuxFsdevCache == InList("fslist", HpuxFsList) \o Keep("fsdev") \o Loop(UseKept("fsdev"))
HpuxFsUsage ==
  Ask \o IfKept("fsdev", <<>>, Try(HpuxFsdevCache))
    \o IfKept("fsdev", Try(Ask \o UseKept("fsdev") \o Ask), <<>>)
HpuxCpuInfoList == NewList("list") \o Loop(Try(Ask \o AddTo("list")))

\* The mib device is opened once; the statistics of the interfaces use the
\* buffer that the list of interfaces fills.
HpuxMibInfo == IfKept("mib", <<>>, Ask \o Keep("mib")) \o UseKept("mib") \o Ask
HpuxPhysicalStat ==
  HpuxMibInfo \o Either(IfKept("ifconf_buf", UseKept("ifconf_buf"), Keep("ifconf_buf")),
                        IfKept("ifconf_buf", UseKept("ifconf_buf"), <<>>)) \o Ask
HpuxIfIndexToName == HpuxPhysicalStat \o IfKept("ifconf_buf", UseKept("ifconf_buf"), <<>>) \o Ask
HpuxIfStat == HpuxPhysicalStat \o IfKept("ifconf_buf", UseKept("ifconf_buf"), <<>>) \o Ask

HpuxRouteList ==
  HpuxMibInfo \o Take("routes") \o Within({"routes"}, HpuxMibInfo) \o NewList("list") \o Count
    \o EachCounted(Use("routes") \o AddTo("list") \o Try(HpuxIfIndexToName)) \o Free("routes")

HpuxConnections ==
  Loop(HpuxMibInfo \o Ask \o Take("entries") \o Within({"entries"}, HpuxMibInfo)
         \o Loop(Use("entries") \o Maybe(AddTo("list"))) \o Free("entries"))
HpuxTcp == Loop(Try(HpuxMibInfo))

Hpux ==
  [open |-> HpuxOpen, close |-> HpuxClose, fsList |-> HpuxFsList, diskUsage |-> Fail,
   fsUsage |-> HpuxFsUsage, cpuInfoList |-> HpuxCpuInfoList, cpuList |-> HpuxCpuList,
   cpu |-> <<>>, mem |-> <<>>, swap |-> <<>>, uptime |-> <<>>,
   procList |-> HpuxProcList, procArgs |-> HpuxProcArgs, procEnv |-> Fail,
   procFd |-> HpuxProcFd, procExe |-> HpuxProcExe, procInfo |-> HpuxGetproc,
   procModules |-> Fail, threadCpu |-> Maybe(Fail), routeList |-> HpuxRouteList,
   ifList |-> InterfaceList(FALSE), ifConfig |-> InterfaceConfig(FALSE),
   ifStat |-> HpuxIfStat, tcp |-> HpuxTcp, nfs |-> Fail, who |-> WhoListGet(WhoUtmp),
   connections |-> HpuxConnections, netInfo |-> NetInfo(HpuxRouteList), rpcPing |-> RpcPing,
   more |-> [getProcPort |-> Fail]]
=============================================================================
