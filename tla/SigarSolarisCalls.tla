------------------------- MODULE SigarSolarisCalls --------------------------
(***************************************************************************)
(* os/solaris: the calls that ask kstat, /proc, libproc and the mib2       *)
(* stream, as sequences of steps.                                          *)
(***************************************************************************)
EXTENDS SigarCommonCalls

SolarisFields == {"kc", "ks_cpu", "sd", "smb", "db", "pinfo", "cpulist", "plib", "pargs"}

\* The tables of cpus are made once, and enlarged when cpus are added.
SolarisGetKstats == IfKept("ks_cpu", <<>>, Keep("ks_cpu")) \o Loop(UseKept("ks_cpu"))

\* No handle without kstat, but the memory of it stays.
SolarisOpen ==
  NewHandle \o Ask \o Keep("kc") \o Clear("cpulist") \o Clear("ks_cpu") \o SolarisGetKstats
    \o Clear("pinfo") \o Clear("plib") \o Clear("pargs") \o Clear("sd") \o Clear("smb")
    \o Clear("db")

SolarisCloseMib2 ==
  IfKept("sd", Dispose("sd") \o Clear("sd")
                 \o IfKept("db", Dispose("db") \o Clear("db"), <<>>)
                 \o IfKept("smb", Dispose("smb") \o Clear("smb"), <<>>), <<>>)
SolarisClose ==
  Dispose("kc") \o SolarisCloseMib2 \o FreeKept("ks_cpu") \o FreeKept("pinfo")
    \o FreeKept("cpulist") \o FreeKept("plib") \o FreeKept("pargs") \o Dispose("handle")

SolarisKstatUpdate == UseKept("kc") \o Ask \o Maybe(SolarisGetKstats)
SolarisSwap == Ask \o Take("stab") \o AskOr({"stab"}) \o Free("stab") \o SolarisKstatUpdate
SolarisChips == Take("chips") \o Loop(Maybe(Use("chips") \o Maybe(AddTo("list")))) \o Free("chips")
SolarisCpuList == SolarisKstatUpdate \o NewList("list") \o SolarisChips
SolarisCpu == SolarisKstatUpdate \o KeepOnce("cpulist") \o OnKept("cpulist", SolarisChips)
SolarisLoadavg == SolarisKstatUpdate \o Ask \o Ask

\* libproc is opened on first use, and closed again when a function misses.
SolarisInitLibproc ==
  IfKept("plib", <<>>, Ask \o Keep("plib") \o OrElse(Ask, Dispose("plib") \o Clear("plib") \o Fail))
SolarisPgrab(undo) == Within(undo, Ask) \o Take("phandle")

\* Arguments of a process of another data model, or that may not be read, are
\* asked of ps and kept.
SolarisUcbPs ==
  KeepOnce("pargs") \o Maybe(UseKept("pargs"))
    \o Maybe(Open("pipe") \o Maybe(UseKept("pargs")) \o Free("pipe") \o Ask) \o Loop(AddTo("list"))
SolarisPsinfo ==
  KeepOnce("pinfo") \o Maybe(Open("fd") \o UseKept("pinfo") \o Free("fd") \o Ask)
SolarisReadArgs ==
  Take("fd") \o Maybe(Take("argvp"))
    \o OrElse(Ask \o Loop(Ask \o AddTo("list")), Free("fd") \o FreeIf("argvp") \o Fail)
    \o FreeIf("argvp") \o Free("fd")
SolarisProcArgs ==
  SolarisPsinfo \o Either(<<>>, Either(SolarisReadArgs, Either(SolarisUcbPs, Fail)))
SolarisProcEnv ==
  SolarisPsinfo \o Open("fd") \o AskOr({"fd"}) \o Loop(AskOr({"fd"})) \o Free("fd")

\* Solaris 10 has links in /proc, before that libproc has to be asked.
SolarisProcExe ==
  Either(<<>>,
         SolarisInitLibproc
           \o Maybe(Try(SolarisPgrab({}) \o Use("phandle") \o Free("phandle")))
           \o UseKept("plib"))

SolarisPgrabModules ==
  Open("fd") \o AskOr({"fd"}) \o Within({"fd"}, SolarisInitLibproc) \o SolarisPgrab({"fd"})
    \o Loop(AskOr({"fd", "phandle"}) \o Use("phandle")) \o Free("fd") \o Free("phandle")
SolarisProcModules == Either(DlinfoModules, SolarisPgrabModules)

SolarisFsList == Open("fp") \o NewList("list") \o Loop(Maybe(AddTo("list"))) \o Free("fp")

\* Which disk a file system is on: the cache is made before it can be filled,
\* and is not tried again.
SolarisFsdevPaths == Open("fp") \o Take("mapping") \o Loop(Use("mapping")) \o Free("fp")
SolarisFsdevCache ==
  Keep("fsdev") \o InList("fslist", SolarisFsList) \o Within({"fslist"}, SolarisFsdevPaths)
    \o Loop(Use("mapping") \o Maybe(UseKept("fsdev"))) \o Free("mapping") \o Free("fslist")
SolarisKstatDisk == SolarisKstatUpdate \o Loop(UseKept("kc")) \o Ask
SolarisDiskUsage ==
  IfKept("fsdev", <<>>, Try(SolarisFsdevCache))
    \o IfKept("fsdev", Either(Ask \o UseKept("fsdev") \o Ask \o SolarisKstatDisk,
                              SolarisKstatDisk \o UseKept("fsdev")), <<>>)
SolarisFsUsage == Ask \o Try(SolarisDiskUsage)

SolarisCpuInfoList == SolarisKstatUpdate \o Ask \o NewList("list") \o SolarisChips

\* Messages of the mib2 stream, which is opened when it is not open: asking
\* for data and failing leaves it open, the end of the data closes it.
SolarisOpenMib2 == Ask \o Keep("sd") \o Ask \o Ask \o Keep("smb")
SolarisGetMib2 ==
  IfKept("sd", <<>>, SolarisOpenMib2 \o UseKept("smb") \o Ask) \o UseKept("smb")
    \o Maybe(SolarisCloseMib2 \o Fail) \o Ask \o KeepOnce("db") \o Ask

SolarisRouteList ==
  NewList("list")
    \o OrElse(Loop(SolarisGetMib2 \o Loop(Maybe(AddTo("list")))) \o Fail, SolarisCloseMib2 \o Maybe(Fail))

\* The statistics of tcp are found before the end: the stream is left there.
SolarisTcp == Loop(SolarisGetMib2) \o SolarisGetMib2

\* Any end of a walk but that of the data is an error, also when the walker has
\* enough.
SolarisConnections ==
  OrElse(Loop(SolarisGetMib2 \o Loop(AddTo("list"))) \o Fail, SolarisCloseMib2 \o Maybe(Fail))

SolarisFindPort == Open("dirp") \o Free("dirp")
SolarisProcPort ==
  SolarisInitLibproc \o NewList("list") \o Within({"list"}, ProcfsList)
    \o Loop(Try(SolarisPgrab({}) \o Maybe(Take("agent") \o Try(SolarisFindPort) \o Free("agent"))
                   \o Free("phandle")))
    \o Free("list") \o Maybe(Fail)

SolarisIfStat == SolarisKstatUpdate \o Ask \o Ask
SolarisNfs == SolarisKstatUpdate \o Ask \o Ask

Solaris ==
  [open |-> SolarisOpen, close |-> SolarisClose, fsList |-> SolarisFsList,
   diskUsage |-> SolarisDiskUsage, fsUsage |-> SolarisFsUsage,
   cpuInfoList |-> SolarisCpuInfoList, cpuList |-> SolarisCpuList, cpu |-> SolarisCpu,
   mem |-> SolarisKstatUpdate, swap |-> SolarisSwap, uptime |-> <<>>, procList |-> ProcfsList,
   procArgs |-> SolarisProcArgs, procEnv |-> SolarisProcEnv, procFd |-> ProcFdCount,
   procExe |-> SolarisProcExe, procInfo |-> SolarisPsinfo,
   procModules |-> SolarisProcModules, threadCpu |-> Maybe(Fail),
   routeList |-> SolarisRouteList, ifList |-> InterfaceList(FALSE),
   ifConfig |-> InterfaceConfig(FALSE), ifStat |-> SolarisIfStat, tcp |-> SolarisTcp,
   nfs |-> SolarisNfs, who |-> WhoListGet(WhoUtmp), connections |-> SolarisConnections,
   netInfo |-> NetInfo(SolarisRouteList), rpcPing |-> RpcPing,
   more |-> [getProcPort |-> SolarisProcPort]]
=============================================================================
