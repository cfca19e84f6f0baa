--------------------------- MODULE SigarWin32Calls --------------------------
(***************************************************************************)
(* os/win32: the calls that ask the registry, the performance counters and *)
(* the libraries of Windows, as sequences of steps.                        *)
(***************************************************************************)
EXTENDS SigarCommonCalls

Win32Dlls == {"wtsapi", "iphlpapi", "advapi", "ntdll", "psapi", "winsta", "kernel", "mpr"}
Win32Netif == {"netif_mib_rows", "netif_addr_rows", "netif_adapters", "netif_names"}
Win32Fields == {"perfbuf", "winsock"} \cup Win32Dlls \cup Win32Netif

\* A library is loaded when it is first needed. One that did not load is marked
\* so that nobody tries again, and the mark is freed as if it were the library.
Dll(m) == IfKept(m, <<>>, OrElse(Ask \o Keep(m), Spoil(m)))
DllFree(m) == IfKept(m, Dispose(m) \o Clear(m), <<>>)

\* Winsock is started when it is first needed, and again when it did not start.
Winsock == IfKept("winsock", <<>>, Ask \o Keep("winsock"))

\* The registry may not open; what the call returns then is known at its end.
Win32Open ==
  NewHandle \o Clear("perfbuf")
    \o Clear("wtsapi") \o Clear("iphlpapi") \o Clear("advapi") \o Clear("ntdll")
    \o Clear("psapi") \o Clear("winsta") \o Clear("kernel") \o Clear("mpr")
    \o Dll("advapi")
    \o Clear("netif_mib_rows") \o Clear("netif_addr_rows") \o Clear("netif_adapters")
    \o Clear("netif_names") \o Clear("winsock") \o Ask
Win32Close ==
  DllFree("wtsapi") \o DllFree("iphlpapi") \o DllFree("advapi") \o DllFree("ntdll")
    \o DllFree("psapi") \o DllFree("winsta") \o DllFree("kernel") \o DllFree("mpr")
    \o FreeKept("perfbuf") \o FreeKept("winsock") \o FreeKept("netif_mib_rows")
    \o FreeKept("netif_addr_rows") \o FreeKept("netif_adapters") \o FreeKept("netif_names")
    \o Dispose("handle")

\* The performance counters: the buffer grows until they fit. When none of the
\* objects in it has instances there is no object, and no error either: the
\* callers that want one with instances return well with nothing done.
PerfbufInit == KeepOnce("perfbuf")
PerfObject == PerfbufInit \o Loop(UseKept("perfbuf")) \o UseKept("perfbuf") \o Ask

Win32Mem == Dll("kernel") \o Ask \o Try(PerfObject)
Win32Swap == Dll("kernel") \o Ask \o Try(PerfObject)
Win32CpuPerflib == PerfObject \o Maybe(UseKept("perfbuf") \o Try(Ask))
Win32Cpu == Dll("ntdll") \o Either(Ask, Win32CpuPerflib)
Win32CpuListPerflib ==
  PerfObject \o NewList("list") \o Loop(UseKept("perfbuf") \o AddTo("list"))
Win32CpuListNtsys == Ask \o NewList("list") \o Loop(AddTo("list"))
Win32CpuList == Dll("ntdll") \o Either(Win32CpuListNtsys, Win32CpuListPerflib)

\* Without an object the list is not made, and Java is handed what there was.
Win32CpuListUnmade ==
  Dll("ntdll") \o PerfObject \o Use("unmade") \o Throws \o Loop(Throws) \o Free("unmade")
Win32Uptime == PerfObject

Win32ProcListPerf == PerfObject \o Loop(UseKept("perfbuf") \o Maybe(AddTo("list")))
Win32ProcListEnum ==
  PerfbufInit \o UseKept("perfbuf") \o Ask \o Loop(UseKept("perfbuf") \o Ask)
    \o Loop(UseKept("perfbuf") \o Maybe(AddTo("list")))
Win32ProcList == Dll("psapi") \o Either(Win32ProcListEnum, Win32ProcListPerf)

\* The names of the owner and of the group of a process, from its token.
TokenName(buf) == Maybe(Take(buf)) \o FreeIf(buf)
Win32CredName ==
  Open("proc") \o OpenOr("token", {"proc"}) \o Free("proc")
    \o TokenName("user") \o AskOr({"token"}) \o TokenName("group") \o Free("token") \o Ask
Win32ProcInfo == Either(<<>>, PerfObject \o Loop(UseKept("perfbuf")) \o Maybe(Fail))

\* Arguments, environment and name of another process are read from its memory.
PebRead == Dll("ntdll") \o Ask \o Ask \o Ask
Win32ParseArgs == Maybe(Take("args") \o Loop(AddTo("list")) \o Free("args"))
Win32RemoteArgs ==
  OrElse(Open("proc") \o Within({"proc"}, PebRead \o Ask \o Win32ParseArgs) \o Free("proc"), Ask)
Win32ProcArgs == Either(Win32ParseArgs, Win32RemoteArgs)
Win32LocalEnv == Take("env") \o Free("env")
Win32RemoteEnv == Open("proc") \o Within({"proc"}, PebRead \o Ask) \o Free("proc")
Win32ProcEnv == Either(Either(Ask, Win32LocalEnv), Win32RemoteEnv)
Win32ProcExe == Open("proc") \o Try(PebRead) \o OrElse(Maybe(Ask), FailAfter({"proc"})) \o Free("proc")
Win32ProcModules ==
  Dll("psapi") \o Maybe(Fail) \o Open("proc") \o AskOr({"proc"}) \o Loop(Use("proc")) \o Free("proc")

Win32FsList == Dll("mpr") \o Ask \o NewList("list") \o Loop(Maybe(AddTo("list")))

\* The counters are asked for twice, and the disk looked for in the first
\* answer: the second may have grown the buffer, and so moved it.
Win32DiskUsage ==
  PerfObject \o Maybe(PerfObject \o Maybe(Use("old_object")) \o Loop(UseKept("perfbuf"))
                      \o Maybe(Fail))
Win32FsUsage == Ask \o Try(Win32DiskUsage)

\* The keys of the processors; nothing is left of them when one is missing.
Win32CpuInfo == Open("key") \o OpenOr("cpu", {"key"}) \o Free("key") \o Free("cpu")
Win32CpuInfoList == NewList("list") \o Win32CpuInfo \o Loop(Grow("list") \o Maybe(Put("list")))

\* What is known of the interfaces is kept, and was made before it was asked.
Win32Table == Dll("iphlpapi") \o Ask \o KeepOnce("ifconf_buf") \o Ask
Win32IpAddr ==
  IfKept("netif_addr_rows", UseKept("netif_addr_rows"),
         Dll("iphlpapi") \o Keep("netif_addr_rows") \o Win32Table
           \o Loop(UseKept("ifconf_buf") \o UseKept("netif_addr_rows"))) \o Ask
Win32NetInfo ==
  Dll("iphlpapi") \o Ask \o Ask \o Take("info") \o AskOr({"info"}) \o Use("info") \o Free("info")
    \o Try(Win32Table \o Loop(UseKept("ifconf_buf")))

Win32IfTable ==
  KeepOnce("netif_mib_rows") \o KeepOnce("netif_names") \o Win32Table \o UseKept("ifconf_buf")
Win32IfRow == UseKept("ifconf_buf") \o UseKept("netif_mib_rows") \o UseKept("netif_names")
Win32IfList ==
  Win32IfTable \o Count \o NewCounted("list") \o EachCounted(Maybe(Put("list") \o Win32IfRow))
Win32MibIfrow ==
  IfKept("netif_mib_rows", <<>>, Win32IfTable \o Loop(Maybe(Win32IfRow)))
    \o UseKept("netif_mib_rows") \o Ask \o Maybe(Ask)
Win32IfConfig == Win32MibIfrow \o Try(Win32IpAddr)
Win32RouteList ==
  Dll("iphlpapi") \o Ask \o Take("buffer") \o AskOr({"buffer"})
    \o IfKept("netif_names", <<>>, Try(Win32IfTable \o Loop(Maybe(Win32IfRow))))
    \o NewList("list") \o Loop(AddTo("list") \o UseKept("netif_names")) \o Free("buffer")

Win32ConnTable(buf) ==
  Dll("iphlpapi") \o Ask \o Take(buf) \o AskOr({buf})
    \o Loop(Use(buf) \o Maybe(AddTo("list"))) \o Free(buf)
Win32Connections == Maybe(Win32ConnTable("tcp")) \o Maybe(Win32ConnTable("udp"))

\* The table the system makes on the heap of the process is not freed.
Win32ProcPort == Dll("iphlpapi") \o Ask \o Ask \o Take("table") \o Loop(Use("table")) \o Maybe(Fail)

\* Who: sessions of the net, of the registry and of the terminal server.
Win32NetSessions ==
  Loop(Take("sessions") \o Loop(AddTo("list")) \o Free("sessions")) \o FreeIf("sessions")
Win32LogonInfo == Open("key") \o Free("key")
Win32WhoRegistry ==
  Ask \o Open("users")
    \o Loop(Maybe(Take("sid") \o Maybe(AddTo("list") \o Try(Win32LogonInfo)) \o Free("sid")))
    \o Free("users")
Win32WhoWts ==
  Dll("wtsapi") \o Ask \o Dll("winsta") \o Ask \o Take("sessions")
    \o Loop(Maybe(Take("buffer") \o Free("buffer")) \o Maybe(AddTo("list"))) \o Free("sessions")
Win32WhoList ==
  NewList("list") \o Try(WhoUtmp) \o Win32NetSessions \o Try(Win32WhoRegistry) \o Try(Win32WhoWts)

Win32ServicePid ==
  Ask \o Open("mgr") \o OpenOr("svc", {"mgr"}) \o AskOr({"svc", "mgr"})
    \o Free("svc") \o Free("mgr")
Win32FileVersion == Ask \o Take("data") \o AskOr({"data"}) \o Loop(Use("data")) \o Free("data")

Win32 ==
  [open |-> Win32Open, close |-> Win32Close, fsList |-> Win32FsList,
   diskUsage |-> Win32DiskUsage, fsUsage |-> Win32FsUsage,
   cpuInfoList |-> Win32CpuInfoList, cpuList |-> Win32CpuList, cpu |-> Win32Cpu,
   mem |-> Win32Mem, swap |-> Win32Swap, uptime |-> Win32Uptime, procList |-> Win32ProcList,
   procArgs |-> Win32ProcArgs, procEnv |-> Win32ProcEnv, procFd |-> Win32ProcInfo,
   procExe |-> Win32ProcExe, procInfo |-> Win32ProcInfo, procModules |-> Win32ProcModules,
   threadCpu |-> Maybe(Fail) \o Ask,
   routeList |-> Win32RouteList, netInfo |-> Win32NetInfo, ifList |-> Win32IfList,
   ifConfig |-> Win32IfConfig, ifStat |-> Win32MibIfrow,
   tcp |-> Dll("iphlpapi") \o Ask, nfs |-> Fail, who |-> Win32WhoList,
   connections |-> Win32Connections, rpcPing |-> Fail,
   more |-> [getCpuListNative |-> Either(Win32CpuList \o IntoJava, Win32CpuListUnmade),
             getFQDN |-> Winsock \o Ask, getProcPort |-> Win32ProcPort, getServicePid |-> Win32ServicePid,
             getProcCredName |-> Win32CredName, getFileVersion |-> Win32FileVersion]]
=============================================================================
