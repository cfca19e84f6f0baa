-------------------------- MODULE SigarCommonCalls --------------------------
(***************************************************************************)
(* sigar.c, sigar_util.c and jni/javasigar.c: the calls every platform     *)
(* shares, as sequences of steps, and the native methods of the Java class *)
(* around them. A platform P names its own part of every call.             *)
(***************************************************************************)
EXTENDS SigarSteps

CommonFields == {"jsigar", "handle", "pids", "ifconf_buf", "self_path", "fsdev", "proc_cpu",
                 "net_listen", "services_tcp", "services_udp"}

\* Faulty variant: one field is not set to NULL.
OpenForgetting(P) == P.open \o Clear("ifconf_buf") \o Clear("self_path") \o Clear("fsdev")
              \o Clear("pids") \o Clear("proc_cpu") \o Clear("services_tcp")
              \o Clear("services_udp")
Open_(P) == P.open \o Clear("ifconf_buf") \o Clear("self_path") \o Clear("fsdev")
              \o Clear("pids") \o Clear("proc_cpu") \o Clear("net_listen")
              \o Clear("services_tcp") \o Clear("services_udp")
\* Faulty variant: the listeners are not freed.
CloseForgetting(P) == FreeKept("ifconf_buf") \o FreeKept("self_path") \o FreeKept("pids")
              \o FreeKept("fsdev") \o FreeKept("proc_cpu")
              \o FreeKept("services_tcp") \o FreeKept("services_udp") \o P.close
Close(P) == FreeKept("ifconf_buf") \o FreeKept("self_path") \o FreeKept("pids")
              \o FreeKept("fsdev") \o FreeKept("proc_cpu") \o FreeKept("net_listen")
              \o FreeKept("services_tcp") \o FreeKept("services_udp") \o P.close

(***************************************************************************)
(* Files and directories of /proc (sigar_util.c)                           *)
(***************************************************************************)
\* Faulty variants: the file stays open after a read that failed; a row is
\* stored without making room for it.
File2StrLeaking == Open("fd") \o Ask \o Free("fd")
ProcfsListUngrown == Open("dirp") \o Loop(Put("list")) \o Free("dirp")
File2Str == Open("fd") \o AskOr({"fd"}) \o Free("fd")
ProcFdCount == Open("dirp") \o Free("dirp")
ProcfsList == Open("dirp") \o Loop(AddTo("list")) \o Free("dirp")

\* The buffer grows with every read; there is none when nothing was read.
ProcfsArgs ==
  Open("fd") \o Either(Take("buf") \o Loop(Use("buf")) \o Free("fd")
                         \o Loop(AddTo("list")) \o Free("buf"),
                       Free("fd"))
DlinfoModules == Ask \o Open("dl") \o Loop(Use("dl")) \o Free("dl")

\* What device a directory is on: kept once it was looked up.
Iodev(P) ==
  KeepOnce("fsdev") \o Ask \o UseKept("fsdev")
    \o Maybe(Maybe(InList("fslist", P.fsList) \o Loop(UseKept("fsdev")) \o Free("fslist") \o Ask))

RpcPing == Ask \o Open("client") \o Use("client") \o Free("client")

(***************************************************************************)
(* Lists (sigar.c)                                                         *)
(***************************************************************************)
ProcListGet(P) == NewList("list") \o P.procList
ProcListReused(P) == KeepOnce("pids") \o OnKept("pids", P.procList)
ProcArgsGet(P) == NewList("list") \o Within({"list"}, P.procArgs)

WhoUtmp == Open("fp") \o Loop(Maybe(AddTo("list"))) \o Free("fp")
WhoUtmpx == WhoUtmp
WhoListGet(who) == NewList("list") \o Within({"list"}, who)
ConnectionListGet(walk) == NewList("list") \o Within({"list"}, walk)

(***************************************************************************)
(* Network interfaces (sigar.c, on all but Windows and Mac OS X)           *)
(***************************************************************************)
\* The buffer of the handle grows until the answer does not fill it. When the
\* system refuses, the buffer is freed but stays in the handle, and the socket
\* stays open. One slot per byte of the answer is made for the names.
InterfaceList(linux) ==
  Open("sock") \o KeepOnce("ifconf_buf")
    \o Loop(UseKept("ifconf_buf")) \o UseKept("ifconf_buf")
    \o OrElse(Ask, Dispose("ifconf_buf") \o Fail)
    \o Free("sock") \o Count \o NewCounted("list") \o EachCounted(UseKept("ifconf_buf") \o Put("list"))
    \o (IF linux THEN Try(Open("fp") \o Loop(Maybe(AddTo("list"))) \o Free("fp")) ELSE <<>>)

\* The aix build looks the hardware address up in the buffer of the list.
InterfaceConfig(aix) ==
  Open("sock") \o Use("sock") \o AskOr({"sock"}) \o Loop(Use("sock"))
    \o (IF aix THEN IfKept("ifconf_buf", UseKept("ifconf_buf"), <<>>) ELSE Use("sock"))
    \o Free("sock")
InterfacePrimary(P) ==
  P.ifList \o Loop(Try(P.ifConfig)) \o Free("list") \o Maybe(Fail)

DefaultGateway(routeList) == routeList \o Free("list")
NetInfo(routeList) == Try(Open("fp") \o Free("fp")) \o Try(DefaultGateway(routeList))

(***************************************************************************)
(* The native methods. An answer is taken into Java objects row by row, and *)
(* the method returns at once when one of them throws.                     *)
(***************************************************************************)
IntoJava == Throws \o Loop(Throws) \o Free("list")
PidsIntoJava == Throws \o Maybe(Take("jlongs") \o Free("jlongs")) \o Free("list")

JavaOpen(P) == Keep("jsigar") \o Open_(P)
JavaClose(P) == Close(P) \o Dispose("jsigar")

NativeMethods(P) ==
  [open |-> JavaOpen(P),
   nativeClose |-> JavaClose(P),
   getFileSystemListNative |-> P.fsList \o IntoJava,
   getDiskUsage |-> P.diskUsage,
   getFileSystemUsage |-> P.fsUsage,
   getCpuInfoList |-> P.cpuInfoList \o IntoJava,
   getCpuListNative |-> P.cpuList \o IntoJava,
   getCpu |-> P.cpu,
   getMem |-> P.mem,
   getSwap |-> P.swap,
   getUptime |-> P.uptime,
   getProcList |-> ProcListGet(P) \o PidsIntoJava,
   getProcArgs |-> ProcArgsGet(P) \o IntoJava,
   getProcEnv |-> P.procEnv,
   getProcFd |-> P.procFd,
   getProcExe |-> P.procExe,
   getProcModulesNative |-> P.procModules,
   getThreadCpu |-> P.threadCpu,
   getNetRouteList |-> P.routeList \o IntoJava,
   getNetInterfaceList |-> P.ifList \o IntoJava,
   getNetInterfaceConfig |-> Either(P.ifConfig, InterfacePrimary(P)),
   getNetInterfaceStat |-> P.ifStat,
   getNetInfo |-> P.netInfo,
   getNetConnectionList |-> ConnectionListGet(P.connections) \o IntoJava,
   getTcp |-> P.tcp,
   getNfsClientV2 |-> P.nfs,
   getWhoList |-> P.who \o IntoJava,
   getProcMem |-> P.procInfo,
   RPC_ping |-> P.rpcPing,
   findProcess |-> ProcListReused(P),
   getProcCpu |-> KeepOnce("proc_cpu") \o UseKept("proc_cpu") \o Ask,
   getNetStat |-> KeepOnce("net_listen") \o Loop(UseKept("net_listen")),
   getNetServicesName |-> Either(KeepOnce("services_tcp") \o UseKept("services_tcp"),
                                 KeepOnce("services_udp") \o UseKept("services_udp"))]

\* The methods of every platform, and those that only this one implements.
JavaCalls(P) ==
  [op \in DOMAIN NativeMethods(P) \cup DOMAIN P.more |->
     IF op \in DOMAIN P.more THEN P.more[op] ELSE NativeMethods(P)[op]]
=============================================================================
