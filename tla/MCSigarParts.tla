---------------------------- MODULE MCSigarParts ----------------------------
(***************************************************************************)
(* The parts of the Sigar library that keep a state of their own in a      *)
(* handle: the cache, the record of the last process, the walks over the   *)
(* connections, and the queries. They share nothing but the platform, so a *)
(* behaviour is that of one part, chosen at the start, while the others    *)
(* rest.                                                                   *)
(***************************************************************************)
EXTENDS SigarCache, SigarProcess, SigarConnections, SigarPtql

VARIABLE part
partsVars == <<part, cacheVars, processVars, connectionVars, ptqlVars>>

PlatformsOf(p) == CASE p = "cache" -> {"linux"}
                    [] p = "queries" -> {"linux", "win32"}
                    [] OTHER -> Platforms

PartsInit == /\ part \in {"cache", "process", "connections", "queries"}
             /\ platform \in PlatformsOf(part)
             /\ CacheInit /\ ProcessInit /\ ConnectionInit /\ PtqlInit

CacheRests == UNCHANGED cacheVars
ProcessRests == UNCHANGED <<clock, procs, pinfo, procCpu, reply, unasked>>
ConnectionsRest == UNCHANGED <<sockets, mib2, listening, heard, walk, tally, netReply>>
QueriesRest == UNCHANGED <<parsing, stage, world, search>>

PartsNext ==
  /\ UNCHANGED <<part, platform>>
  /\ \/ part = "cache" /\ CacheNext /\ ProcessRests /\ ConnectionsRest /\ QueriesRest
     \/ part = "process" /\ ProcessNext /\ CacheRests /\ ConnectionsRest /\ QueriesRest
     \/ part = "connections" /\ ConnectionNext /\ CacheRests /\ ProcessRests /\ QueriesRest
     \/ part = "queries" /\ PtqlNext /\ CacheRests /\ ProcessRests /\ ConnectionsRest

PartsSpec == PartsInit /\ [][PartsNext]_partsVars

\* The second process lives once, uses no cpu and is not asked for its percentage.
OneBusyProcess == procCpu[2].last = 0 /\ procs[2].life <= 1 /\ procs[2].time = 0

\* The processes stay readable while they are looked at.
NoCallFails == part = "process" /\ ~pinfo.failed /\ (reply.op # "none" => reply.ok)

(***************************************************************************)
(* Four sockets, two of them listeners of one port, on either family       *)
(***************************************************************************)
Sock(proto, port, peer, state, family, owner) ==
  [proto |-> proto, port |-> port, peer |-> peer, state |-> state, family |-> family, owner |-> owner]
MCSockets == {Sock("tcp", 1, 0, "listen", "v4", 7), Sock("tcp", 1, 0, "listen", "v6", 7),
              Sock("tcp", 1, 2, "established", "v4", 8), Sock("udp", 1, 0, "idle", "v4", 9)}

(***************************************************************************)
(* Three processes, one of them the child of none, and conditions of every *)
(* class and type                                                          *)
(***************************************************************************)
ssh == <<1, 2>>
sshd == <<1, 2, 3>>
SSH == <<11, 12>>
Proc(name, ppid, uid, nice, args, tcp, udp, services) ==
  [members |-> (<<"State", "Name">> :> name @@ <<"Cred", "Uid">> :> uid
                @@ <<"State", "Nice">> :> nice
                @@ <<"Time", "Sys">> :> ppid @@ <<"State", "State">> :> name[1]
                @@ <<"Cpu", "Percent">> :> uid @@ <<"Fd", "Total">> :> 2
                @@ <<"Exe", "Cwd">> :> name),
   ppid |-> ppid, args |-> args, modules |-> args, env |-> [HOME |-> name],
   tcp |-> tcp, udp |-> udp, services |-> services]
MCData == 1 :> Proc(sshd, 0, 0, 0, <<ssh>>, {7}, {}, {ssh, sshd})
       @@ 2 :> Proc(ssh, 1, 5, -1, <<SSH, ssh>>, {7}, {7}, {})
       @@ 3 :> Proc(ssh, 2, 5, -2, <<>>, {}, {}, {<<11, 4>>})
Cond(name, attr, mods, op, value) ==
  [whole |-> TRUE, name |-> name, attr |-> attr, mods |-> mods, op |-> op, value |-> value]
Num(n) == [kind |-> "number", number |-> n, text |-> <<n>>]
Txt(s) == [kind |-> "text", text |-> s]
Ref(n) == [kind |-> "ref", ref |-> n]
MCConditions ==
  {Cond("State", "Name", {}, "eq", Txt(ssh)),
   Cond("State", "Name", {"P"}, "ne", Ref(1)), Cond("Cred", "Uid", {}, "gt", Num(0)),
   Cond("Args", "-1", {}, "eq", Txt(ssh)), Cond("Args", "*", {"I"}, "ct", Txt(<<2>>)),
   Cond("Modules", "-1", {}, "eq", Txt(ssh)), Cond("Env", "HOME", {}, "re", Txt(<<3>>)),
   Cond("State", "State", {}, "eq", Txt(<<1>>)), Cond("Cpu", "Percent", {}, "ge", Num(5)),
   Cond("Pid", "Pid", {}, "ne", [kind |-> "self", text |-> NoText]), Cond("Pid", "PidFile", {}, "eq", Txt(<<9>>)),
   Cond("Pid", "Service", {}, "eq", Txt(ssh)), Cond("Port", "tcp", {}, "eq", Num(7)),
   Cond("Port", "udp", {}, "eq", Num(7)), Cond("Fd", "Total", {}, "gt", Num(1)),
   Cond("Exe", "Cwd", {}, "eq", [kind |-> "env", text |-> NoText]),
   Cond("State", "Name", {"P"}, "sw", Txt(sshd)), Cond("Cred", "Uid", {"P"}, "ge", Num(5)),
   Cond("State", "Nice", {}, "le", Num(-2)), Cond("State", "Ppid", {"P"}, "lt", Num(1)), Cond("Pid", "Service", {}, "sw", Txt(<<1>>)),
   Cond("State", "Name", {"X"}, "eq", Txt(ssh)), Cond("Time", "Sys", {}, "ew", Num(1)),
   Cond("Time", "Sys", {}, "ge", Num(1))}
MCPidFiles == <<9>> :> 3
=============================================================================
