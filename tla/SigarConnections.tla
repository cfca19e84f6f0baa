-------------------------- MODULE SigarConnections --------------------------
(***************************************************************************)
(* The network connection calls of the Sigar library: each platform walks  *)
(* its tables of sockets and hands every row the caller's flags select to  *)
(* a callback of sigar.c (or of linux_sigar.c), which lists it, counts it, *)
(* or notes its listening port in sigar->net_listen, a cache nothing ever  *)
(* invalidates. Sockets open and close between the tables of a walk. On    *)
(* Solaris all tables come from one stream, kept open in the handle until  *)
(* somebody reads it to its end.                                           *)
(***************************************************************************)
EXTENDS Integers, Sequences, SequencesExt, SigarPlatform

CONSTANT Sockets    \* the rows a table can have: see SocketShape

SocketShape == [proto : {"tcp", "udp"}, port : Nat, peer : Nat, owner : Nat,
                state : {"listen", "established", "close_wait", "time_wait", "idle"},
                family : {"v4", "v6"}]
ASSUME SocketAssumption ==
  /\ Sockets \subseteq SocketShape
  /\ \A r \in Sockets : r.state = "listen" => r.proto = "tcp" /\ r.peer = 0

Ports == {r.port : r \in Sockets}
NoAddress == "none"

VARIABLES sockets,      \* the open sockets
          mib2,         \* Solaris: what is left to read of the stream
          listening,    \* sigar->net_listen: the family cached for each port
          heard,        \* history: the families of the listeners walked over
          walk,         \* the walk in progress
          tally,        \* what its callback gathered
          netReply      \* what the last call returned
connectionVars == <<platform, sockets, mib2, listening, heard, walk, tally, netReply>>

NoWalk == [op |-> "none"]
NoCall == [op |-> "none"]
EmptyTally == [listed |-> {}, inbound |-> {}, outbound |-> {}, estab |-> {},
               found |-> {}]
Closed == [open |-> FALSE, left |-> <<>>, rows |-> {}]

ConnectionInit ==
  /\ sockets = {}
  /\ mib2 = Closed
  /\ listening = [p \in Ports |-> NoAddress]
  /\ heard = [p \in Ports |-> {}]
  /\ walk = NoWalk
  /\ tally = EmptyTally
  /\ netReply = NoCall

Idle == walk = NoWalk
BetweenTables == IF Idle THEN TRUE ELSE walk.rows = {}

Toggle(r) ==
  /\ BetweenTables
  /\ sockets' = IF r \in sockets THEN sockets \ {r} ELSE sockets \cup {r}
  /\ netReply' = NoCall
  /\ UNCHANGED <<platform, mib2, listening, heard, walk, tally>>

(***************************************************************************)
(* The tables of a platform, and which of their rows the flags select.     *)
(* Linux has a file for each protocol and family and tells servers by the  *)
(* missing peer; the others tell them by the state. AIX never reads UDP.   *)
(***************************************************************************)
Table(proto, families) == [proto |-> proto, families |-> families]
In(t, r) == r.proto = t.proto /\ r.family \in t.families

LinuxTables == <<Table("tcp", {"v4"}), Table("tcp", {"v6"}),
                 Table("udp", {"v4"}), Table("udp", {"v6"})>>
BothTables == <<Table("tcp", {"v4", "v6"}), Table("udp", {"v4", "v6"})>>

LinuxWalk(protos) == SelectSeq(LinuxTables, LAMBDA t : t.proto \in protos)
Win32Walk(protos) == SelectSeq(BothTables, LAMBDA t : t.proto \in protos)
HpuxWalk(protos) == Win32Walk(protos)
DarwinWalk(protos) == Win32Walk(protos)
AixWalk(protos) == Win32Walk(protos \ {"udp"})

LinuxRead(t, flags) ==
  {{r \in sockets : In(t, r) /\ (IF r.peer = 0 THEN "server" \in flags
                                               ELSE "client" \in flags)}}

ByState(t, flags) ==
  {r \in sockets : In(t, r) /\ (IF r.state = "listen" THEN "server" \in flags
                                                      ELSE "client" \in flags)}
Win32Tcp(t, flags) == {ByState(t, flags)}
HpuxTcp(t, flags) == {ByState(t, flags)}
AixTcp(t, flags) == {ByState(t, flags)}
DarwinRead(t, flags) == {ByState(t, flags)}   \* so_qlimit is that of a listener

\* Windows tests a remote port it has not set yet: whatever lies on the stack.
\* The first row that passes sets it to 0 for the rows after it.
Win32Udp(t, flags) ==
  LET rows == {r \in sockets : In(t, r)}
  IN (IF "server" \in flags THEN {rows} ELSE {{}})
       \cup (IF {"server", "client"} \subseteq flags THEN {rows}
             ELSE IF "client" \in flags THEN {{r} : r \in rows} ELSE {{}})

HpuxUdp(t, flags) == {IF "server" \in flags THEN {r \in sockets : In(t, r)} ELSE {}}

Rows(t, flags) ==
  CASE platform = "linux" -> LinuxRead(t, flags)
    [] platform = "win32" /\ t.proto = "tcp" -> Win32Tcp(t, flags)
    [] platform = "win32" /\ t.proto = "udp" -> Win32Udp(t, flags)
    [] platform = "hpux" /\ t.proto = "tcp" -> HpuxTcp(t, flags)
    [] platform = "hpux" /\ t.proto = "udp" -> HpuxUdp(t, flags)
    [] platform = "aix" -> AixTcp(t, flags)
    [] platform = "darwin" -> DarwinRead(t, flags)

(***************************************************************************)
(* Solaris: get_mib2 opens the stream and asks for everything when it is   *)
(* not open, then reads one message; the end closes it. What was asked for *)
(* is answered with the sockets of that moment, however late it is read.   *)
(***************************************************************************)
Messages == <<"routes", "tcp", "tcp_rows", "udp_rows">>

Opened == IF mib2.open THEN mib2
          ELSE [open |-> TRUE, left |-> Messages, rows |-> sockets]

\* Faulty variant: a failed walk leaves the stream where it is.
StreamAfterKept(ok) == IF ok THEN Closed ELSE mib2

\* The end of the data closes the stream, a failed walk does it explicitly.
StreamAfter(ok) == Closed

SolarisRows(message, flags, rows) ==
  {r \in rows : /\ message = (IF r.proto = "tcp" THEN "tcp_rows" ELSE "udp_rows")
                /\ IF r.state \in {"listen", "idle"} THEN "server" \in flags
                                                     ELSE "client" \in flags}

SolarisRead(flags, protos) ==
  /\ platform = "solaris"
  /\ Opened.left # <<>>
  /\ mib2' = [Opened EXCEPT !.left = Tail(@)]
  /\ walk' = [walk EXCEPT !.rows = {r \in SolarisRows(Head(Opened.left), flags, Opened.rows) :
                                      r.proto \in protos}]

(***************************************************************************)
(* The calls that walk                                                     *)
(***************************************************************************)
Tables(protos) == CASE platform = "linux" -> LinuxWalk(protos)
                    [] platform = "win32" -> Win32Walk(protos)
                    [] platform = "hpux" -> HpuxWalk(protos)
                    [] platform = "aix" -> AixWalk(protos)
                    [] platform = "darwin" -> DarwinWalk(protos)
                    [] platform = "solaris" -> <<>>

Walk(op, flags, protos, port) ==
  /\ Idle
  /\ walk' = [op |-> op, flags |-> flags, protos |-> protos, port |-> port,
              tables |-> Tables(protos), rows |-> {}, known |-> heard]
  /\ tally' = EmptyTally
  /\ netReply' = NoCall
  /\ UNCHANGED <<platform, sockets, mib2, listening, heard>>

Both == {"client", "server"}
ConnectionListGet(flags, protos) == Walk("list", flags, protos, 0)
LinuxConnectionListGet(flags, protos) == Walk("list", flags, protos, 0)
NetStatGet(flags) == Walk("stat", flags, {"tcp", "udp"}, 0)
NetStatPortGet(port) == Walk("port", Both, {"tcp"}, port)
TcpCurrEstab == platform = "darwin" /\ Walk("estab", {"client"}, {"tcp"}, 0)
LinuxConnectionGet(port, proto) ==
  platform = "linux" /\ Walk("owner", {"server"}, {proto}, port)

\* The cached address of a port, or a walk over the listeners to find one.
NetListenAddressGet(port) ==
  IF listening[port] # NoAddress
  THEN /\ Idle
       /\ netReply' = [op |-> "address", ok |-> TRUE, family |-> listening[port]]
       /\ UNCHANGED <<platform, sockets, mib2, listening, heard, walk, tally>>
  ELSE Walk("address", {"server"}, {"tcp"}, port)

(***************************************************************************)
(* A call ends: a list is destroyed when the walk failed, the address and  *)
(* the owner of a port are looked for once it succeeded.                   *)
(***************************************************************************)
PortOwner(row) == {0, row.owner}     \* 0: no process has it open, or may be read

Replies(ok) ==
  CASE walk.op = "address" /\ ok ->
         {[op |-> "address", ok |-> listening[walk.port] # NoAddress,
           family |-> listening[walk.port]]}
    [] walk.op = "owner" /\ ok ->
         {[op |-> "owner", ok |-> TRUE, pid |-> pid] :
            pid \in UNION ({{0}} \cup {PortOwner(r) : r \in tally.found})}
    [] OTHER -> {[op |-> walk.op, ok |-> ok]}

Ends(ok) ==
  /\ walk' = NoWalk
  /\ tally' = IF ok /\ walk.op \notin {"address", "owner"} THEN tally ELSE EmptyTally
  /\ netReply' \in Replies(ok)

ReadTable ==
  /\ ~Idle
  /\ walk.rows = {}
  /\ \/ /\ walk.tables # <<>>
        /\ \E rows \in Rows(Head(walk.tables), walk.flags) :
             walk' = [walk EXCEPT !.tables = Tail(@), !.rows = rows]
        /\ UNCHANGED mib2
     \/ SolarisRead(walk.flags, walk.protos)
  /\ UNCHANGED <<platform, sockets, listening, heard, tally, netReply>>

\* The IPv6 files of Linux may be missing.
SkipTable ==
  /\ ~Idle
  /\ platform = "linux"
  /\ walk.rows = {} /\ walk.tables # <<>>
  /\ Head(walk.tables).families = {"v6"}
  /\ walk' = [walk EXCEPT !.tables = Tail(@)]
  /\ UNCHANGED <<platform, sockets, mib2, listening, heard, tally, netReply>>

WalkFails ==
  /\ ~Idle
  /\ walk.rows = {}
  /\ platform = "solaris" \/ walk.tables # <<>>
  /\ Ends(FALSE)
  /\ mib2' = StreamAfter(FALSE)
  /\ UNCHANGED <<platform, sockets, listening, heard>>

WalkEnds ==
  /\ ~Idle
  /\ walk.rows = {} /\ walk.tables = <<>>
  /\ platform = "solaris" => mib2.open /\ mib2.left = <<>>
  /\ Ends(TRUE)
  /\ mib2' = StreamAfter(TRUE)
  /\ UNCHANGED <<platform, sockets, listening, heard>>

(***************************************************************************)
(* The callbacks                                                           *)
(***************************************************************************)
\* Faulty variant: the last listener seen wins.
ListenAddressReplaced(r) == [listening EXCEPT ![r.port] = r.family]

ListenAddressAdd(r) ==
  [listening EXCEPT ![r.port] = IF @ # NoAddress /\ r.family = "v6" THEN @
                                                                   ELSE r.family]

\* Faulty variant: the connections of known ports count as outbound.
DirectedSwapped(r) == IF listening[r.port] = NoAddress
                      THEN [tally EXCEPT !.inbound = @ \cup {r}]
                      ELSE [tally EXCEPT !.outbound = @ \cup {r}]

Directed(r) == IF listening[r.port] # NoAddress
               THEN [tally EXCEPT !.inbound = @ \cup {r}]
               ELSE [tally EXCEPT !.outbound = @ \cup {r}]

NetStatWalker(r) ==
  IF r.proto = "udp" THEN UNCHANGED <<listening, heard, tally>>
  ELSE IF r.state = "listen"
  THEN /\ listening' = ListenAddressAdd(r)
       /\ heard' = [heard EXCEPT ![r.port] = @ \cup {r.family}]
       /\ UNCHANGED tally
  ELSE /\ tally' = Directed(r)
       /\ UNCHANGED <<listening, heard>>

NetStatPortWalker(r) ==
  IF r.proto = "udp" THEN tally
  ELSE IF r.port = walk.port THEN [tally EXCEPT !.inbound = @ \cup {r}]
  ELSE IF r.peer = walk.port THEN [tally EXCEPT !.outbound = @ \cup {r}]
  ELSE tally

TcpCurrEstabCount(r) ==
  IF r.state \in {"established", "close_wait"}
  THEN [tally EXCEPT !.estab = @ \cup {r}] ELSE tally

ConnectionListWalker(r) == [tally EXCEPT !.listed = @ \cup {r}]

\* The row of a port ends the walk of its file, not that of the next one.
LinuxWalker(r) ==
  IF walk.op = "list" THEN ConnectionListWalker(r)
  ELSE IF r.port = walk.port /\ r.peer = 0 THEN [tally EXCEPT !.found = {r}]
  ELSE tally

Deliver(r) ==
  /\ ~Idle
  /\ r \in walk.rows
  /\ walk' = [walk EXCEPT !.rows = IF walk.op = "owner" /\ LinuxWalker(r) # tally
                                   THEN {} ELSE @ \ {r}]
  /\ CASE walk.op \in {"stat", "address"} -> NetStatWalker(r)
       [] walk.op = "port" -> tally' = NetStatPortWalker(r)
       [] walk.op = "estab" -> tally' = TcpCurrEstabCount(r)
       [] walk.op \in {"list", "owner"} -> tally' = LinuxWalker(r)
  /\ walk.op \notin {"stat", "address"} => UNCHANGED <<listening, heard>>
  /\ UNCHANGED <<platform, sockets, mib2, netReply>>

(***************************************************************************)
(* sigar_proc_port_get of the other platforms: a process with a socket on  *)
(* the port. AIX takes any socket of the protocol, the others a listener;  *)
(* FreeBSD (darwin) and Windows would stop at the first, Mac OS X goes on. *)
(***************************************************************************)
AixProcPort(port, proto) == {r \in sockets : r.proto = proto /\ r.port = port}
Win32ProcPort(port, proto) ==
  {r \in AixProcPort(port, proto) : proto = "tcp" => r.state = "listen"}
DarwinProcPort(port, proto) ==
  {r \in AixProcPort(port, "tcp") : r.state = "listen"}
SolarisFindPort(port, proto) == DarwinProcPort(port, proto)

ProcPortGet(port, proto) ==
  LET owners == CASE platform = "aix" -> AixProcPort(port, proto)
                  [] platform = "win32" -> Win32ProcPort(port, proto)
                  [] platform = "darwin" -> DarwinProcPort(port, proto)
                  [] platform = "solaris" -> SolarisFindPort(port, proto)
                  [] OTHER -> {}
  IN /\ Idle
     /\ platform # "linux"
     /\ tally' = EmptyTally
     /\ netReply' \in {[op |-> "owner", ok |-> TRUE, pid |-> r.owner] : r \in owners}
                     \cup {[op |-> "owner", ok |-> FALSE]}
     /\ UNCHANGED <<platform, sockets, mib2, listening, heard, walk>>

(***************************************************************************)
(* Two calls that read the Solaris stream for other data. sigar_tcp_get    *)
(* stops at its message and leaves the rest of the stream to whoever comes *)
(* next; the routes are read to the end, which may have no routes left.    *)
(***************************************************************************)
Without(message) == SelectInSeq(Opened.left, LAMBDA m : m = message) = 0

SolarisTcpGet ==
  /\ Idle /\ platform = "solaris"
  /\ \/ /\ ~Without("tcp")
        /\ mib2' = [Opened EXCEPT !.left =
                      SubSeq(@, SelectInSeq(@, LAMBDA m : m = "tcp") + 1, Len(@))]
        /\ netReply' = [op |-> "tcp", ok |-> TRUE]
     \/ /\ Without("tcp")
        /\ mib2' = Closed
        /\ netReply' = [op |-> "tcp", ok |-> FALSE]
     \/ /\ mib2' = Opened
        /\ netReply' = [op |-> "tcp", ok |-> FALSE]
  /\ tally' = EmptyTally
  /\ UNCHANGED <<platform, sockets, listening, heard, walk>>

SolarisRouteListGet ==
  /\ Idle /\ platform = "solaris"
  /\ \E ok \in BOOLEAN : netReply' = [op |-> "routes", ok |-> ok,
                                      complete |-> ok /\ ~Without("routes")]
  /\ mib2' = Closed
  /\ tally' = EmptyTally
  /\ UNCHANGED <<platform, sockets, listening, heard, walk>>

FlagSets == (SUBSET Both) \ {{}}
ConnectionNext ==
  \/ \E r \in Sockets : Toggle(r) \/ Deliver(r)
  \/ \E flags \in FlagSets :
       \/ /\ platform # "linux"
          /\ ConnectionListGet(flags, {"tcp", "udp"})
       \/ /\ platform = "linux"
          /\ LinuxConnectionListGet(flags, {"tcp", "udp"})
       \/ NetStatGet(flags)
  \/ \E p \in Ports : NetListenAddressGet(p) \/ NetStatPortGet(p)
  \/ \E p \in Ports, proto \in {"tcp", "udp"} :
       LinuxConnectionGet(p, proto) \/ ProcPortGet(p, proto)
  \/ TcpCurrEstab \/ ReadTable \/ SkipTable \/ WalkFails \/ WalkEnds
  \/ SolarisTcpGet \/ SolarisRouteListGet

ConnectionSpec == (platform \in Platforms /\ ConnectionInit) /\ [][ConnectionNext]_connectionVars
-----------------------------------------------------------------------------
\* The cache of listening ports against everything the walks met: a port is
\* in it when a listener of it was met, under an IPv4 address when one of the
\* listeners had one - whatever the order in which the tables showed them.
ListenCacheSound ==
  \A p \in Ports : listening[p] = CASE "v4" \in heard[p] -> "v4"
                                    [] heard[p] = {"v6"} -> "v6"
                                    [] heard[p] = {} -> NoAddress

Addresses == {"v4", "v6", NoAddress}
Tallies == [listed : SUBSET Sockets, inbound : SUBSET Sockets, outbound : SUBSET Sockets,
            estab : SUBSET Sockets, found : SUBSET Sockets]
ConnectionTypeOK ==
  /\ listening \in [Ports -> Addresses]
  /\ heard \in [Ports -> SUBSET {"v4", "v6"}]
  /\ tally \in Tallies
  /\ ~Idle => /\ {"op", "known", "rows"} \subseteq DOMAIN walk
              /\ walk.op \in {"list", "stat", "port", "estab", "owner", "address"}

\* A walk knows no more than was heard: what makes DirectionsKept inductive.
KnownWasHeard == ~Idle => \A p \in Ports : walk.known[p] \subseteq heard[p]

\* A connection counts as outbound only when no walk before this one met a
\* listener of its port, and as inbound only when some walk did: calls of
\* net_stat_get do not change their mind about a port, stale as it may be.
DirectionsKept ==
  ~Idle /\ walk.op = "stat" =>
    /\ \A r \in tally.outbound : walk.known[r.port] = {}
    /\ \A r \in tally.inbound : heard[r.port] # {}

ConnectionIInv == /\ ConnectionTypeOK
                  /\ ListenCacheSound
                  /\ KnownWasHeard
                  /\ DirectionsKept

\* The Solaris stream is half read between two calls only when sigar_tcp_get
\* left it so: then the rows of the next walk are those of that moment, and
\* the next list of routes and the next sigar_tcp_get find nothing.
StreamLeftByTcpOnly ==
  [][Idle' /\ mib2'.open => (Idle /\ mib2' = mib2) \/ netReply'.op = "tcp"]_connectionVars
=============================================================================
