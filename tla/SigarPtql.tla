----------------------------- MODULE SigarPtql -----------------------------
(***************************************************************************)
(* sigar_ptql.c: the process table queries of the Sigar library. A query   *)
(* is a list of conditions Class.Attribute.op=value; it is parsed into     *)
(* branches, ordered so that the cheap ones come first, and matched        *)
(* against one process after the other, one branch at a time, while        *)
(* processes go away and leave their children to another parent. No        *)
(* process comes, and no pid is used again, during one search.             *)
(* A string is a sequence of letters, a letter a number: the upper case of *)
(* letter c is c + 10.                                                     *)
(***************************************************************************)
EXTENDS Integers, Sequences, SequencesExt, SigarPlatform

CONSTANTS QueryPids,      \* the processes, numbers
          Self,           \* the one that runs the query
          ProcessData,    \* what there is to know of each; a port may be shared
          Reapers,        \* the processes that adopt the children of others
          PidFiles,       \* the pid written in each file
          Missing,        \* classes whose get is SIGAR_ENOTIMPL here
          RegexImpl,      \* was sigar_ptql_re_impl_set called
          Conditions,     \* the conditions queries are made of
          MaxBranches,
          Ui32Size,       \* 2^32 and 2^64, or less
          Ui64Size

\* A text in lower case
Fold(s) == [i \in DOMAIN s |-> s[i] % 10]

ASSUME PtqlAssumption ==
  /\ {Ui32Size, Ui64Size} \subseteq Nat \ {0}
  /\ IsFiniteSet(QueryPids) /\ QueryPids \subseteq 0..Ui32Size-1
  /\ \A c \in Conditions :
       DOMAIN c = {"whole", "name", "attr", "mods", "op", "value"}
  /\ \A p \in QueryPids : /\ ProcessData[p].args \in Seq(Seq(Int))
                           /\ IsFiniteSet(ProcessData[p].services)
  /\ \A p, q \in QueryPids :          \* a service has one name and one process
       \A s \in ProcessData[p].services, t \in ProcessData[q].services :
         Fold(s) = Fold(t) => p = q

VARIABLES text,      \* the conditions given to sigar_ptql_query_create
          query,     \* query->branches
          stage,     \* "building", "ready", "finding", "malformed", "done"
          living,    \* the processes that are there
          parent,    \* the parent of each
          parents,   \* all parents each has had during this search
          todo,      \* the pids still to match
          match,     \* how far the match of the first of them is
          found,     \* the pids that matched
          verdict    \* what the last find returned
parsing == <<text, query>>
world == <<living, parent, parents>>
search == <<todo, match, found, verdict>>
ptqlVars == <<platform, parsing, stage, world, search>>

\* sigar_ptql_query_match: the branch it is at, the parent read for it, if it is
\* one about the parent and that was read, and the data branches read before.
FirstBranch == [at |-> 1, target |-> {}, data |-> <<>>]

PtqlInit == /\ text = <<>>
            /\ query = <<>>
            /\ stage = "building"
            /\ living = QueryPids
            /\ parent = [p \in QueryPids |-> ProcessData[p].ppid]
            /\ parents = [p \in QueryPids |-> {parent[p]}]
            /\ todo = <<>>
            /\ match = FirstBranch
            /\ found = <<>>
            /\ verdict = "none"

(***************************************************************************)
(* The operators                                                           *)
(***************************************************************************)
NumberOps == {"eq", "ne", "gt", "ge", "lt", "le"}
OpCodes == NumberOps \cup {"ew", "sw", "re", "ct"}

NumberOp(op, haystack, needle) == CASE op = "eq" -> haystack = needle
                                    [] op = "ne" -> haystack # needle
                                    [] op = "gt" -> haystack > needle
                                    [] op = "ge" -> haystack >= needle
                                    [] op = "lt" -> haystack < needle
                                    [] op = "le" -> haystack <= needle

\* A number is read as an unsigned one, whatever it was in the process's data
\* (Nice, Priority, Tty and Processor are signed) or in the query.
Ui64Op(op, haystack, needle) == NumberOp(op, haystack % Ui64Size, needle % Ui64Size)
Ui32Op(op, haystack, needle) == NumberOp(op, haystack % Ui32Size, needle % Ui32Size)
DblOp(op, haystack, needle) == NumberOp(op, haystack, needle)
ChrOp(op, haystack, needle) == NumberOp(op, haystack, needle)

Before(s, t) == \/ IsStrictPrefix(s, t)
                \/ \E i \in DOMAIN s \cap DOMAIN t :
                     SubSeq(s, 1, i-1) = SubSeq(t, 1, i-1) /\ s[i] < t[i]
HasText(s, t) == \E i \in 0..Len(s) : IsPrefix(t, SubSeq(s, i + 1, Len(s)))

StrOp(op, h, n) == CASE op = "eq" -> h = n
                     [] op = "ne" -> h # n
                     [] op = "gt" -> Before(n, h)
                     [] op = "ge" -> ~Before(h, n)
                     [] op = "lt" -> Before(h, n)
                     [] op = "le" -> ~Before(n, h)
                     [] op = "ew" -> IsSuffix(n, h)
                     [] op = "sw" -> IsPrefix(n, h)
                     [] op = "ct" -> HasText(h, n)
                     [] op = "re" -> RegexImpl /\ HasText(h, n)

\* A value of NULL, from a variable that is not in the environment, matches
\* nothing; the regular expressions are the caller's, case and all.
NoText == <<-1>>
StrMatch(b, h, n) ==
  /\ n # NoText
  /\ IF "I" \in b.mods /\ b.op # "re" THEN StrOp(b.op, Fold(h), Fold(n))
                                     ELSE StrOp(b.op, h, n)

(***************************************************************************)
(* The classes and the types of their attributes, in the order qsort uses. *)
(***************************************************************************)
Times == {"StartTime", "User", "Sys", "Total"}
Ui64Members == [Time |-> Times, Cpu |-> Times, Fd |-> {"Total"}, State |-> {"Threads"},
                Mem |-> {"Size", "Resident", "Share", "MinorFaults",
                         "MajorFaults", "PageFaults"}]
Ui32Members == [Cred |-> {"Uid", "Gid", "Euid", "Egid"},
                State |-> {"Ppid", "Tty", "Nice", "Priority", "Processor"}]
DblMembers == [Cpu |-> {"Percent"}]
ChrMembers == [State |-> {"State"}]
StrMembers == [CredName |-> {"User", "Group"}, Exe |-> {"Name", "Cwd"},
               State |-> {"Name"}]
AnyClasses == {"Args", "Modules", "Env", "Port", "Pid", "Service"}

HasMember(members, name, attr) == name \in DOMAIN members /\ attr \in members[name]
LookupType(name, attr) == CASE HasMember(Ui64Members, name, attr) -> 0
                            [] HasMember(Ui32Members, name, attr) -> 1
                            [] HasMember(DblMembers, name, attr) -> 2
                            [] HasMember(ChrMembers, name, attr) -> 3
                            [] HasMember(StrMembers, name, attr) -> 4
                            [] name \in AnyClasses -> 5
                            [] OTHER -> 6      \* no such class or attribute

(***************************************************************************)
(* Parsing. A condition has its = and its two dots or not ("whole"),       *)
(* modifiers, and a value: a number, a text, $$, $n or $NAME. Pid.Service  *)
(* is the old name of Service.Name.                                        *)
(***************************************************************************)
BranchParse(c) == c.whole /\ c.mods \subseteq {"P", "I"}

Renamed(c) == IF c.attr = "Service" THEN [c EXCEPT !.name = "Service", !.attr = "Name"]
                                    ELSE c

Indices == [x \in {"0", "1", "-1"} |-> CASE x = "0" -> 0 [] x = "1" -> 1 [] OTHER -> -1]
IsNumber(v) == v.kind = "number"

ArgsBranchInit(c) == c.attr = "*" \/ c.attr \in DOMAIN Indices
BranchInitPort(c) == c.op = "eq" /\ c.attr \in {"tcp", "udp"} /\ IsNumber(c.value)
BranchInitPid(c) == \/ c.attr = "Pid" /\ (IsNumber(c.value) \/ c.value.kind = "self")
                    \/ c.attr \in {"PidFile", "SudoPidFile"}
BranchInitService(c) == c.attr \in {"Name", "DisplayName", "Path", "Exe"}

\* Which port table is asked: both names give the same one.
PortFlag(attr) == "tcp"

Inits(c) == CASE c.name \in {"Args", "Modules"} -> ArgsBranchInit(c)
              [] c.name = "Port" -> BranchInitPort(c)
              [] c.name = "Pid" -> BranchInitPid(c)
              [] c.name = "Service" -> BranchInitService(c)
              [] OTHER -> TRUE

BranchAdd(c, n) ==
  LET type == LookupType(c.name, c.attr)
  IN /\ c.op \in OpCodes
     /\ type < 6
     /\ Inits(c)
     /\ type < 4 => c.op \in NumberOps
     /\ c.value.kind = "ref" => c.op # "re" /\ c.value.ref \in 1..n-1
     /\ c.value.kind \in {"env", "self"} => c.op # "re"
     /\ c.value.kind \notin {"ref", "env", "self"} =>
          /\ type < 3 => IsNumber(c.value)
          /\ type = 3 => Len(c.value.text) = 1

Branch(c) == [type |-> LookupType(c.name, c.attr), name |-> c.name, attr |-> c.attr,
              op |-> c.op, mods |-> c.mods, value |-> c.value]

\* Not modelled: what is read from memory that holds something else. That is
\* so for a reference to a branch of another type, or of a class without a
\* type; for a variable where the code reads a number or a literal text; and for
\* a pid or a file compared as if it were a text.
Comparable(c) ==
  LET type == LookupType(c.name, c.attr)
      IsLiteral == c.name = "Service" \/ c.attr \in {"PidFile", "SudoPidFile"}
  IN /\ c.value.kind = "ref" => /\ type < 5
                                /\ c.value.ref \in DOMAIN query
                                     => query[c.value.ref].type = type
     /\ c.value.kind \in {"env", "self"} => type >= 4 /\ ~IsLiteral
     /\ c.name = "Pid" => c.op \in NumberOps

AddBranch(c) ==
  /\ stage = "building"
  /\ Len(text) < MaxBranches
  /\ Comparable(Renamed(c))
  /\ text' = Append(text, c)
  /\ IF BranchParse(c) /\ BranchAdd(Renamed(c), Len(query) + 1)
     THEN query' = Append(query, Branch(Renamed(c))) /\ UNCHANGED stage
     ELSE query' = <<>> /\ stage' = "malformed"
  /\ UNCHANGED <<platform, world, search>>

\* The cheap types first, in any order where they are equal, unless a branch
\* names another one by its number.
HasRef == \E i \in DOMAIN query : query[i].value.kind = "ref"
Permuted(s) == {[i \in DOMAIN s |-> s[f[i]]] : f \in Bijection(DOMAIN s, DOMAIN s)}
ByType(s) == \A i, j \in DOMAIN s : i < j => s[i].type <= s[j].type
\* Faulty variant: the branches are sorted whatever they refer to.
OrderedAlways == {s \in Permuted(query) : ByType(s)}

Ordered == IF HasRef THEN {query} ELSE {s \in Permuted(query) : ByType(s)}

QueryCreate ==
  /\ stage = "building"
  /\ query # <<>>
  /\ query' \in Ordered
  /\ stage' = "ready"
  /\ UNCHANGED <<platform, text, world, search>>

\* sigar_ptql_query_destroy, and the next query
QueryDestroy ==
  /\ stage \in {"malformed", "done"}
  /\ text' = <<>> /\ query' = <<>> /\ stage' = "building"
  /\ living' = QueryPids
  /\ parent' = [p \in QueryPids |-> ProcessData[p].ppid]
  /\ parents' = [p \in QueryPids |-> {parent'[p]}]
  /\ todo' = <<>> /\ match' = FirstBranch /\ found' = <<>> /\ verdict' = "none"
  /\ UNCHANGED platform

(***************************************************************************)
(* Matching one process                                                    *)
(***************************************************************************)
IsPpid(b) == b.name = "State" /\ b.attr = "Ppid"
Datum(p, b) == IF IsPpid(b) THEN parent[p] ELSE ProcessData[p].members[<<b.name, b.attr>>]

BranchMatch(b, h) ==
  CASE b.type = 0 -> Ui64Op(b.op, h, b.value.number)
    [] b.type = 1 -> Ui32Op(b.op, h, b.value.number)
    [] b.type = 2 -> DblOp(b.op, h, b.value.number)
    [] b.type = 3 -> ChrOp(b.op, h, b.value.text[1])
    [] b.type = 4 -> StrMatch(b, h, b.value.text)

\* The data of both branches, see Comparable.
BranchMatchRef(b, h, ref) ==
  CASE b.type = 0 -> Ui64Op(b.op, h, ref)
    [] b.type = 1 -> Ui32Op(b.op, h, ref)
    [] b.type = 2 -> DblOp(b.op, h, ref)
    [] b.type = 3 -> ChrOp(b.op, h, ref)
    [] b.type = 4 -> StrMatch(b, h, ref)

ArgsMatch(p, b) ==
  LET args == ProcessData[p].args
      num == Indices[b.attr]
      at == IF num < 0 THEN num + Len(args) ELSE num
  IN IF b.attr = "*" THEN \E i \in DOMAIN args : StrMatch(b, args[i], b.value.text)
     ELSE at \in 0..Len(args)-1 /\ StrMatch(b, args[at + 1], b.value.text)

\* The index of a module is unsigned: a negative one is beyond them all.
ModulesMatch(p, b) ==
  LET modules == ProcessData[p].modules
  IN \E i \in DOMAIN modules : /\ b.attr = "*" \/ Indices[b.attr] = i - 1
                               /\ StrMatch(b, modules[i], b.value.text)

EnvMatch(p, b) == /\ b.attr \in DOMAIN ProcessData[p].env
                  /\ StrMatch(b, ProcessData[p].env[b.attr], b.value.text)

\* Said of a process the list was already filtered by.
PidMatch(p, b) == TRUE

AnyMatch(p, b) == CASE b.name = "Args" -> p \in living /\ ArgsMatch(p, b)
                    [] b.name = "Modules" -> p \in living /\ ModulesMatch(p, b)
                    [] b.name = "Env" -> p \in living /\ EnvMatch(p, b)
                    [] OTHER -> PidMatch(p, b)

\* The data the branches up to this one have, once q was read.
DataRead(q, b) == [i \in 1..match.at |->
                     CASE i < match.at -> match.data[i]
                       [] i = match.at /\ b.type < 5 /\ q \in living -> Datum(q, b)
                       [] OTHER -> 0]

\* A branch, of the process q it is about.
Status(q, b) ==
  LET data == DataRead(q, b)
      matched == IF b.value.kind = "ref"
                 THEN BranchMatchRef(b, data[match.at], data[b.value.ref])
                 ELSE BranchMatch(b, data[match.at])
  IN IF b.type = 5 THEN IF AnyMatch(q, b) THEN "yes" ELSE "no"
     ELSE IF b.name \in Missing THEN "ENOTIMPL"
     ELSE IF q \in living /\ matched THEN "yes" ELSE "no"

\* Faulty variant: a branch that does not match does not end the match.
MismatchLast(status) == status = "no" /\ match.at = Len(query)

Mismatch(status) == status = "no"

(***************************************************************************)
(* The list of processes: all of them, or those the Pid, Port and Service  *)
(* branches name, each branch adding its own. The order of the processes   *)
(* is the system's.                                                        *)
(***************************************************************************)
PidFlag(b) == b.name \in {"Pid", "Port", "Service"}

\* What sigar_proc_port_get may answer: one of those that own the port, or none
\* (on linux the pid 0, which no process has): when there is none, when the owners
\* cannot be read, or where it is not implemented (hpux, some solaris and darwin).
PidPortGet(b) ==
  LET Owns(p) == b.value.number \in (IF PortFlag(b.attr) = "tcp" THEN ProcessData[p].tcp
                                                                 ELSE ProcessData[p].udp)
  IN  {{}} \cup {{p} : p \in {q \in living : Owns(q)}}


FileRead(b) == /\ b.value.text \in DOMAIN PidFiles
               /\ ~(platform = "win32" /\ b.attr = "SudoPidFile")

Walks(b) == b.name = "Service" /\ (b.attr # "Name" \/ b.op # "eq")

\* Windows looks up the name of one service without regard to case.
RunsService(p, b) ==
  \E name \in ProcessData[p].services :
    IF Walks(b) THEN StrMatch(b, name, b.value.text) ELSE Fold(name) = Fold(b.value.text)

\* The answers there may be, each of one pid at most.
PidGet(b) ==
  CASE b.name = "Port" -> PidPortGet(b)
    [] b.name = "Service" ->
         LET runners == {p \in living : platform = "win32" /\ RunsService(p, b)}
         IN  IF runners = {} THEN {{}} ELSE {{p} : p \in runners}
    [] b.name = "Pid" /\ b.attr \in {"PidFile", "SudoPidFile"} ->
         {IF FileRead(b) THEN {PidFiles[b.value.text]} ELSE {}}
    [] OTHER -> {{IF b.value.kind = "self" THEN Self ELSE b.value.number}}

\* A process is listed once for each of its services that match.
ServicesWalk(b) ==
  LET services == UNION {ProcessData[p].services : p \in QueryPids}
      rows == SetToSeq({row \in living \X services : /\ row[2] \in ProcessData[row[1]].services
                                                    /\ StrMatch(b, row[2], b.value.text)})
  IN [i \in DOMAIN rows |-> rows[i][1]]

\* A build may compare pids as 64 bits: none is that large.
PidListGet(b, answer) ==
  IF Walks(b) THEN IF platform = "win32" THEN ServicesWalk(b) ELSE <<>>
              ELSE SetToSeq({p \in living : \E match_pid \in answer : Ui32Op(b.op, p, match_pid)})

Filtering == {i \in DOMAIN query : PidFlag(query[i])}
ProcListGet(answers) ==
  IF Filtering # {}
  THEN FlattenSeq([i \in DOMAIN query |->
                     IF i \in Filtering THEN PidListGet(query[i], answers[i]) ELSE <<>>])
  ELSE SetToSeq(living)

AllAnswers == {answers \in [Filtering -> UNION {PidGet(query[i]) : i \in Filtering}] :
                 \A i \in Filtering : answers[i] \in PidGet(query[i])}

QueryFind ==
  /\ stage = "ready"
  /\ \E answers \in AllAnswers : todo' = ProcListGet(answers)
  /\ match' = FirstBranch
  /\ found' = <<>>
  /\ stage' = "finding"
  /\ UNCHANGED <<platform, parsing, world, verdict>>

\* The children of a process that goes away are adopted; on Windows they keep the
\* pid of the parent they had.
Adopters(p) ==
  LET able == {q \in (Reapers \cap living) \ {p} : parent[q] # p}
  IN  IF able = {} THEN {0} ELSE able

Exits(p) ==
  /\ stage = "finding"
  /\ p \in living
  /\ living' = living \ {p}
  /\ IF platform = "win32" THEN UNCHANGED parent
     ELSE \E heir \in Adopters(p) :
            parent' = [q \in QueryPids |-> IF parent[q] = p THEN heir ELSE parent[q]]
  /\ parents' = [q \in QueryPids |-> parents[q] \cup {parent'[q]}]
  /\ UNCHANGED <<platform, parsing, stage, search>>

MatchEnds(matching) ==
  /\ todo' = Tail(todo)
  /\ match' = FirstBranch
  /\ found' = IF matching THEN Append(found, Head(todo)) ELSE found

\* sigar_proc_state_get, before a branch about the parent
ReadParent ==
  /\ stage = "finding"
  /\ todo # <<>>
  /\ "P" \in query[match.at].mods /\ match.target = {}
  /\ IF Head(todo) \in living
     THEN match' = [match EXCEPT !.target = {parent[Head(todo)]}] /\ UNCHANGED <<todo, found>>
     ELSE MatchEnds(FALSE)
  /\ UNCHANGED <<platform, parsing, stage, world, verdict>>

\* A get that is not implemented ends the search; other failures are misses.
MatchBranch ==
  /\ stage = "finding"
  /\ todo # <<>>
  /\ LET b == query[match.at]
     IN  \E q \in IF "P" \in b.mods THEN match.target ELSE {Head(todo)} :
           IF Status(q, b) = "ENOTIMPL"
           THEN /\ stage' = "done" /\ verdict' = "ENOTIMPL"
                /\ todo' = <<>> /\ found' = <<>> /\ match' = FirstBranch
           ELSE /\ UNCHANGED <<stage, verdict>>
                /\ IF Mismatch(Status(q, b)) THEN MatchEnds(FALSE)
                   ELSE IF match.at = Len(query) THEN MatchEnds(TRUE)
                   ELSE /\ match' = [at |-> match.at + 1, target |-> {},
                                     data |-> DataRead(q, b)]
                        /\ UNCHANGED <<todo, found>>
  /\ UNCHANGED <<platform, parsing, world>>

\* sigar_ptql_query_find returns the list, query_find_process its only one.
FindEnds ==
  /\ stage = "finding"
  /\ todo = <<>>
  /\ stage' = "done"
  /\ \E one \in BOOLEAN :
       verdict' = IF one /\ Len(found) # 1 THEN "notOne" ELSE "ok"
  /\ UNCHANGED <<platform, parsing, world, todo, match, found>>

PtqlNext == \/ \E c \in Conditions : AddBranch(c)
            \/ QueryCreate \/ QueryDestroy \/ QueryFind
            \/ ReadParent \/ MatchBranch \/ FindEnds
            \/ \E p \in QueryPids : Exits(p)

PtqlSpec == (platform \in Platforms /\ PtqlInit) /\ [][PtqlNext]_ptqlVars
-----------------------------------------------------------------------------
\* What a condition says of a process p, read off its text: of p itself, or of
\* a parent it had during the search, which has to be a process too. What it
\* compares, and with what:
Whom(p, c) == IF "P" \in c.mods THEN parents[p] ELSE {p}
Held(p, c) == IF c.name = "Pid" THEN {p}
              ELSE UNION {IF IsPpid(c) THEN parents[q]
                                       ELSE {ProcessData[q].members[<<c.name, c.attr>>]} :
                            q \in Whom(p, c) \cap QueryPids}
Given(c) == CASE c.name = "Pid" /\ c.attr = "Pid" ->
                   {IF c.value.kind = "self" THEN Self ELSE c.value.number}
              [] c.name = "Pid" /\ c.attr # "Pid" ->
                   IF FileRead(c) THEN {PidFiles[c.value.text]} ELSE {}
              [] c.name # "Pid" /\ LookupType(c.name, c.attr) < 3 -> {c.value.number}
              [] c.name # "Pid" /\ LookupType(c.name, c.attr) = 3 -> {c.value.text[1]}
              [] OTHER -> {c.value.text}
Needles(p, c) == IF c.value.kind = "ref" THEN Held(p, Renamed(text[c.value.ref])) ELSE Given(c)

Holds(c, h, n) == IF c.name = "Pid" \/ LookupType(c.name, c.attr) < 4
                  THEN NumberOp(c.op, h, n) ELSE StrMatch(c, h, n)

Says(p, condition) ==
  LET c == Renamed(condition)
  IN CASE c.name = "Service" -> platform = "win32" /\ RunsService(p, c)
       [] c.name = "Port" -> c.value.number \in (IF c.attr = "tcp" THEN ProcessData[p].tcp
                                                                   ELSE ProcessData[p].udp)
       [] c.name = "Args" -> \E q \in Whom(p, c) \cap QueryPids :
            IF c.attr = "-1" THEN /\ ProcessData[q].args # <<>>
                                  /\ StrMatch(c, Last(ProcessData[q].args), c.value.text)
                             ELSE ArgsMatch(q, c)
       [] c.name = "Modules" -> \E q \in Whom(p, c) \cap QueryPids : ModulesMatch(q, c)
       [] c.name = "Env" -> \E q \in Whom(p, c) \cap QueryPids : EnvMatch(q, c)
       [] OTHER -> \E h \in Held(p, c), n \in Needles(p, c) : Holds(c, h, n)

Filters == {i \in DOMAIN text : PidFlag(Renamed(text[i]))}
AsksPort == \E i \in DOMAIN text : Renamed(text[i]).name = "Port"
AsksUdp == \E i \in DOMAIN text : text[i].name = "Port" /\ text[i].attr = "udp"
Matching == {p \in QueryPids : \A i \in DOMAIN text : Says(p, text[i])}

OneFilter == \A i, j \in Filters : i = j
WalksServices == \E i \in DOMAIN query : Walks(query[i])

\* Read as unsigned, two numbers are compared as they are unless one is negative
\* and the other is not.
Faithful(x, y, size) == {x, y} \subseteq 0..size-1 \/ {x, y} \subseteq -size..-1
SignsAgree(p) ==
  \A i \in DOMAIN text :
    LET c == Renamed(text[i])
        type == LookupType(c.name, c.attr)
    IN  c.name = "Pid" \/ type < 2 =>
          \A h \in Held(p, c), n \in Needles(p, c) :
            Faithful(h, n, IF type = 0 THEN Ui64Size ELSE Ui32Size)

\* A query means the conjunction of its conditions. While no process goes
\* away, a find returns exactly the processes every condition holds for:
\* neither the sorting of the branches nor the filtering of the process list
\* changes that, unless two conditions filter the list. Not so where a negative
\* number meets one that is not, nor of a port, of whose owners one at most is
\* looked at. Each process comes once, unless its services were walked, of which
\* several may match.
FindMeansAll ==
  stage = "done" /\ verdict # "ENOTIMPL" /\ living = QueryPids /\ OneFilter /\ ~AsksPort
  => /\ \A p \in QueryPids : SignsAgree(p) => (p \in Range(found) <=> p \in Matching)
     /\ WalksServices \/ IsInjective(found)

\* When processes go away during the find and their children change parents
\* between two branches, it never returns one for which a condition held
\* neither of itself nor, if it is about the parent, of a parent it had in the
\* meantime.
FindsNoStranger ==
  stage = "done" /\ ~AsksUdp /\ OneFilter
    => \A p \in Range(found) : SignsAgree(p) => p \in Matching

\* What TestPTQL says of Port.udp: the processes that own a UDP port.
UdpPortFindsUdp ==
  stage = "done" /\ living = QueryPids /\ Len(text) = 1 /\ AsksUdp
    => Range(found) \subseteq Matching
=============================================================================
