----------------------------- MODULE SigarCalls -----------------------------
(***************************************************************************)
(* The calls Java makes on one Sigar object, as the memory, descriptors    *)
(* and handles of the library see them: each call is one of the sequences  *)
(* of steps of the platform's module, run step by step, and every step     *)
(* that asks the system for something may fail.                            *)
(***************************************************************************)
EXTENDS SigarPlatform, SigarLinuxCalls, SigarAixCalls, SigarHpuxCalls, SigarSolarisCalls,
        SigarDarwinCalls, SigarWin32Calls, FiniteSets

CONSTANTS Chunk,       \* rows a list has room for when it is created, or grows
          MaxTurns     \* turns all the loops of a call take together

ASSUME CallBounds == Chunk \in Nat \ {0} /\ MaxTurns \in Nat

VARIABLES opened,      \* is there a handle Java may use?
          fields,      \* what the fields of the handle point to
          call,        \* the call in progress
          step         \* the step that it is at

callVars == <<opened, fields, call, step>>

Programs ==
  [linux |-> JavaCalls(Linux), aix |-> JavaCalls(Aix), hpux |-> JavaCalls(Hpux),
   solaris |-> JavaCalls(Solaris), darwin |-> JavaCalls(Darwin), win32 |-> JavaCalls(Win32)]
Kept ==
  [linux |-> CommonFields \cup LinuxFields, aix |-> CommonFields \cup AixFields,
   hpux |-> CommonFields \cup HpuxFields, solaris |-> CommonFields \cup SolarisFields,
   darwin |-> CommonFields \cup DarwinFields, win32 |-> CommonFields \cup Win32Fields]

NoCall == [op |-> "", pc |-> 1, status |-> "none", held |-> <<>>, counted |-> 0,
           turns |-> 0, lost |-> {}, bad |-> {}]

\* Behind the last step of a call, and at 0, it returns.
Over == Step("return", "", {}, 1)
StepOf(c) == IF c.pc = 0 \/ c.op = "" THEN Over[1]
                                     ELSE (Programs[platform][c.op] \o Over)[c.pc]

Busy == call.op # ""
Ended == Busy /\ step = Over[1]
Doing(what) == Busy /\ step.do = what

CallsInit ==
  /\ platform \in Platforms
  /\ opened = FALSE
  /\ fields = [f \in Kept[platform] |-> "null"]
  /\ call = NoCall
  /\ step = Over[1]

(***************************************************************************)
(* A handle that did not open leaves a Sigar object whose methods throw    *)
(* before they reach the library: the next call is on a new one.           *)
(***************************************************************************)
Begin ==
  /\ ~Busy
  /\ \E op \in DOMAIN Programs[platform] :
       /\ opened = (op # "open")
       /\ call' = [NoCall EXCEPT !.op = op, !.status = "ok"]
  /\ UNCHANGED <<opened, fields>>

Return ==
  /\ Ended
  /\ opened' = (call.op # "nativeClose" /\ (opened \/ call.status = "ok"))
  /\ fields' = IF opened' THEN fields ELSE [f \in DOMAIN fields |-> "null"]
  /\ call' = NoCall

(***************************************************************************)
(* What a step does to the resources of the call                           *)
(***************************************************************************)
With(held, r, n) == [x \in DOMAIN held \cup {r} |-> IF x = r THEN n ELSE held[x]]
Without(held, R) == [r \in DOMAIN held \ R |-> held[r]]

On(c) == [c EXCEPT !.pc = @ + 1]
JumpTo(c) == [c EXCEPT !.pc = @ + step.next]
Got(c, r, n) == [c EXCEPT !.held = With(@, r, n),
                          !.lost = @ \cup ({r} \cap DOMAIN c.held)]
Freed(c, R) == [c EXCEPT !.held = Without(@, R), !.bad = @ \cup (R \ DOMAIN c.held)]
Failed(c) ==
  LET after == Freed(c, step.undo)
  IN  IF step.fail = 0 THEN [after EXCEPT !.pc = 0, !.status = "error"]
                       ELSE [after EXCEPT !.pc = @ + step.fail]

Acquire ==
  \/ Doing("take") /\ call' = On(Got(call, step.res, 0))
  \/ Doing("open") /\ call' \in {On(Got(call, step.res, 0)), Failed(call)}

Release ==
  \/ Doing("free") /\ call' = On(Freed(call, {step.res}))
  \/ Doing("free_if") /\ call' = On(Freed(call, {step.res} \cap DOMAIN call.held))

UseResource ==
  /\ Doing("use")
  /\ call' = On([call EXCEPT !.bad = @ \cup ({step.res} \ DOMAIN call.held)])

AskSystem ==
  \/ Doing("ask") /\ call' \in {On(call), Failed(call)}
  \/ Doing("refuse") /\ call' = Failed(call)

CallJava ==
  /\ Doing("throws")
  /\ call' \in {On(call), [call EXCEPT !.pc = 0, !.status = "thrown"]}

StepInCall ==
  (Acquire \/ Release \/ UseResource \/ AskSystem \/ CallJava) /\ UNCHANGED <<opened, fields>>

(***************************************************************************)
(* The fields of the handle                                                *)
(***************************************************************************)
Alive(f) == fields[f] \in {"live", "filled"}
FieldNow(v, c) == fields' = [fields EXCEPT ![step.res] = v] /\ call' = c
Unless(spoilt) == IF spoilt THEN [On(call) EXCEPT !.bad = @ \cup {step.res}] ELSE On(call)
Losing == [On(call) EXCEPT !.lost = @ \cup (IF Alive(step.res) THEN {step.res} ELSE {})]

OnField ==
  /\ \/ /\ Doing("new_handle")
        /\ fields' = [f \in DOMAIN fields |->
                        CASE f = "jsigar" -> fields[f] [] f = "handle" -> "live"
                          [] OTHER -> "garbage"]
        /\ call' = On(call)
     \/ Doing("keep") /\ FieldNow("live", Losing)
     \/ Doing("clear") /\ FieldNow("null", Losing)
     \/ Doing("dispose") /\ FieldNow("dangling", Unless(~Alive(step.res)))
     \/ Doing("use_kept") /\ FieldNow(fields[step.res], Unless(~Alive(step.res)))
     \/ Doing("overwrite") /\ FieldNow("live", Unless(~Alive(step.res)))
     \/ Doing("fill") /\ FieldNow("filled", Unless(~Alive(step.res)))
     \/ Doing("use_filled") /\ FieldNow(fields[step.res], Unless(fields[step.res] # "filled"))
     \/ Doing("if_kept") /\ FieldNow(fields[step.res],
          IF fields[step.res] = "null" THEN JumpTo(call) ELSE On(call))
  /\ UNCHANGED opened

(***************************************************************************)
(* The rows of a list: held[l] is how many more of them fit.               *)
(***************************************************************************)
OnList ==
  /\ \/ Doing("new_list") /\ call' = On(Got(call, step.res, Chunk))
     \/ Doing("count") /\ \E n \in 0..MaxTurns : call' = On([call EXCEPT !.counted = n])
     \/ Doing("new_counted") /\ call' = On(Got(call, step.res, call.counted))
     \/ Doing("grow") /\ call' = On([call EXCEPT
          !.held[step.res] = IF @ <= 0 THEN @ + Chunk ELSE @])
     \/ Doing("put") /\ call' = On([call EXCEPT !.held[step.res] = @ - 1])
  /\ UNCHANGED <<opened, fields>>

(***************************************************************************)
(* Branches and loops                                                      *)
(***************************************************************************)
Control ==
  /\ \/ Doing("jump") /\ call' = JumpTo(call)
     \/ Doing("fork") /\ call' \in {On(call), JumpTo(call)}
     \/ /\ Doing("loop")
        /\ call' \in {JumpTo(call)} \cup {On([call EXCEPT !.turns = @ + 1]) :
                                            t \in {call.turns} \cap 0..(MaxTurns - 1)}
     \/ /\ Doing("each")
        /\ call' = IF call.counted = 0 THEN JumpTo(call)
                                       ELSE On([call EXCEPT !.counted = @ - 1])
  /\ UNCHANGED <<opened, fields>>

Moves == step' = StepOf(call') /\ UNCHANGED platform

CallsNext ==
  \/ Begin /\ Moves
  \/ Return /\ Moves
  \/ StepInCall /\ Moves
  \/ OnField /\ Moves
  \/ OnList /\ Moves
  \/ Control /\ Moves

CallsSpec == CallsInit /\ [][CallsNext]_<<platform, callVars>>

(***************************************************************************)
(* Properties                                                              *)
(***************************************************************************)
\* What calls are known to leave behind: the list of processes of a platform
\* that fails to walk them, the socket of a refused SIOCGIFCONF, and seven
\* calls of one platform each.
Leaks ==
  ({<<p, "getProcList", "error", "list">> : p \in Platforms \ {"aix"}})
  \cup ({"linux", "aix", "hpux", "solaris"} \X {"getNetInterfaceList", "getNetInterfaceConfig"}
          \X {"error"} \X {"sock"})
  \cup ({"hpux"} \X {"getFileSystemListNative"} \X {"ok", "thrown"} \X {"fp"})
  \cup ({"hpux"} \X {"getFileSystemUsage"} \X {"ok"} \X {"fslist", "fp"})
  \cup {<<"solaris", "getNetRouteList", "error", "list">>,
        <<"solaris", "getNetInfo", "ok", "list">>,
        <<"win32", "getCpuInfoList", "error", "list">>}
  \cup ({"win32"} \X {"getProcPort"} \X {"ok", "error"} \X {"table"})

\* A call gives back every descriptor, stream, library and buffer it took
\* however it ends, and forgets none it still holds: apart from the leaks
\* above, and from the list a native method was copying when Java threw.
NothingLost ==
  /\ Ended => \A r \in DOMAIN call.held :
       \/ <<platform, call.op, call.status, r>> \in Leaks
       \/ call.status = "thrown" /\ r = "list"
  /\ call.lost = {}

\* What a call may use or free without having it: the interface buffer after a
\* refusal freed it, or, on Mac OS X, after a look for the owner of a port
\* wrote over it; the stream buffer Solaris has when the modules of an opened
\* stream could not be pushed; and on Windows a library that did not load, a
\* list of CPUs that was not made, and an answer of the performance counters
\* after their buffer grew.
StaleBuffers ==
  [linux |-> {"ifconf_buf"}, aix |-> {"ifconf_buf"}, hpux |-> {"ifconf_buf"},
   solaris |-> {"ifconf_buf", "smb"}, darwin |-> {"ifconf_buf"},
   win32 |-> Win32Dlls \cup {"unmade", "old_object"}]

\* Nothing is used before it is there, or used or freed again after it was
\* freed, over any sequence of calls on one handle: apart from those buffers.
NothingStale == call.bad \subseteq StaleBuffers[platform]

\* No row of a list is stored behind its end, however often it grew.
RowsFit == \A r \in DOMAIN call.held : call.held[r] >= 0

\* What an open that fails leaves, which no close will be asked to free.
LeftByOpen ==
  [linux |-> {"jsigar", "handle"}, aix |-> {}, hpux |-> {}, solaris |-> {"jsigar", "handle"},
   darwin |-> {"jsigar"}, win32 |-> {"jsigar", "handle", "advapi"}]

\* Whatever calls went before, closing frees all the handle keeps but the
\* library Mac OS X loaded, and an open that fails leaves no more than above.
HandleClosed ==
  Ended => \A f \in DOMAIN fields : Alive(f) =>
    CASE call.op = "nativeClose" -> platform = "darwin" /\ f = "libproc"
      [] call.op = "open" /\ call.status # "ok" -> f \in LeftByOpen[platform]
      [] OTHER -> TRUE
=============================================================================
