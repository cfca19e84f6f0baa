--------------------------- MODULE ReCoMonBUpdater ---------------------------
(***************************************************************************)
(* ReCoMonBUpdater.java: the object that all threads share to talk to the  *)
(* board.  connect() replaces the field cpuMeter WITHOUT the object's      *)
(* monitor; pushData() is synchronized, and loads the field twice: once to *)
(* write the frame and again to read the board's answer back.  One action  *)
(* per access to shared state; call[t] is where thread t stands in the     *)
(* method it called, or how that method ended.                             *)
(***************************************************************************)
EXTENDS HIDBoard

CONSTANTS Threads, NoThread

ASSUME ThreadAssumption == NoThread \notin Threads

VARIABLES
    cpuMeter,  \* the field: a handle or null
    monitor,   \* the thread that holds the object's monitor
    call,      \* where each thread stands
    held,      \* the handle a thread has in a local or in a native call
    frame      \* each thread's argument of pushData

updaterVars == <<cpuMeter, monitor, call, held, frame>>

Failures == {"threw", "npe", "mismatch"}
Outcomes == {"ok"} \cup Failures
Inside   == {"write", "fetch", "read"}
Calls    == {"none", "open", "assign", "enter"} \cup Inside \cup Outcomes

UpdaterTypeOK ==
    /\ BoardTypeOK
    /\ cpuMeter \in Handles \cup {NoHandle}
    /\ monitor \in Threads \cup {NoThread}
    /\ call \in [Threads -> Calls]
    /\ held \in [Threads -> Handles \cup {NoHandle}]
    /\ frame \in [Threads -> Frames]

UpdaterInit ==
    /\ cpuMeter = NoHandle
    /\ monitor = NoThread
    /\ call = [t \in Threads |-> "none"]
    /\ held = [t \in Threads |-> NoHandle]
    /\ frame \in [Threads -> Frames]

\* The handles the garbage collector finds in use.
Referenced == {cpuMeter} \cup {held[t] : t \in Threads}

GoTo(t, where) == call' = [call EXCEPT ![t] = where]

InCaller(t) == call[t] \in {"none"} \cup Outcomes

-----------------------------------------------------------------------------
(* connect() *)

Connect(t) ==
    /\ InCaller(t)
    /\ GoTo(t, "open")
    /\ UNCHANGED <<cpuMeter, monitor, held>>

OpenById(t) ==
    /\ call[t] = "open"
    /\ \/ \E h \in Handles : /\ OpenReturns(h)
                             /\ held' = [held EXCEPT ![t] = h]
                             /\ GoTo(t, "assign")
       \/ OpenReturnsNull /\ GoTo(t, "assign") /\ UNCHANGED held
       \/ OpenThrowsNotFound /\ GoTo(t, "threw") /\ UNCHANGED held
       \/ OpenThrowsNPE /\ GoTo(t, "npe") /\ UNCHANGED held
    /\ UNCHANGED <<cpuMeter, monitor, frame>>

\* Faulty variant: the check for null reports no error.
AssignUnchecked(t) ==
    /\ call[t] = "assign"
    /\ cpuMeter' = held[t]
    /\ held' = [held EXCEPT ![t] = NoHandle]
    /\ GoTo(t, "ok")
    /\ UNCHANGED <<boardVars, monitor, frame>>

\* Faulty variant: null is returned to the caller, which does not expect it.
AssignReturnsNull(t) ==
    /\ call[t] = "assign"
    /\ cpuMeter' = held[t]
    /\ held' = [held EXCEPT ![t] = NoHandle]
    /\ GoTo(t, IF held[t] = NoHandle THEN "null" ELSE "ok")
    /\ UNCHANGED <<boardVars, monitor, frame>>

Assign(t) ==
    /\ call[t] = "assign"
    /\ cpuMeter' = held[t]
    /\ held' = [held EXCEPT ![t] = NoHandle]
    /\ GoTo(t, IF held[t] = NoHandle THEN "threw" ELSE "ok")
    /\ UNCHANGED <<boardVars, monitor, frame>>

-----------------------------------------------------------------------------
(* pushData(data) *)

Push(t, data) ==
    /\ InCaller(t)
    /\ frame' = [frame EXCEPT ![t] = data]
    /\ GoTo(t, "enter")
    /\ UNCHANGED <<cpuMeter, monitor, held>>

\* Faulty variant: pushData is not synchronized.
EnterAtOnce(t) ==
    /\ call[t] = "enter"
    /\ monitor' = t
    /\ GoTo(t, "write")
    /\ UNCHANGED <<boardVars, cpuMeter, held, frame>>

Enter(t) ==
    /\ call[t] = "enter"
    /\ monitor = NoThread
    /\ monitor' = t
    /\ GoTo(t, "write")
    /\ UNCHANGED <<boardVars, cpuMeter, held, frame>>

\* Faulty variant: the lock is not released when an exception leaves the method.
LeaveHolding(t, outcome) ==
    /\ monitor' = IF outcome = "ok" THEN NoThread ELSE t
    /\ held' = [held EXCEPT ![t] = NoHandle]
    /\ GoTo(t, outcome)

\* The synchronized method ends, normally or by an exception.
Leave(t, outcome) ==
    /\ monitor' = NoThread
    /\ held' = [held EXCEPT ![t] = NoHandle]
    /\ GoTo(t, outcome)

\* Faulty variant: the frame is written and its answer never read.
WriteOnly(t) ==
    /\ call[t] = "write"
    /\ \/ cpuMeter = NoHandle /\ Leave(t, "npe") /\ UNCHANGED boardVars
       \/ /\ cpuMeter # NoHandle
          /\ \/ WriteReturns(cpuMeter, frame[t]) /\ Leave(t, "ok")
             \/ WriteThrows(cpuMeter, frame[t]) /\ Leave(t, "threw")
    /\ UNCHANGED <<cpuMeter, frame>>

Write(t) ==
    /\ call[t] = "write"
    /\ \/ cpuMeter = NoHandle /\ Leave(t, "npe") /\ UNCHANGED boardVars
       \/ /\ cpuMeter # NoHandle
          /\ \/ /\ WriteReturns(cpuMeter, frame[t])
                /\ GoTo(t, "fetch")
                /\ UNCHANGED <<monitor, held>>
             \/ WriteThrows(cpuMeter, frame[t]) /\ Leave(t, "threw")
    /\ UNCHANGED <<cpuMeter, frame>>

\* The second load of the field: the read blocks on what it finds now.
Fetch(t) ==
    /\ call[t] = "fetch"
    /\ \/ cpuMeter = NoHandle /\ Leave(t, "npe")
       \/ /\ cpuMeter # NoHandle
          /\ held' = [held EXCEPT ![t] = cpuMeter]
          /\ GoTo(t, "read")
          /\ UNCHANGED monitor
    /\ UNCHANGED <<boardVars, cpuMeter, frame>>

Read(t) ==
    /\ call[t] = "read"
    /\ \/ \E k \in Keys :
             /\ ReadReturns(held[t], k)
             /\ Leave(t, IF k = EchoOf[frame[t]] THEN "ok" ELSE "mismatch")
       \/ ReadThrows(held[t]) /\ Leave(t, "threw")
    /\ UNCHANGED <<cpuMeter, frame>>

UpdaterStep(t) ==
    \/ OpenById(t) \/ Assign(t)
    \/ Enter(t) \/ Write(t) \/ Fetch(t) \/ Read(t)

-----------------------------------------------------------------------------
(* The object by itself, called by any threads in any order. *)

Environment ==
    /\ Plug \/ Unplug \/ Answer(Referenced) \/ Finalize(Referenced)
    /\ UNCHANGED updaterVars

UpdaterNext ==
    \/ Environment
    \/ \E t \in Threads :
          \/ UpdaterStep(t)
          \/ Connect(t) /\ UNCHANGED <<boardVars, frame>>
          \/ \E f \in Frames : Push(t, f) /\ UNCHANGED boardVars

ObjectInit == BoardInit /\ UpdaterInit

UpdaterSpec == ObjectInit /\ [][UpdaterNext]_<<boardVars, updaterVars>>

-----------------------------------------------------------------------------

\* pushData is a critical section even though it ends in many ways (null field,
\* failed write, failed read, mismatch) and connect() runs beside it: whoever is
\* inside holds the monitor, so two transfers never interleave on the board.
MonitorExclusion == \A t \in Threads : call[t] \in Inside <=> monitor = t
=============================================================================
