-------------------------- MODULE ReCoMonBMainFrame --------------------------
(***************************************************************************)
(* The two threads of ReCoMonBMainFrame.java around one ReCoMonBUpdater.   *)
(* The SwingWorker samples the machine, connects when its local flag says  *)
(* so, pushes the frame, refreshes the window and sleeps, for ever.  The   *)
(* event dispatch thread (EDT) runs the posted events one at a time: the   *)
(* refresh of the CPU bars, and the frames of the two buttons of the tray  *)
(* window, which it pushes itself.                                         *)
(***************************************************************************)
EXTENDS ReCoMonBUpdater

CONSTANTS
    Worker, EDT,
    WorkerFrames, ButtonFrames, \* what getCpuData returns; what buttons push
    MaxClicks, MaxRestarts,     \* bounds: button clicks, relaunches
    PromptBoard  \* TRUE: the board answers within the worker's sleep

ASSUME MainFrameAssumption ==
    /\ Threads = {Worker, EDT}
    /\ Worker # EDT
    /\ WorkerFrames \subseteq Frames
    /\ ButtonFrames \subseteq Frames
    /\ "bars" \notin ButtonFrames
    /\ MaxClicks \in Nat
    /\ MaxRestarts \in Nat
    /\ PromptBoard \in BOOLEAN

VARIABLES
    step,       \* where the worker's loop stands
    connected,  \* the worker's local flag
    edtQ,       \* the events posted to the EDT, oldest first
    clicks, restarts

frameVars == <<step, connected, edtQ, clicks, restarts>>
vars == <<boardVars, updaterVars, frameVars>>

Steps == {"sample", "connecting", "pushing", "ui", "sleep"}

TypeOK ==
    /\ UpdaterTypeOK
    /\ step \in Steps
    /\ connected \in BOOLEAN
    /\ edtQ \in Seq(ButtonFrames \cup {"bars"})
    /\ clicks \in 0..MaxClicks
    /\ restarts \in 0..MaxRestarts

Init ==
    /\ BoardInit
    /\ UpdaterInit
    /\ step = "sample"
    /\ connected = FALSE
    /\ edtQ = <<>>
    /\ clicks = 0
    /\ restarts = 0

-----------------------------------------------------------------------------
(* The worker's loop. *)

\* Faulty variant: the flag is ignored and every round connects again.
GetCpuDataReconnects ==
    /\ step = "sample"
    /\ \E cpuData \in WorkerFrames :
          frame' = [frame EXCEPT ![Worker] = cpuData]
    /\ Connect(Worker)
    /\ step' = "connecting"
    /\ UNCHANGED <<boardVars, connected, edtQ, clicks, restarts>>

\* getCpuData, then the call that `connected' selects.
GetCpuData ==
    /\ step = "sample"
    /\ \E cpuData \in WorkerFrames :
          IF connected
            THEN Push(Worker, cpuData) /\ step' = "pushing"
            ELSE /\ Connect(Worker)
                 /\ frame' = [frame EXCEPT ![Worker] = cpuData]
                 /\ step' = "connecting"
    /\ UNCHANGED <<boardVars, connected, edtQ, clicks, restarts>>

\* A failing sample ends in the outer catch, whose next round starts at once.
GetCpuDataThrows ==
    /\ step = "sample"
    /\ Glitch
    /\ UNCHANGED <<shared, plugged, wire, open, alive, queue,
                   updaterVars, frameVars>>

ConnectReturns ==
    /\ step = "connecting"
    /\ call[Worker] = "ok"
    /\ Push(Worker, frame[Worker])
    /\ step' = "pushing"
    /\ UNCHANGED <<boardVars, connected, edtQ, clicks, restarts>>

\* Faulty variant: the flag is not set after the first push.
PushReturnsUnnoticed ==
    /\ step = "pushing"
    /\ call[Worker] = "ok"
    /\ GoTo(Worker, "none")
    /\ step' = "ui"
    /\ UNCHANGED <<boardVars, cpuMeter, monitor, held, frame,
                   connected, edtQ, clicks, restarts>>

PushReturns ==
    /\ step = "pushing"
    /\ call[Worker] = "ok"
    /\ GoTo(Worker, "none")
    /\ connected' = TRUE
    /\ step' = "ui"
    /\ UNCHANGED <<boardVars, cpuMeter, monitor, held, frame,
                   edtQ, clicks, restarts>>

\* Faulty variant: the handler prints and leaves the flag as it is.
CatchExceptionStaysConnected ==
    /\ step \in {"connecting", "pushing"}
    /\ call[Worker] \in Failures
    /\ GoTo(Worker, "none")
    /\ step' = IF call[Worker] = "npe" THEN "sample" ELSE "ui"
    /\ UNCHANGED <<boardVars, cpuMeter, monitor, held, frame,
                   connected, edtQ, clicks, restarts>>

\* catch (Exception e): a NullPointerException has no message, so the handler
\* itself fails in e.getMessage().equals and the outer catch skips UI and sleep.
CatchException ==
    /\ step \in {"connecting", "pushing"}
    /\ call[Worker] \in Failures
    /\ GoTo(Worker, "none")
    /\ connected' = FALSE
    /\ step' = IF call[Worker] = "npe" THEN "sample" ELSE "ui"
    /\ UNCHANGED <<boardVars, cpuMeter, monitor, held, frame,
                   edtQ, clicks, restarts>>

\* invokeLater.  Two refreshes in a row do what one does: they are kept as one.
PostBars ==
    /\ step = "ui"
    /\ edtQ' = IF edtQ # <<>> /\ edtQ[Len(edtQ)] = "bars"
                 THEN edtQ ELSE Append(edtQ, "bars")
    /\ step' = "sleep"
    /\ UNCHANGED <<boardVars, updaterVars, connected, clicks, restarts>>

Wake ==
    /\ step = "sleep"
    /\ PromptBoard => wire = <<>> \/ alive = {}
    /\ step' = "sample"
    /\ UNCHANGED <<boardVars, updaterVars, connected, edtQ, clicks, restarts>>

WorkerNext ==
    \/ GetCpuData \/ GetCpuDataThrows \/ ConnectReturns
    \/ PushReturns \/ CatchException \/ PostBars \/ Wake
    \/ UpdaterStep(Worker) /\ UNCHANGED frameVars

-----------------------------------------------------------------------------
(* The event dispatch thread. *)

\* actionPerformed of an event button posts a Runnable that pushes its frame.
Click ==
    /\ call[EDT] = "none"
    /\ clicks < MaxClicks
    /\ clicks' = clicks + 1
    /\ \E funData \in ButtonFrames : edtQ' = Append(edtQ, funData)
    /\ UNCHANGED <<boardVars, updaterVars, step, connected, restarts>>

RunBars ==
    /\ call[EDT] = "none"
    /\ edtQ # <<>>
    /\ Head(edtQ) = "bars"
    /\ edtQ' = Tail(edtQ)
    /\ UNCHANGED <<boardVars, updaterVars, step, connected, clicks, restarts>>

RunButton ==
    /\ call[EDT] = "none"
    /\ edtQ # <<>>
    /\ Head(edtQ) # "bars"
    /\ Push(EDT, Head(edtQ))
    /\ edtQ' = Tail(edtQ)
    /\ UNCHANGED <<boardVars, step, connected, clicks, restarts>>

\* The Runnable ends; an exception is printed and forgotten.
ButtonEnds ==
    /\ call[EDT] \in Outcomes
    /\ GoTo(EDT, "none")
    /\ UNCHANGED <<boardVars, cpuMeter, monitor, held, frame, frameVars>>

EDTNext ==
    \/ RunBars \/ RunButton \/ ButtonEnds
    \/ UpdaterStep(EDT) /\ UNCHANGED frameVars

-----------------------------------------------------------------------------

\* The program ends (System.exit from the Exit button, or a kill) and is
\* launched again: every Java object is new, the board is as it was.
Restart ==
    /\ restarts < MaxRestarts
    /\ restarts' = restarts + 1
    /\ CloseAll
    /\ cpuMeter' = NoHandle
    /\ monitor' = NoThread
    /\ call' = [t \in Threads |-> "none"]
    /\ held' = [t \in Threads |-> NoHandle]
    /\ step' = "sample"
    /\ connected' = FALSE
    /\ edtQ' = <<>>
    /\ UNCHANGED <<frame, clicks>>

MainEnvironment == Environment /\ UNCHANGED frameVars

Next == WorkerNext \/ EDTNext \/ Click \/ Restart \/ MainEnvironment

\* The scheduler runs both threads; the board sends what it has; the collector
\* finds every lost handle.  The worker samples and sleeps between two transfers,
\* so an EDT that waits for the monitor gets it in one of the gaps.  Failures,
\* clicks, restarts, plugging and unplugging may happen and need not.
Fairness ==
    /\ WF_vars(WorkerNext /\ UNCHANGED faults)
    /\ WF_vars(EDTNext /\ UNCHANGED faults)
    /\ SF_vars(Enter(EDT) /\ UNCHANGED frameVars)
    /\ WF_vars(Answer(Referenced) /\ UNCHANGED <<updaterVars, frameVars>>)
    /\ WF_vars(Finalize(Referenced) /\ UNCHANGED <<updaterVars, frameVars>>)

Spec == Init /\ [][Next]_vars
LiveSpec == Spec /\ Fairness

-----------------------------------------------------------------------------
(* Safety. *)

\* The worker's flag never lies in the direction that hurts: when it lets the
\* worker push without connecting, the field has a handle that can be used, so
\* the worker's pushData cannot end in the NullPointerException that would send
\* it round the loop without a sleep.
ConnectedHasHandle ==
    /\ connected => cpuMeter # NoHandle
    /\ step = "pushing" => cpuMeter # NoHandle /\ call[Worker] # "npe"

\* Every answer that is read is the one to the reader's own frame, whichever
\* thread pushed before and however often the board was unplugged: the program
\* sees "Mismatch while reading back" only after a failed call on a plugged board
\* or a relaunch.
NoMismatch ==
    faults = 0 /\ restarts = 0 => \A t \in Threads : call[t] # "mismatch"

\* Frames and answers stay in step: as long as no call failed on a plugged
\* board, a live board owes an answer exactly while one thread is between its
\* write and its read, and that answer is the one to this thread's frame.
InStep ==
    faults = 0 /\ restarts = 0 /\ cpuMeter \in alive =>
        queue[cpuMeter] \o wire =
            IF monitor # NoThread /\ call[monitor] \in {"fetch", "read"}
              THEN <<EchoOf[frame[monitor]]>> ELSE <<>>

\* A thread reads the answer from the handle it wrote the frame to, although
\* connect() takes no monitor and the field is loaded twice: with no failed call
\* on a plugged board and no relaunch, the field is not replaced in between.
NoSwapInTransfer ==
    [][\A t \in Threads :
          faults = 0 /\ restarts = 0 /\ call[t] = "fetch" /\ call'[t] = "fetch"
             => cpuMeter' = cpuMeter]_vars

(* Liveness. *)

\* README: the board is "to connect to the PC and receive data via USB from the
\* PC".  Whatever happened before, a board that stays plugged in keeps
\* receiving the worker's frames.
BoardKeepsReceiving == <>[]plugged => []<>(call[Worker] = "fetch")

\* A board that stays plugged in ends up with a verified link that the worker
\* never has to open again.
LinkSettles == <>[]plugged => <>[]connected

\* The window never freezes: the EDT always comes back to its event queue.
EDTKeepsRunning == []<>(call[EDT] = "none")
=============================================================================
