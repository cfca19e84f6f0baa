---------------------- MODULE ReCoMonBMainFrame_proofs ----------------------
(***************************************************************************)
(* For any frames, handles and bounds: the types and the mutual exclusion  *)
(* of pushData, first under arbitrary callers of connect() and pushData()  *)
(* and then for the program's two threads; that the worker never pushes    *)
(* through a null field; and that frames and answers stay in step until a  *)
(* call fails.                                                             *)
(***************************************************************************)
EXTENDS ReCoMonBMainFrame, TLAPS

(***************************************************************************)
(* The board and the updater, whoever calls.                               *)
(***************************************************************************)

uvars == <<boardVars, updaterVars>>

\* Every outcome of every library call keeps the board's state well typed.
LEMMA BoardTyping ==
    ASSUME BoardTypeOK,
           \/ Plug \/ Unplug \/ CloseAll \/ UNCHANGED boardVars
           \/ \E refs : Answer(refs) \/ Finalize(refs)
           \/ \E h \in Handles : OpenReturns(h)
           \/ OpenReturnsNull \/ OpenThrowsNotFound \/ OpenThrowsNPE
           \/ \E h \in Handles \cup {NoHandle}, f \in Frames :
                 WriteReturns(h, f) \/ WriteThrows(h, f)
           \/ \E h \in Handles \cup {NoHandle} :
                 (\E k \in Keys : ReadReturns(h, k)) \/ ReadThrows(h)
    PROVE  BoardTypeOK'
  <1> USE BoardAssumption
  <1>0. <<>> \in Seq(Keys)
    OBVIOUS
  <1>1. ASSUME Plug PROVE BoardTypeOK'
    BY <1>1 DEF BoardTypeOK, Plug
  <1>2. ASSUME Unplug PROVE BoardTypeOK'
    BY <1>0, <1>2 DEF BoardTypeOK, Unplug
  <1>3. ASSUME CloseAll PROVE BoardTypeOK'
    BY <1>0, <1>3 DEF BoardTypeOK, CloseAll
  <1>4. ASSUME UNCHANGED boardVars PROVE BoardTypeOK'
    BY <1>4 DEF BoardTypeOK, boardVars
  <1>5. ASSUME NEW refs, Answer(refs) PROVE BoardTypeOK'
    <2>1. Head(wire) \in Keys /\ Tail(wire) \in Seq(Keys)
      BY <1>5 DEF BoardTypeOK, Answer
    <2>2. \A h \in Handles : Append(queue[h], Head(wire)) \in Seq(Keys)
      BY <2>1 DEF BoardTypeOK
    <2>3. QED BY <1>5, <2>1, <2>2 DEF BoardTypeOK, Answer
  <1>6. ASSUME NEW refs, Finalize(refs) PROVE BoardTypeOK'
    BY <1>0, <1>6 DEF BoardTypeOK, Finalize
  <1>7. ASSUME NEW h \in Handles, OpenReturns(h) PROVE BoardTypeOK'
    BY <1>0, <1>7 DEF BoardTypeOK, OpenReturns
  <1>8. ASSUME OpenReturnsNull \/ OpenThrowsNotFound \/ OpenThrowsNPE
        PROVE  BoardTypeOK'
    BY <1>8 DEF BoardTypeOK, OpenReturnsNull, OpenThrowsNotFound,
                OpenThrowsNPE, Glitch, boardVars
  <1>9. ASSUME NEW h \in Handles \cup {NoHandle}, NEW f \in Frames,
               WriteReturns(h, f) \/ WriteThrows(h, f)
        PROVE  BoardTypeOK'
    <2>1. Append(wire, EchoOf[f]) \in Seq(Keys)
      BY DEF BoardTypeOK
    <2>2. wire' \in Seq(Keys)
      BY <1>9, <2>1 DEF BoardTypeOK, WriteReturns, WriteThrows, boardVars
    <2>3. faults' \in 0..MaxFaults
      BY <1>9 DEF BoardTypeOK, WriteReturns, WriteThrows, Glitch, boardVars
    <2>4. UNCHANGED <<shared, plugged, open, alive, queue>>
      BY <1>9 DEF WriteReturns, WriteThrows, boardVars
    <2>5. QED BY <2>2, <2>3, <2>4 DEF BoardTypeOK
  <1>10. ASSUME NEW h \in Handles \cup {NoHandle}, NEW k \in Keys,
                ReadReturns(h, k)
         PROVE  BoardTypeOK'
    <2>1. queue' \in [Handles -> Seq(Keys)]
      <3>1. CASE h \in Handles
        <4>1. Tail(queue[h]) \in Seq(Keys)
          BY <1>10, <3>1 DEF BoardTypeOK, ReadReturns
        <4>2. QED BY <1>10, <3>1, <4>1 DEF BoardTypeOK, ReadReturns
      <3>2. CASE h \notin Handles
        BY <1>10, <3>2 DEF BoardTypeOK, ReadReturns
      <3>3. QED BY <3>1, <3>2
    <2>2. QED BY <1>10, <2>1 DEF BoardTypeOK, ReadReturns
  <1>11. ASSUME NEW h \in Handles \cup {NoHandle}, ReadThrows(h)
         PROVE  BoardTypeOK'
    BY <1>11 DEF BoardTypeOK, ReadThrows, Glitch, boardVars
  <1>12. QED
    BY <1>1, <1>2, <1>3, <1>4, <1>5, <1>6, <1>7, <1>8, <1>9, <1>10, <1>11

\* Both the types and the exclusion: the inductive invariant.
UInv == UpdaterTypeOK /\ MonitorExclusion

LEMMA UpdaterInitInv ==
    ASSUME BoardInit, UpdaterInit PROVE UInv
  <1> USE BoardAssumption, ThreadAssumption
  <1>1. BoardTypeOK
    <2>1. <<>> \in Seq(Keys)
      OBVIOUS
    <2>2. QED BY <2>1 DEF BoardInit, BoardTypeOK
  <1>2. QED
    BY <1>1 DEF UpdaterInit, UInv, UpdaterTypeOK, MonitorExclusion, Calls, Inside

\* A thread that moves inside one method, and the call of a method, keep it.
LEMMA UpdaterStepInv ==
    ASSUME UInv, NEW t \in Threads, UpdaterStep(t)
    PROVE  UInv'
  <1> USE BoardAssumption, ThreadAssumption DEF UInv
  <1>1. CASE OpenById(t)
    <2>1. BoardTypeOK'
      BY <1>1, BoardTyping DEF OpenById, UpdaterTypeOK
    <2>2. QED
      BY <1>1, <2>1 DEF OpenById, GoTo, OpenReturns, UpdaterTypeOK,
                        MonitorExclusion, Calls, Inside, Outcomes, Failures
  <1>2. CASE Assign(t)
    <2>1. BoardTypeOK'
      BY <1>2, BoardTyping DEF Assign, UpdaterTypeOK
    <2>2. QED
      BY <1>2, <2>1 DEF Assign, GoTo, UpdaterTypeOK,
                        MonitorExclusion, Calls, Inside, Outcomes, Failures
  <1>3. CASE Enter(t)
    <2>1. BoardTypeOK'
      BY <1>3, BoardTyping DEF Enter, UpdaterTypeOK
    <2>2. QED
      BY <1>3, <2>1 DEF Enter, GoTo, UpdaterTypeOK,
                        MonitorExclusion, Calls, Inside
  <1>4. CASE Write(t)
    <2>1. BoardTypeOK'
      BY <1>4, BoardTyping DEF Write, UpdaterTypeOK
    <2>2. QED
      BY <1>4, <2>1 DEF Write, Leave, GoTo, UpdaterTypeOK,
                        MonitorExclusion, Calls, Inside, Outcomes, Failures
  <1>5. CASE Fetch(t)
    <2>1. BoardTypeOK'
      BY <1>5, BoardTyping DEF Fetch, UpdaterTypeOK
    <2>2. QED
      BY <1>5, <2>1 DEF Fetch, Leave, GoTo, UpdaterTypeOK,
                        MonitorExclusion, Calls, Inside, Outcomes, Failures
  <1>6. CASE Read(t)
    <2>1. BoardTypeOK'
      BY <1>6, BoardTyping DEF Read, UpdaterTypeOK
    <2>2. PICK outcome \in Outcomes : Leave(t, outcome)
      BY <1>6 DEF Read, Outcomes, Failures
    <2>3. QED
      BY <1>6, <2>1, <2>2 DEF Read, Leave, GoTo, UpdaterTypeOK,
                        MonitorExclusion, Calls, Inside, Outcomes, Failures
  <1>7. QED
    BY <1>1, <1>2, <1>3, <1>4, <1>5, <1>6 DEF UpdaterStep

LEMMA UpdaterCallInv ==
    ASSUME UInv, NEW t \in Threads, UNCHANGED boardVars,
           \/ Connect(t) /\ frame' \in [Threads -> Frames]
           \/ \E f \in Frames : Push(t, f)
    PROVE  UInv'
  <1> USE BoardAssumption, ThreadAssumption DEF UInv
  <1>1. BoardTypeOK'
    BY BoardTyping DEF UpdaterTypeOK
  <1>2. QED
    BY <1>1 DEF Connect, Push, InCaller, GoTo, UpdaterTypeOK,
                MonitorExclusion, Calls, Inside, Outcomes, Failures

LEMMA EnvironmentInv ==
    ASSUME UInv, Environment PROVE UInv'
  <1>1. BoardTypeOK'
    BY BoardTyping DEF UInv, UpdaterTypeOK, Environment
  <1>2. QED
    BY <1>1 DEF UInv, UpdaterTypeOK, MonitorExclusion, Environment, updaterVars

-----------------------------------------------------------------------------

LEMMA UpdaterInvariant == UpdaterSpec => []UInv
  <1>1. ObjectInit => UInv
    BY UpdaterInitInv DEF ObjectInit
  <1>2. UInv /\ [UpdaterNext]_uvars => UInv'
    <2> SUFFICES ASSUME UInv, [UpdaterNext]_uvars PROVE UInv'
      OBVIOUS
    <2>1. CASE Environment
      BY <2>1, EnvironmentInv
    <2>2. ASSUME NEW t \in Threads, UpdaterStep(t) PROVE UInv'
      BY <2>2, UpdaterStepInv
    <2>3. ASSUME NEW t \in Threads, Connect(t), UNCHANGED <<boardVars, frame>>
          PROVE  UInv'
      <3>1. frame' \in [Threads -> Frames] /\ UNCHANGED boardVars
        BY <2>3 DEF UInv, UpdaterTypeOK
      <3>2. QED BY <2>3, <3>1, UpdaterCallInv
    <2>4. ASSUME NEW t \in Threads, NEW f \in Frames, Push(t, f),
                 UNCHANGED boardVars
          PROVE  UInv'
      BY <2>4, UpdaterCallInv
    <2>5. CASE UNCHANGED uvars
      BY <2>5 DEF uvars, boardVars, updaterVars, UInv, UpdaterTypeOK,
                  BoardTypeOK, MonitorExclusion
    <2>6. QED BY <2>1, <2>2, <2>3, <2>4, <2>5 DEF UpdaterNext
  <1>3. QED BY <1>1, <1>2, PTL DEF UpdaterSpec, uvars

\* Whoever calls the object, its state is well typed.
THEOREM UpdaterTypeCorrect == UpdaterSpec => []UpdaterTypeOK
  BY UpdaterInvariant, PTL DEF UInv

\* Whoever calls the object, in whatever way a pushData ends and however
\* connect() runs beside it, exactly the holder of the monitor is inside.
THEOREM UpdaterExclusion == UpdaterSpec => []MonitorExclusion
  BY UpdaterInvariant, PTL DEF UInv

(***************************************************************************)
(* The main frame.                                                         *)
(***************************************************************************)

\* The main frame's own variables keep their types.
FrameTypeOK ==
    /\ step \in Steps
    /\ connected \in BOOLEAN
    /\ edtQ \in Seq(ButtonFrames \cup {"bars"})
    /\ clicks \in 0..MaxClicks
    /\ restarts \in 0..MaxRestarts

\* Where the worker's calls can stand at each point of its loop, what has become
\* of the field by then, and that the EDT never connects: the strengthening that
\* makes ConnectedHasHandle inductive.
LoopInv ==
    /\ connected => cpuMeter # NoHandle
    /\ step \in {"sample", "ui", "sleep"} => call[Worker] = "none"
    /\ step = "connecting" =>
          /\ ~connected
          /\ call[Worker] \in {"open", "assign", "ok", "threw", "npe"}
          /\ call[Worker] = "ok" => cpuMeter # NoHandle
    /\ step = "pushing" =>
          /\ cpuMeter # NoHandle
          /\ call[Worker] \in {"enter", "ok", "threw", "mismatch"} \cup Inside
    /\ call[EDT] \notin {"open", "assign"}

IInv == UInv /\ FrameTypeOK /\ LoopInv

LEMMA TwoThreads == Worker \in Threads /\ EDT \in Threads /\ Worker # EDT
  BY MainFrameAssumption

LEMMA InitInv == Init => IInv
  <1> SUFFICES ASSUME Init PROVE IInv
    OBVIOUS
  <1>1. UInv
    BY UpdaterInitInv DEF Init
  <1>2. <<>> \in Seq(ButtonFrames \cup {"bars"})
    OBVIOUS
  <1>3. FrameTypeOK
    <2>1. connected \in BOOLEAN /\ step \in Steps
      BY DEF Init, Steps
    <2>2. clicks \in 0..MaxClicks /\ restarts \in 0..MaxRestarts
      BY MainFrameAssumption DEF Init
    <2>3. QED BY <1>2, <2>1, <2>2 DEF Init, FrameTypeOK
  <1>4. LoopInv
    <2>1. call[Worker] = "none" /\ call[EDT] = "none"
      BY TwoThreads DEF Init, UpdaterInit
    <2>2. ~connected /\ step = "sample"
      BY DEF Init
    <2>3. QED BY <2>1, <2>2 DEF LoopInv
  <1>5. QED BY <1>1, <1>3, <1>4 DEF IInv

\* Updater steps of the worker: only they replace the field.
LEMMA WorkerStepLoop ==
    ASSUME IInv, UpdaterStep(Worker), UNCHANGED frameVars
    PROVE  LoopInv'
  <1> USE TwoThreads, BoardAssumption
          DEF IInv, UInv, UpdaterTypeOK, LoopInv, frameVars, GoTo, Inside
  <1>1. CASE OpenById(Worker)
    <2>1. call' \in [Threads -> Calls]
      BY <1>1, UpdaterStepInv DEF UpdaterStep
    <2>2. step = "connecting" /\ ~connected
      BY <1>1 DEF OpenById, FrameTypeOK, Steps
    <2>3. call'[Worker] \in {"assign", "threw", "npe"}
      BY <1>1 DEF OpenById
    <2>4. call'[EDT] = call[EDT] /\ UNCHANGED cpuMeter
      BY <1>1 DEF OpenById
    <2>5. QED BY <2>2, <2>3, <2>4
  <1>2. CASE Assign(Worker)
    <2>1. step = "connecting" /\ ~connected
      BY <1>2 DEF Assign, FrameTypeOK, Steps
    <2>2. call'[Worker] = IF held[Worker] = NoHandle THEN "threw" ELSE "ok"
      BY <1>2 DEF Assign
    <2>3. call'[EDT] = call[EDT] /\ cpuMeter' = held[Worker]
      BY <1>2 DEF Assign
    <2>4. QED BY <2>1, <2>2, <2>3
  <1>3. CASE Enter(Worker)
    BY <1>3 DEF Enter
  <1>4. CASE Write(Worker)
    BY <1>4 DEF Write, Leave
  <1>5. CASE Fetch(Worker)
    BY <1>5 DEF Fetch, Leave
  <1>6. CASE Read(Worker)
    BY <1>6 DEF Read, Leave
  <1>7. QED
    BY <1>1, <1>2, <1>3, <1>4, <1>5, <1>6 DEF UpdaterStep

\* Updater steps of the EDT leave the field and the worker alone.
LEMMA EDTStepLoop ==
    ASSUME IInv, UpdaterStep(EDT), UNCHANGED frameVars
    PROVE  LoopInv'
  <1> USE TwoThreads
          DEF IInv, UInv, UpdaterTypeOK, LoopInv, frameVars, GoTo, Inside
  <1>1. ~OpenById(EDT) /\ ~Assign(EDT)
    BY DEF OpenById, Assign
  <1>2. CASE Enter(EDT)
    BY <1>2 DEF Enter
  <1>3. CASE Write(EDT)
    BY <1>3 DEF Write, Leave
  <1>4. CASE Fetch(EDT)
    BY <1>4 DEF Fetch, Leave
  <1>5. CASE Read(EDT)
    BY <1>5 DEF Read, Leave
  <1>6. QED
    BY <1>1, <1>2, <1>3, <1>4, <1>5 DEF UpdaterStep

\* The caller takes note of how a call ended.
LEMMA EndOfCallInv ==
    ASSUME UInv, NEW t \in Threads, call[t] \in Outcomes, GoTo(t, "none"),
           UNCHANGED <<boardVars, cpuMeter, monitor, held, frame>>
    PROVE  UInv'
  BY DEF UInv, UpdaterTypeOK, BoardTypeOK, boardVars, MonitorExclusion, GoTo,
         Calls, Inside, Outcomes, Failures

LEMMA WorkerInv == IInv /\ WorkerNext => IInv'
  <1> SUFFICES ASSUME IInv, WorkerNext PROVE IInv'
    OBVIOUS
  <1> USE TwoThreads
  <1>1. CASE GetCpuData
    <2>1. PICK cpuData \in WorkerFrames :
            IF connected
              THEN Push(Worker, cpuData) /\ step' = "pushing"
              ELSE /\ Connect(Worker)
                   /\ frame' = [frame EXCEPT ![Worker] = cpuData]
                   /\ step' = "connecting"
      BY <1>1 DEF GetCpuData
    <2>2. cpuData \in Frames
      BY MainFrameAssumption
    <2>3. UNCHANGED <<boardVars, connected, edtQ, clicks, restarts>>
      BY <1>1 DEF GetCpuData
    <2>4. frame' \in [Threads -> Frames]
      BY <2>1, <2>2 DEF Push, IInv, UInv, UpdaterTypeOK
    <2>5. UInv'
      BY <2>1, <2>2, <2>3, <2>4, UpdaterCallInv DEF IInv, FrameTypeOK
    <2>6. FrameTypeOK'
      BY <2>1, <2>3 DEF IInv, FrameTypeOK, Steps
    <2>7. LoopInv'
      BY <2>1, <2>3 DEF IInv, UInv, UpdaterTypeOK, LoopInv, FrameTypeOK,
                        Connect, Push, GoTo
    <2>8. QED BY <2>5, <2>6, <2>7 DEF IInv
  <1>2. CASE GetCpuDataThrows
    <2>1. faults' \in 0..MaxFaults
      BY <1>2, BoardAssumption
         DEF GetCpuDataThrows, Glitch, IInv, UInv, UpdaterTypeOK, BoardTypeOK
    <2>2. UInv'
      BY <1>2, <2>1 DEF GetCpuDataThrows, IInv, UInv, UpdaterTypeOK,
                        BoardTypeOK, MonitorExclusion, updaterVars
    <2>3. FrameTypeOK' /\ LoopInv'
      BY <1>2 DEF GetCpuDataThrows, IInv, FrameTypeOK, LoopInv,
                  updaterVars, frameVars
    <2>4. QED BY <2>2, <2>3 DEF IInv
  <1>3. CASE ConnectReturns
    <2>1. frame[Worker] \in Frames /\ UNCHANGED boardVars
      BY <1>3 DEF ConnectReturns, IInv, UInv, UpdaterTypeOK
    <2>2. UInv'
      BY <1>3, <2>1, UpdaterCallInv DEF ConnectReturns, IInv
    <2>3. FrameTypeOK'
      BY <1>3 DEF ConnectReturns, IInv, FrameTypeOK, Steps
    <2>4. LoopInv'
      BY <1>3 DEF ConnectReturns, IInv, UInv, UpdaterTypeOK, LoopInv, Push, GoTo
    <2>5. QED BY <2>2, <2>3, <2>4 DEF IInv
  <1>4. CASE PushReturns
    <2>1. UInv'
      BY <1>4, EndOfCallInv DEF PushReturns, IInv, Outcomes
    <2>2. FrameTypeOK'
      BY <1>4 DEF PushReturns, IInv, FrameTypeOK, Steps
    <2>3. LoopInv'
      BY <1>4 DEF PushReturns, IInv, UInv, UpdaterTypeOK, LoopInv, GoTo
    <2>4. QED BY <2>1, <2>2, <2>3 DEF IInv
  <1>5. CASE CatchException
    <2>1. UInv'
      BY <1>5, EndOfCallInv DEF CatchException, IInv, Outcomes
    <2>2. FrameTypeOK'
      BY <1>5 DEF CatchException, IInv, FrameTypeOK, Steps
    <2>3. LoopInv'
      BY <1>5 DEF CatchException, IInv, UInv, UpdaterTypeOK, LoopInv, GoTo
    <2>4. QED BY <2>1, <2>2, <2>3 DEF IInv
  <1>6. CASE PostBars \/ Wake
    <2>1. UInv'
      BY <1>6 DEF PostBars, Wake, IInv, UInv, UpdaterTypeOK, BoardTypeOK,
                  MonitorExclusion, boardVars, updaterVars
    <2>2. edtQ' \in Seq(ButtonFrames \cup {"bars"})
      BY <1>6 DEF PostBars, Wake, IInv, FrameTypeOK
    <2>3. FrameTypeOK'
      BY <1>6, <2>2 DEF PostBars, Wake, IInv, FrameTypeOK, Steps
    <2>4. LoopInv'
      BY <1>6 DEF PostBars, Wake, IInv, LoopInv, updaterVars
    <2>5. QED BY <2>1, <2>3, <2>4 DEF IInv
  <1>7. CASE UpdaterStep(Worker) /\ UNCHANGED frameVars
    <2>1. UInv'
      BY <1>7, UpdaterStepInv DEF IInv
    <2>2. FrameTypeOK'
      BY <1>7 DEF IInv, FrameTypeOK, frameVars
    <2>3. QED BY <1>7, <2>1, <2>2, WorkerStepLoop DEF IInv
  <1>8. QED
    BY <1>1, <1>2, <1>3, <1>4, <1>5, <1>6, <1>7 DEF WorkerNext

LEMMA EDTInv == IInv /\ (EDTNext \/ Click) => IInv'
  <1> SUFFICES ASSUME IInv, EDTNext \/ Click PROVE IInv'
    OBVIOUS
  <1> USE TwoThreads
  <1>1. CASE Click \/ RunBars
    <2>1. UInv'
      BY <1>1 DEF Click, RunBars, IInv, UInv, UpdaterTypeOK, BoardTypeOK,
                  MonitorExclusion, boardVars, updaterVars
    <2>2. edtQ' \in Seq(ButtonFrames \cup {"bars"})
      BY <1>1 DEF Click, RunBars, IInv, FrameTypeOK
    <2>3. clicks' \in 0..MaxClicks
      BY <1>1, MainFrameAssumption DEF Click, RunBars, IInv, FrameTypeOK
    <2>4. FrameTypeOK'
      BY <1>1, <2>2, <2>3 DEF Click, RunBars, IInv, FrameTypeOK
    <2>5. LoopInv'
      BY <1>1 DEF Click, RunBars, IInv, LoopInv, updaterVars
    <2>6. QED BY <2>1, <2>4, <2>5 DEF IInv
  <1>2. CASE RunButton
    <2>1. Head(edtQ) \in ButtonFrames /\ Tail(edtQ) \in Seq(ButtonFrames \cup {"bars"})
      BY <1>2 DEF RunButton, IInv, FrameTypeOK
    <2>2. UInv'
      BY <1>2, <2>1, UpdaterCallInv, MainFrameAssumption DEF RunButton, IInv
    <2>3. FrameTypeOK'
      BY <1>2, <2>1 DEF RunButton, IInv, FrameTypeOK
    <2>4. LoopInv'
      BY <1>2 DEF RunButton, IInv, UInv, UpdaterTypeOK, LoopInv, Push, GoTo
    <2>5. QED BY <2>2, <2>3, <2>4 DEF IInv
  <1>3. CASE ButtonEnds
    <2>1. UInv'
      BY <1>3, EndOfCallInv DEF ButtonEnds, IInv
    <2>2. FrameTypeOK'
      BY <1>3 DEF ButtonEnds, IInv, FrameTypeOK, frameVars
    <2>3. LoopInv'
      BY <1>3 DEF ButtonEnds, IInv, UInv, UpdaterTypeOK, LoopInv, GoTo, frameVars
    <2>4. QED BY <2>1, <2>2, <2>3 DEF IInv
  <1>4. CASE UpdaterStep(EDT) /\ UNCHANGED frameVars
    <2>1. UInv'
      BY <1>4, UpdaterStepInv DEF IInv
    <2>2. FrameTypeOK'
      BY <1>4 DEF IInv, FrameTypeOK, frameVars
    <2>3. QED BY <1>4, <2>1, <2>2, EDTStepLoop DEF IInv
  <1>5. QED BY <1>1, <1>2, <1>3, <1>4 DEF EDTNext

LEMMA RestartInv == IInv /\ Restart => IInv'
  <1> SUFFICES ASSUME IInv, Restart PROVE IInv'
    OBVIOUS
  <1> USE TwoThreads
  <1>1. BoardTypeOK'
    BY BoardTyping DEF Restart, IInv, UInv, UpdaterTypeOK
  <1>2. UInv'
    BY <1>1, ThreadAssumption
       DEF Restart, IInv, UInv, UpdaterTypeOK, MonitorExclusion, Calls, Inside
  <1>3. <<>> \in Seq(ButtonFrames \cup {"bars"})
    OBVIOUS
  <1>4. FrameTypeOK'
    <2>1. connected' \in BOOLEAN /\ step' \in Steps
      BY DEF Restart, Steps
    <2>2. clicks' \in 0..MaxClicks /\ restarts' \in 0..MaxRestarts
      BY MainFrameAssumption DEF Restart, IInv, FrameTypeOK
    <2>3. QED BY <1>3, <2>1, <2>2 DEF Restart, FrameTypeOK
  <1>5. LoopInv'
    <2>1. call'[Worker] = "none" /\ call'[EDT] = "none"
      BY DEF Restart
    <2>2. ~connected' /\ step' = "sample"
      BY DEF Restart
    <2>3. QED BY <2>1, <2>2 DEF LoopInv
  <1>6. QED BY <1>2, <1>4, <1>5 DEF IInv

-----------------------------------------------------------------------------

LEMMA NextInv == IInv /\ [Next]_vars => IInv'
  <1> SUFFICES ASSUME IInv, [Next]_vars PROVE IInv'
    OBVIOUS
  <1>1. CASE MainEnvironment
    <2>1. UInv'
      BY <1>1, EnvironmentInv DEF MainEnvironment, IInv
    <2>2. FrameTypeOK' /\ LoopInv'
      BY <1>1 DEF MainEnvironment, Environment, IInv, FrameTypeOK, LoopInv,
                  updaterVars, frameVars
    <2>3. QED BY <2>1, <2>2 DEF IInv
  <1>2. CASE UNCHANGED vars
    BY <1>2 DEF vars, boardVars, updaterVars, frameVars, IInv, UInv,
       UpdaterTypeOK, BoardTypeOK, MonitorExclusion, FrameTypeOK, LoopInv
  <1>3. QED
    BY <1>1, <1>2, WorkerInv, EDTInv, RestartInv DEF Next

LEMMA Invariant == Spec => []IInv
  BY NextInv, InitInv, PTL DEF Spec

\* Every variable of the composed system keeps its type.
THEOREM TypeCorrect == Spec => []TypeOK
  <1>1. IInv => TypeOK
    BY DEF IInv, UInv, FrameTypeOK, TypeOK
  <1>2. QED BY <1>1, Invariant, PTL

\* The worker and the EDT are never both inside pushData, through any failures,
\* reconnections and relaunches.
THEOREM Exclusion == Spec => []MonitorExclusion
  <1>1. IInv => MonitorExclusion
    BY DEF IInv, UInv
  <1>2. QED BY <1>1, Invariant, PTL

\* The worker never pushes through a null field.
THEOREM NoNullPush == Spec => []ConnectedHasHandle
  <1>1. IInv => ConnectedHasHandle
    BY DEF IInv, LoopInv, ConnectedHasHandle, Inside
  <1>2. QED BY <1>1, Invariant, PTL
-----------------------------------------------------------------------------
(* Frames and answers: a system in which no call failed on a plugged board   *)
(* and that was not relaunched.                                              *)

Faultless == faults = 0 /\ restarts = 0

Awaits(t) == call[t] \in {"fetch", "read"}

\* What a live board has still to answer.
Owed == IF monitor # NoThread /\ Awaits(monitor)
          THEN <<EchoOf[frame[monitor]]>> ELSE <<>>

\* The worker replaces the field before its next transfer.
Unlinked ==
    \/ ~connected /\ step \in {"sample", "ui", "sleep"}
    \/ step = "connecting" /\ call[Worker] \in {"open", "assign", "threw", "npe"}
    \/ step = "pushing" /\ call[Worker] \in Failures

\* A handle in use has not been closed, so its id is not given out again.
HandlesOpen ==
    /\ cpuMeter \in open \cup {NoHandle}
    /\ \A t \in Threads : held[t] \in open \cup {NoHandle}

\* A thread has a handle of its own only within a call.
HeldInCall ==
    \A t \in Threads : call[t] \notin {"assign", "read"} => held[t] = NoHandle

\* The worker gives up a handle only when it is dead and nobody waits on it.
GivesUpDead == Unlinked => cpuMeter \notin alive /\ ~Awaits(EDT)

\* A board whose link is dead has nothing to send, and a new handle has nothing
\* queued: an old answer has no way into a new link.
NothingLeft ==
    /\ cpuMeter \notin alive => wire = <<>>
    /\ call[Worker] = "assign" /\ held[Worker] # NoHandle
          => queue[held[Worker]] = <<>>

\* Whoever waits for an answer waits on the field's handle, for its own frame's.
OwnAnswer ==
    \A t \in Threads :
        /\ call[t] = "read" => held[t] = cpuMeter
        /\ Awaits(t) => /\ cpuMeter # NoHandle
                        /\ queue[cpuMeter] \in {<<>>, <<EchoOf[frame[t]]>>}
        /\ call[t] # "mismatch"

\* InStep, with the place where the answer is.
Paired ==
    cpuMeter \in alive =>
        \/ queue[cpuMeter] = <<>> /\ wire = Owed
        \/ queue[cpuMeter] = Owed /\ wire = <<>>

LinkInv == GivesUpDead /\ NothingLeft /\ OwnAnswer /\ Paired

\* The inductive invariant: IInv, and what holds before the first failure.
TransferInv == IInv /\ HandlesOpen /\ HeldInCall /\ (Faultless => LinkInv)

\* What the invariant says of types, in the form the steps below need.
LEMMA LinkTypes ==
    ASSUME IInv
    PROVE  /\ cpuMeter \in Handles \cup {NoHandle}
           /\ held \in [Threads -> Handles \cup {NoHandle}]
           /\ call \in [Threads -> Calls]
           /\ frame \in [Threads -> Frames]
           /\ queue \in [Handles -> Seq(Keys)]
           /\ wire \in Seq(Keys)
           /\ alive \subseteq open /\ open \subseteq Handles
           /\ Threads = {Worker, EDT} /\ Worker # EDT
           /\ NoHandle \notin Handles
           /\ NoThread \notin Threads
           /\ \A t \in Threads : call[t] \in Inside <=> monitor = t
           /\ monitor \in Threads \cup {NoThread}
  BY MainFrameAssumption, BoardAssumption, ThreadAssumption
     DEF IInv, UInv, UpdaterTypeOK, BoardTypeOK, MonitorExclusion

LEMMA HandlesOpenStep ==
    ASSUME IInv, HandlesOpen, [Next]_vars PROVE HandlesOpen'
  <1> USE TwoThreads, BoardAssumption DEF HandlesOpen
  <1>1. ASSUME NEW t \in Threads, UpdaterStep(t) PROVE HandlesOpen'
    <2>0. held \in [Threads -> Handles \cup {NoHandle}]
      BY DEF IInv, UInv, UpdaterTypeOK
    <2>1. CASE OpenById(t)
      BY <2>0, <2>1 DEF OpenById, OpenReturns, OpenReturnsNull, OpenThrowsNotFound,
                        OpenThrowsNPE, boardVars
    <2>2. CASE Assign(t)
      BY <2>0, <2>2 DEF Assign, boardVars
    <2>3. CASE Enter(t)
      BY <2>3 DEF Enter, boardVars
    <2>4. CASE Write(t)
      BY <2>0, <2>4 DEF Write, WriteReturns, WriteThrows, Leave, boardVars
    <2>5. CASE Fetch(t)
      BY <2>0, <2>5 DEF Fetch, Leave, boardVars
    <2>6. CASE Read(t)
      BY <2>0, <2>6 DEF Read, ReadReturns, ReadThrows, Leave, boardVars
    <2>7. QED
      BY <1>1, <2>1, <2>2, <2>3, <2>4, <2>5, <2>6 DEF UpdaterStep
  <1>2. CASE MainEnvironment
    BY <1>2 DEF MainEnvironment, Environment, Plug, Unplug, Answer, Finalize,
                Referenced, updaterVars
  <1>3. CASE Restart
    BY <1>3 DEF Restart, CloseAll
  <1>4. ASSUME UNCHANGED <<open, cpuMeter, held>> PROVE HandlesOpen'
    BY <1>4
  <1>5. CASE UNCHANGED vars
    BY <1>4, <1>5 DEF vars, boardVars, updaterVars
  <1>6. CASE WorkerNext /\ ~(UpdaterStep(Worker) /\ UNCHANGED frameVars)
    BY <1>4, <1>6 DEF WorkerNext, GetCpuData, GetCpuDataThrows, ConnectReturns,
         PushReturns, CatchException, PostBars, Wake, Push, Connect, boardVars, updaterVars
  <1>7. CASE (EDTNext \/ Click) /\ ~(UpdaterStep(EDT) /\ UNCHANGED frameVars)
    BY <1>4, <1>7 DEF EDTNext, Click, RunBars, RunButton, ButtonEnds, Push, boardVars, updaterVars
  <1>8. QED
    BY <1>1, <1>2, <1>3, <1>5, <1>6, <1>7 DEF Next

LEMMA HeldInCallStep ==
    ASSUME IInv, HeldInCall, [Next]_vars PROVE HeldInCall'
  <1> USE LinkTypes DEF HeldInCall, GoTo
  <1>1. ASSUME NEW t \in Threads, UpdaterStep(t) PROVE HeldInCall'
    BY <1>1 DEF UpdaterStep, OpenById, Assign, Enter, Write, Fetch, Read, Leave
  <1>2. CASE MainEnvironment
    BY <1>2 DEF MainEnvironment, Environment, updaterVars
  <1>3. CASE Restart
    BY <1>3 DEF Restart
  <1>4. CASE UNCHANGED vars
    BY <1>4 DEF vars, updaterVars
  <1>5. CASE WorkerNext /\ ~(UpdaterStep(Worker) /\ UNCHANGED frameVars)
    BY <1>5 DEF WorkerNext, GetCpuData, GetCpuDataThrows, ConnectReturns,
         PushReturns, CatchException, PostBars, Wake, Push, Connect, InCaller,
         Outcomes, Failures, updaterVars
  <1>6. CASE (EDTNext \/ Click) /\ ~(UpdaterStep(EDT) /\ UNCHANGED frameVars)
    BY <1>6 DEF EDTNext, Click, RunBars, RunButton, ButtonEnds, Push, InCaller,
         Outcomes, Failures, updaterVars
  <1>7. QED
    BY <1>1, <1>2, <1>3, <1>4, <1>5, <1>6 DEF Next

LEMMA LinkStarts == Init => TransferInv
  <1> SUFFICES ASSUME Init PROVE TransferInv
    OBVIOUS
  <1> USE TwoThreads, BoardAssumption DEF Init, BoardInit, UpdaterInit
  <1>1. HandlesOpen
    BY DEF HandlesOpen
  <1>2. LinkInv /\ HeldInCall
    BY DEF HeldInCall, LinkInv, GivesUpDead, NothingLeft, OwnAnswer, Paired, Awaits
  <1>3. QED BY <1>1, <1>2, InitInv DEF TransferInv

\* A transfer: entering, writing, loading the field again, reading.
LEMMA EnterLink ==
    ASSUME IInv, LinkInv, NEW t \in Threads, Enter(t), UNCHANGED frameVars
    PROVE  LinkInv'
  <1> USE LinkTypes DEF Enter, GoTo, frameVars, boardVars, Awaits, Inside
  <1>1. GivesUpDead'
    BY DEF LinkInv, GivesUpDead, Unlinked, Failures
  <1>2. NothingLeft'
    BY DEF LinkInv, NothingLeft
  <1>3. OwnAnswer'
    BY DEF LinkInv, OwnAnswer
  <1>4. Paired'
    BY DEF LinkInv, Paired, Owed
  <1>5. QED BY <1>1, <1>2, <1>3, <1>4 DEF LinkInv

LEMMA WriteLink ==
    ASSUME IInv, LinkInv, NEW t \in Threads, Write(t), UNCHANGED frameVars,
           Faultless, Faultless'
    PROVE  LinkInv'
  <1> USE LinkTypes DEF GoTo, Leave, frameVars, boardVars, Awaits, Inside
  <1>1. CASE WriteReturns(cpuMeter, frame[t]) /\ GoTo(t, "fetch")
    <2>0. UNCHANGED <<monitor, held, cpuMeter, frame>>
      BY <1>1 DEF Write, WriteReturns
    <2> USE <1>1, <2>0 DEF WriteReturns
    <2>1. queue[cpuMeter] = <<>> /\ wire = <<>>
      BY DEF LinkInv, Paired, Owed, Write
    <2>2. wire' = <<EchoOf[frame[t]]>>
      BY <2>1
    <2>3. GivesUpDead'
      BY DEF LinkInv, GivesUpDead, Unlinked, Failures, Write
    <2>4. NothingLeft'
      BY DEF LinkInv, NothingLeft
    <2>5. OwnAnswer'
      BY <2>1 DEF LinkInv, OwnAnswer, Write
    <2>6. Paired'
      BY <2>1, <2>2 DEF LinkInv, Paired, Owed, Write
    <2>7. QED BY <2>3, <2>4, <2>5, <2>6 DEF LinkInv
  <1>2. CASE cpuMeter \notin alive /\ UNCHANGED boardVars
               /\ \E outcome \in {"npe", "threw"} : Leave(t, outcome)
    <2> USE <1>2 DEF Write
    <2>1. GivesUpDead'
      BY DEF LinkInv, GivesUpDead, Unlinked, Failures
    <2>2. NothingLeft'
      BY DEF LinkInv, NothingLeft
    <2>3. OwnAnswer'
      BY DEF LinkInv, OwnAnswer
    <2>4. Paired'
      BY DEF LinkInv, Paired
    <2>5. QED BY <2>1, <2>2, <2>3, <2>4 DEF LinkInv
  <1>3. QED
    BY <1>1, <1>2 DEF Write, WriteThrows, Glitch, Faultless

LEMMA FetchLink ==
    ASSUME IInv, LinkInv, NEW t \in Threads, Fetch(t), UNCHANGED frameVars
    PROVE  LinkInv'
  <1> USE LinkTypes DEF Fetch, GoTo, frameVars, boardVars, Awaits, Inside
  <1>0. cpuMeter # NoHandle
    BY DEF LinkInv, OwnAnswer
  <1>1. GivesUpDead'
    BY <1>0 DEF LinkInv, GivesUpDead, Unlinked, Failures
  <1>2. NothingLeft'
    BY <1>0 DEF LinkInv, NothingLeft
  <1>3. OwnAnswer'
    BY <1>0 DEF LinkInv, OwnAnswer
  <1>4. Paired'
    BY <1>0 DEF LinkInv, Paired, Owed
  <1>5. QED BY <1>1, <1>2, <1>3, <1>4 DEF LinkInv

LEMMA ReadLink ==
    ASSUME IInv, LinkInv, NEW t \in Threads, Read(t), UNCHANGED frameVars,
           Faultless, Faultless'
    PROVE  LinkInv'
  <1> USE LinkTypes DEF GoTo, Leave, frameVars, boardVars, Awaits, Inside
  <1>0. /\ call[t] = "read" /\ held[t] = cpuMeter /\ cpuMeter \in Handles
        /\ queue[cpuMeter] \in {<<>>, <<EchoOf[frame[t]]>>}
        /\ UNCHANGED <<cpuMeter, frame>>
    BY DEF LinkInv, OwnAnswer, Read
  <1>1. CASE \E k \in Keys : ReadReturns(held[t], k)
                /\ Leave(t, IF k = EchoOf[frame[t]] THEN "ok" ELSE "mismatch")
    <2>1. PICK k \in Keys : ReadReturns(held[t], k)
                /\ Leave(t, IF k = EchoOf[frame[t]] THEN "ok" ELSE "mismatch")
      BY <1>1
    <2>2. queue[cpuMeter] = <<EchoOf[frame[t]]>> /\ k = EchoOf[frame[t]]
      BY <1>0, <2>1 DEF ReadReturns
    <2>3. queue' = [queue EXCEPT ![cpuMeter] = <<>>]
      BY <1>0, <2>1, <2>2 DEF ReadReturns
    <2>4. Leave(t, "ok") /\ UNCHANGED <<wire, open, alive, faults>>
      BY <2>1, <2>2 DEF ReadReturns
    <2>5. GivesUpDead'
      BY <1>0, <2>4 DEF LinkInv, GivesUpDead, Unlinked, Failures
    <2>6. NothingLeft'
      BY <1>0, <2>3, <2>4 DEF LinkInv, NothingLeft
    <2>7. OwnAnswer'
      BY <1>0, <2>3, <2>4 DEF LinkInv, OwnAnswer
    <2>8. Paired'
      BY <1>0, <2>2, <2>3, <2>4 DEF LinkInv, Paired, Owed
    <2>9. QED BY <2>5, <2>6, <2>7, <2>8 DEF LinkInv
  <1>2. CASE cpuMeter \notin alive /\ UNCHANGED boardVars /\ Leave(t, "threw")
    <2> USE <1>0, <1>2
    <2>1. GivesUpDead'
      BY DEF LinkInv, GivesUpDead, Unlinked, Failures
    <2>2. NothingLeft'
      BY DEF LinkInv, NothingLeft
    <2>3. OwnAnswer'
      BY DEF LinkInv, OwnAnswer
    <2>4. Paired'
      BY DEF LinkInv, Paired
    <2>5. QED BY <2>1, <2>2, <2>3, <2>4 DEF LinkInv
  <1>3. QED
    BY <1>0, <1>1, <1>2 DEF Read, ReadThrows, Glitch, Faultless

\* connect(): only the worker calls it, when its link is dead.
LEMMA OpenLink ==
    ASSUME IInv, HandlesOpen, HeldInCall, LinkInv, OpenById(Worker), UNCHANGED frameVars,
           Faultless, Faultless'
    PROVE  LinkInv'
  <1> USE LinkTypes DEF GoTo, frameVars, boardVars, Awaits, Inside
  <1>0. step = "connecting" /\ cpuMeter \notin alive /\ wire = <<>> /\ ~Awaits(EDT)
    BY DEF OpenById, LinkInv, GivesUpDead, NothingLeft, Unlinked, IInv, LoopInv,
           FrameTypeOK, Steps
  <1>1. UNCHANGED <<cpuMeter, monitor, frame, wire>>
    BY DEF OpenById, OpenReturns, OpenReturnsNull, OpenThrowsNotFound, OpenThrowsNPE
  <1>2. /\ cpuMeter \notin alive'
        /\ call'[Worker] \in {"assign", "threw", "npe"} /\ call'[EDT] = call[EDT]
    BY <1>0 DEF OpenById, OpenReturns, OpenReturnsNull, OpenThrowsNotFound,
                OpenThrowsNPE, HandlesOpen
  <1>3. GivesUpDead'
    BY <1>0, <1>1, <1>2 DEF GivesUpDead
  <1>4. NothingLeft'
    <2>1. CASE \E h \in Handles : OpenReturns(h) /\ held' = [held EXCEPT ![Worker] = h]
      BY <1>0, <1>1, <2>1 DEF NothingLeft, OpenReturns
    <2>2. CASE UNCHANGED held /\ OpenReturnsNull
      BY <1>0, <1>1, <2>2 DEF NothingLeft, OpenReturnsNull, OpenById, HeldInCall
    <2>3. CASE call'[Worker] # "assign"
      BY <1>0, <1>1, <2>3 DEF NothingLeft
    <2>4. QED BY <2>1, <2>2, <2>3 DEF OpenById
  <1>5. OwnAnswer'
    BY <1>0, <1>1, <1>2 DEF LinkInv, OwnAnswer
  <1>6. Paired'
    BY <1>1, <1>2 DEF Paired
  <1>7. QED BY <1>3, <1>4, <1>5, <1>6 DEF LinkInv

LEMMA AssignLink ==
    ASSUME IInv, LinkInv, Assign(Worker), UNCHANGED frameVars
    PROVE  LinkInv'
  <1> USE LinkTypes DEF Assign, GoTo, frameVars, boardVars, Awaits, Inside
  <1>0. /\ step = "connecting" /\ wire = <<>> /\ ~Awaits(EDT)
        /\ held[Worker] # NoHandle => queue[held[Worker]] = <<>>
    BY DEF LinkInv, GivesUpDead, NothingLeft, Unlinked, IInv, LoopInv,
           FrameTypeOK, Steps
  <1>1. GivesUpDead'
    BY <1>0 DEF GivesUpDead, Unlinked
  <1>2. NothingLeft'
    BY <1>0 DEF NothingLeft
  <1>3. OwnAnswer'
    BY <1>0 DEF LinkInv, OwnAnswer
  <1>4. Paired'
    BY <1>0 DEF Paired, Owed
  <1>5. QED BY <1>1, <1>2, <1>3, <1>4 DEF LinkInv

\* Both threads' steps between two calls leave the board and the field alone.
LEMMA WorkerLink ==
    ASSUME IInv, LinkInv, WorkerNext,
           ~(UpdaterStep(Worker) /\ UNCHANGED frameVars), Faultless, Faultless'
    PROVE  LinkInv'
  <1> USE LinkTypes DEF IInv, LoopInv, FrameTypeOK, Steps
  <1>1. /\ UNCHANGED <<boardVars, cpuMeter, monitor, held>>
        /\ call'[EDT] = call[EDT] /\ frame'[EDT] = frame[EDT]
        /\ ~Awaits(Worker) /\ ~Awaits(Worker)'
        /\ call'[Worker] \in {call[Worker], "none", "open", "enter"}
    BY DEF WorkerNext, GetCpuData, GetCpuDataThrows, ConnectReturns, PushReturns,
           CatchException, PostBars, Wake, Push, Connect, GoTo, boardVars,
           updaterVars, frameVars, Glitch, Faultless, Awaits, Inside, Failures
  <1>2. Unlinked' => Unlinked
    BY DEF WorkerNext, GetCpuData, GetCpuDataThrows, ConnectReturns, PushReturns,
           CatchException, PostBars, Wake, Push, Connect, GoTo, boardVars,
           updaterVars, frameVars, Glitch, Faultless, Unlinked, Failures
  <1>3. GivesUpDead'
    BY <1>1, <1>2 DEF LinkInv, GivesUpDead, boardVars, Awaits
  <1>4. NothingLeft'
    BY <1>1 DEF LinkInv, NothingLeft, boardVars
  <1>5. OwnAnswer'
    BY <1>1 DEF LinkInv, OwnAnswer, boardVars, Awaits
  <1>6. Owed' = Owed
    BY <1>1 DEF Owed, Awaits
  <1>7. Paired'
    BY <1>1, <1>6 DEF LinkInv, Paired, boardVars
  <1>8. QED BY <1>3, <1>4, <1>5, <1>7 DEF LinkInv

LEMMA EDTLink ==
    ASSUME IInv, LinkInv, EDTNext \/ Click,
           ~(UpdaterStep(EDT) /\ UNCHANGED frameVars)
    PROVE  LinkInv'
  <1> USE LinkTypes
  <1>1. /\ UNCHANGED <<boardVars, cpuMeter, monitor, held, step, connected>>
        /\ call'[Worker] = call[Worker] /\ frame'[Worker] = frame[Worker]
        /\ ~Awaits(EDT) => ~Awaits(EDT)'
        /\ \/ UNCHANGED <<call, frame>>
           \/ ~Awaits(EDT) /\ call'[EDT] \in {"none", "enter"}
    BY DEF EDTNext, Click, RunBars, RunButton, ButtonEnds, Push, InCaller, GoTo,
           updaterVars, frameVars, Awaits, Outcomes, Failures
  <1>2. GivesUpDead'
    BY <1>1 DEF LinkInv, GivesUpDead, Unlinked, boardVars, Awaits
  <1>3. NothingLeft'
    BY <1>1 DEF LinkInv, NothingLeft, boardVars
  <1>4. OwnAnswer'
    BY <1>1 DEF LinkInv, OwnAnswer, boardVars, Awaits
  <1>5. Owed' = Owed
    BY <1>1 DEF Owed, Awaits
  <1>6. Paired'
    BY <1>1, <1>5 DEF LinkInv, Paired, boardVars
  <1>7. QED BY <1>2, <1>3, <1>4, <1>6 DEF LinkInv

\* The USB side: an answer moves from the wire to the field's handle, unplugging
\* empties the wire and kills the link, the finalizer spares what is in use.
LEMMA EnvironmentLink ==
    ASSUME IInv, LinkInv, MainEnvironment
    PROVE  LinkInv'
  <1> USE LinkTypes DEF MainEnvironment, Environment, updaterVars, frameVars, Awaits
  <1>0. cpuMeter \in Referenced /\ held[Worker] \in Referenced
    BY DEF Referenced
  <1>1. CASE Plug
    BY <1>1 DEF Plug, LinkInv, GivesUpDead, NothingLeft, OwnAnswer, Paired, Unlinked, Owed
  <1>2. CASE Unplug
    BY <1>2 DEF Unplug, LinkInv, GivesUpDead, NothingLeft, OwnAnswer, Paired, Unlinked
  <1>3. CASE Finalize(Referenced)
    BY <1>0, <1>3 DEF Finalize, LinkInv, GivesUpDead, NothingLeft, OwnAnswer, Paired,
                      Unlinked, Owed
  <1>4. CASE Answer(Referenced)
    <2>1. cpuMeter \in alive /\ queue[cpuMeter] = <<>> /\ wire = Owed /\ Owed # <<>>
      BY <1>4 DEF Answer, LinkInv, NothingLeft, Paired
    <2>2. PICK k \in Keys : Owed = <<k>>
      BY <2>1, BoardAssumption DEF Owed
    <2>3. wire' = <<>> /\ queue'[cpuMeter] = <<k>> /\ Owed' = Owed
      <3>1. queue'[cpuMeter] = Append(queue[cpuMeter], Head(wire)) /\ wire' = Tail(wire)
        BY <1>0, <1>4, <2>1 DEF Answer
      <3>2. Append(<<>>, Head(<<k>>)) = <<k>> /\ Tail(<<k>>) = <<>>
        OBVIOUS
      <3>3. Owed' = Owed
        BY <1>4 DEF Owed
      <3>4. QED BY <2>1, <2>2, <3>1, <3>2, <3>3
    <2>4. Paired'
      BY <2>2, <2>3 DEF Paired
    <2>5. GivesUpDead' /\ NothingLeft'
      <3>1. ~Unlinked /\ Unlinked' = Unlinked
        BY <2>1 DEF LinkInv, GivesUpDead, Unlinked
      <3>2. call[Worker] # "assign"
        BY <3>1 DEF Unlinked, IInv, LoopInv, FrameTypeOK, Steps, Inside
      <3>3. UNCHANGED alive
        BY <1>4 DEF Answer
      <3>4. QED BY <2>1, <3>1, <3>2, <3>3 DEF GivesUpDead, NothingLeft
    <2>6. OwnAnswer'
      BY <1>4, <2>2, <2>3 DEF Answer, LinkInv, OwnAnswer, Owed, Inside
    <2>7. QED BY <2>4, <2>5, <2>6 DEF LinkInv
  <1>5. QED BY <1>1, <1>2, <1>3, <1>4

LEMMA FaultsStay ==
    ASSUME IInv, [Next]_vars, Faultless' PROVE Faultless
  <1>1. faults \in Nat /\ restarts \in Nat
    BY BoardAssumption, MainFrameAssumption
       DEF IInv, UInv, UpdaterTypeOK, BoardTypeOK, FrameTypeOK
  <1>2. ASSUME NEW t \in Threads, UpdaterStep(t) PROVE faults' >= faults
    BY <1>1, <1>2 DEF UpdaterStep, OpenById, OpenReturns, OpenReturnsNull,
       OpenThrowsNotFound, OpenThrowsNPE, Assign, Enter, Write, WriteReturns,
       WriteThrows, Fetch, Read, ReadReturns, ReadThrows, Glitch, boardVars
  <1>3. faults' >= faults
    BY <1>1, <1>2, TwoThreads DEF Next, WorkerNext, GetCpuData, GetCpuDataThrows,
       ConnectReturns, PushReturns, CatchException, PostBars, Wake, EDTNext, Click,
       RunBars, RunButton, ButtonEnds, Restart, CloseAll, MainEnvironment,
       Environment, Plug, Unplug, Answer, Finalize, Glitch, vars, boardVars
  <1>4. restarts' >= restarts
    BY <1>1 DEF Next, WorkerNext, GetCpuData, GetCpuDataThrows,
       ConnectReturns, PushReturns, CatchException, PostBars, Wake, EDTNext, Click,
       RunBars, RunButton, ButtonEnds, Restart, MainEnvironment, vars, frameVars
  <1>5. QED BY <1>1, <1>3, <1>4 DEF Faultless

LEMMA TransferInvariant == Spec => []TransferInv
  <1>1. TransferInv /\ [Next]_vars => TransferInv'
    <2> SUFFICES ASSUME TransferInv, [Next]_vars PROVE TransferInv'
      OBVIOUS
    <2> USE DEF TransferInv
    <2>1. IInv' /\ HandlesOpen' /\ HeldInCall'
      BY NextInv, HandlesOpenStep, HeldInCallStep
    <2>2. Faultless' => Faultless
      BY FaultsStay
    <2>3. SUFFICES ASSUME Faultless, Faultless', LinkInv PROVE LinkInv'
      BY <2>1, <2>2
    <2>4. CASE MainEnvironment
      BY <2>3, <2>4, EnvironmentLink
    <2>5. ASSUME NEW t \in Threads, UpdaterStep(t), UNCHANGED frameVars PROVE LinkInv'
      <3>1. OpenById(t) \/ Assign(t) => t = Worker
        BY LinkTypes DEF IInv, LoopInv, OpenById, Assign
      <3>2. QED
        BY <2>3, <2>5, <3>1, OpenLink, AssignLink, EnterLink, WriteLink, FetchLink,
           ReadLink DEF UpdaterStep
    <2>6. CASE WorkerNext
      <3>1. CASE UpdaterStep(Worker) /\ UNCHANGED frameVars
        BY <2>5, <3>1, TwoThreads
      <3>2. QED BY <2>3, <2>6, <3>1, WorkerLink
    <2>7. CASE EDTNext \/ Click
      <3>1. CASE UpdaterStep(EDT) /\ UNCHANGED frameVars
        BY <2>5, <3>1, TwoThreads
      <3>2. QED BY <2>3, <2>7, <3>1, EDTLink
    <2>8. ~Restart
      BY <2>3, MainFrameAssumption DEF Restart, Faultless
    <2>9. CASE UNCHANGED vars
      BY <2>3, <2>9 DEF vars, boardVars, updaterVars, frameVars, LinkInv, GivesUpDead,
           NothingLeft, OwnAnswer, Paired, Unlinked, Owed, Awaits
    <2>10. QED BY <2>4, <2>6, <2>7, <2>8, <2>9 DEF Next
  <1>2. QED BY <1>1, LinkStarts, PTL DEF Spec

\* While no call fails on a plugged board and the program is not relaunched,
\* frames and answers stay in step through any unplugging and reconnecting.
THEOREM FramesInStep == Spec => []InStep
  <1>1. TransferInv => InStep
    <2> SUFFICES ASSUME TransferInv, Faultless, cpuMeter \in alive
                 PROVE  queue[cpuMeter] \o wire = Owed
      BY DEF InStep, Owed, Awaits, Faultless
    <2>1. Owed \in Seq(Keys) /\ queue[cpuMeter] \in Seq(Keys) /\ wire \in Seq(Keys)
      <3>1. monitor # NoThread => EchoOf[frame[monitor]] \in Keys
        BY LinkTypes, BoardAssumption DEF TransferInv
      <3>2. QED BY <3>1, LinkTypes DEF Owed, TransferInv
    <2>2. Owed \o <<>> = Owed /\ <<>> \o Owed = Owed
      BY <2>1
    <2>3. QED BY <2>1, <2>2 DEF TransferInv, LinkInv, Paired
  <1>2. QED BY <1>1, TransferInvariant, PTL

\* Every answer that is read until then is the one to the reader's own frame.
THEOREM AnswersMatch == Spec => []NoMismatch
  <1>1. TransferInv => NoMismatch
    BY DEF TransferInv, LinkInv, OwnAnswer, NoMismatch, Faultless
  <1>2. QED BY <1>1, TransferInvariant, PTL

\* And nobody replaces the field between another thread's write and its read.
THEOREM NoSwap == Spec => NoSwapInTransfer
  <1>1. TransferInv /\ [Next]_vars =>
          [\A t \in Threads :
             faults = 0 /\ restarts = 0 /\ call[t] = "fetch" /\ call'[t] = "fetch"
                => cpuMeter' = cpuMeter]_vars
    <2> SUFFICES ASSUME TransferInv, Next, NEW t \in Threads, Faultless,
                        call[t] = "fetch", call'[t] = "fetch"
                 PROVE  cpuMeter' = cpuMeter
      BY DEF Faultless
    <2> USE LinkTypes DEF TransferInv
    <2>1. ASSUME NEW u \in Threads, UpdaterStep(u) PROVE cpuMeter' = cpuMeter
      <3>1. ~Assign(u)
        <4>1. SUFFICES ASSUME Assign(u) PROVE FALSE
          OBVIOUS
        <4>2. u = Worker /\ call[Worker] = "assign" /\ t = EDT
          BY <4>1 DEF Assign, IInv, LoopInv
        <4>3. Unlinked
          BY <4>2 DEF Unlinked, IInv, LoopInv, FrameTypeOK, Steps, Inside
        <4>4. QED BY <4>2, <4>3 DEF LinkInv, GivesUpDead, Awaits
      <3>2. QED
        BY <2>1, <3>1 DEF UpdaterStep, OpenById, Enter, Write, Fetch, Read
    <2>2. ~Restart
      BY DEF Restart
    <2>3. CASE WorkerNext /\ ~(UpdaterStep(Worker) /\ UNCHANGED frameVars)
      BY <2>3 DEF WorkerNext, GetCpuData, GetCpuDataThrows, ConnectReturns,
         PushReturns, CatchException, PostBars, Wake, Push, Connect, updaterVars
    <2>4. CASE EDTNext \/ Click
      BY <2>1, <2>4 DEF EDTNext, Click, RunBars, RunButton, ButtonEnds, Push, updaterVars
    <2>5. CASE MainEnvironment
      BY <2>5 DEF MainEnvironment, Environment, updaterVars
    <2>6. QED BY <2>1, <2>2, <2>3, <2>4, <2>5 DEF Next
  <1>2. QED BY <1>1, TransferInvariant, PTL DEF NoSwapInTransfer, Spec
=============================================================================
