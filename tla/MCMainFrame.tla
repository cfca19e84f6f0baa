----------------------------- MODULE MCMainFrame -----------------------------
(***************************************************************************)
(* Small instances of ReCoMonBMainFrame: one or two frames of the worker   *)
(* with different reports, one button whose report differs from both,      *)
(* three handles (the field's, one blocked in a read, one being opened).   *)
(***************************************************************************)
EXTENDS ReCoMonBMainFrame, TLC

CONSTANTS h1, h2, h3, cpu1, cpu2, M

MCHandles      == {h1, h2, h3}
MCThreads      == {Worker, EDT}
MCFrames       == WorkerFrames \cup ButtonFrames
MCEchoOf       == [f \in MCFrames |-> f]

\* The runs of the liveness properties: a button is clicked, or the program is
\* relaunched and a call fails on a plugged board.  Both together: swapped_handle.
\* One report of the worker is enough beside that of a button.
ClicksOrFaults ==
    /\ clicks > 0 => faults + restarts = 0 /\ frame[Worker] = cpu1
    /\ frame[EDT] = M

HandleSymmetry == Permutations(MCHandles)
=============================================================================
