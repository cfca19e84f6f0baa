---------------------------- MODULE MCSmallParts ----------------------------
(***************************************************************************)
(* Three small parts of the program that share no state: the holder of the *)
(* measurements, one row of the matrix, and the loads of the cores. A      *)
(* behaviour is that of one of them, chosen at the start, while the others *)
(* rest.                                                                   *)
(***************************************************************************)
EXTENDS MeasurementHistory, LEDBar, CpuCores

VARIABLE part
smallVars == <<part, holderVars, barVars, coreVars>>

SmallInit == /\ part \in {"holder", "row", "cores"}
             /\ HistoryInit /\ BarInit /\ CoresInit
             /\ part # "row" => d = 0 /\ colors = <<White, Black>>
             /\ part # "cores" => online = 1

SmallNext ==
  /\ UNCHANGED part
  /\ \/ part = "holder" /\ HistoryNext /\ UNCHANGED <<barVars, coreVars>>
     \/ part = "row" /\ Sample /\ UNCHANGED <<holderVars, coreVars>>
     \/ part = "cores" /\ CoresNext /\ UNCHANGED <<holderVars, barVars>>

\* The worker keeps sampling the loads, not all samples fail, and the EDT runs.
InCores(A) == part = "cores" /\ A
SmallSpec == /\ SmallInit /\ [][SmallNext]_smallVars
             /\ WF_coreVars(InCores(GetAllCoresLoadThrows))
             /\ WF_coreVars(InCores(GetAllCoresLoad /\ posted'))
             /\ WF_coreVars(InCores(Refresh))

\* Measurements around zero, and limits the log outgrows several times
MCValues == {-3, 0, 2, 7}

\* Readings from below zero to above the scale, in sevenths and in percent of it,
\* and 0 / 0: the bars of ByteColumnTest are among them.
MCReadings == -30..130
MCScales == {0, 7, 100}
MCPairs == {<<White, Black>>, <<White, Red>>, <<Yellow, Green>>}
=============================================================================
