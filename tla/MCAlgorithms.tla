------------------------------ MODULE MCAlgorithms ------------------------------
(***************************************************************************)
(* The pure algorithms of the browser's code for TLC.                      *)
(***************************************************************************)
EXTENDS MapAlgo, AnalyticsAlgo, PagesAlgo, PacketFilter, HopResolve

MCChartValues == {-20, 0, 5, 12}

\* One computation and no more: the guard spares TLC the inputs of the
\* others once a result is there.
MCAlgorithmsNext == alg = "none" /\ (MapAlgoNext \/ ChartsNext \/ AnalyticsTablesNext \/ PrefixToolNext \/ NodesAlgoNext \/ PagesAlgoNext
  \/ PacketFilterNext \/ HopResolveNext \/ AnalyticsViewsNext)
MCAlgorithmsSpec == AlgoInit /\ [][MCAlgorithmsNext]_algVars
================================================================================
