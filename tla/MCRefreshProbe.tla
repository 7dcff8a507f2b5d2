--------------------------- MODULE MCRefreshProbe ---------------------------
(* Five reads, gaps whose sums fall on and beside the edges of the bands and  *)
(* of the histogram for T = 20, a vector that fills up after four spikes.     *)
EXTENDS RefreshProbe

MCProbeCounts == {-1, 0, 5}
MCThresholds == {0, 2}
MCExpectedCycles == {0, 20}
MCLatencies == {2, 3}
MCGaps == {6, 17, 24}
=============================================================================
