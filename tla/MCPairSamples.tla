--------------------------- MODULE MCPairSamples ---------------------------
(***************************************************************************)
(* Small instances of PairSamples: timestamps and latencies from short     *)
(* ranges, with a gap that some of the timestamps' differences reach and   *)
(* that keeps the zeros of a failed channel apart from all of them.        *)
(***************************************************************************)
EXTENDS PairSamples

MCTimestamps == 4 .. 9
MCLatencies == 1 .. 2
=============================================================================
