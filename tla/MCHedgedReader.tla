--------------------------- MODULE MCHedgedReader ---------------------------
(***************************************************************************)
(* A small instance of HedgedReader: a page of 16 elements in chunks of 4, *)
(* so that 8 elements per replica fit.                                     *)
(***************************************************************************)
EXTENDS HedgedReader

MCAttempts == {16, 24}

\* The instance is one that HedgedReaderProofs speaks of.
ASSUME MCAssumption == ChunkIsPowerOfTwo
=============================================================================
