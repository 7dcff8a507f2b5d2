--------------------------- MODULE MCBenchmarkArm ---------------------------
(***************************************************************************)
(* Instances of BenchmarkArm: the order of execute_benchmarks, with one    *)
(* channel in a single_* arm and two in a hedged_* arm.                    *)
(***************************************************************************)
EXTENDS BenchmarkArm

Arm(n, load) == [channels |-> n, stress |-> load]
MCQuietThenStress == <<Arm(2, FALSE), Arm(1, TRUE), Arm(2, TRUE)>>
MCHedgedQuiet == <<Arm(2, FALSE)>>
=============================================================================
