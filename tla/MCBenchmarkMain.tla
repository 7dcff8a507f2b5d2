--------------------------- MODULE MCBenchmarkMain ---------------------------
(***************************************************************************)
(* Small machines and command lines for BenchmarkMain.                     *)
(***************************************************************************)
EXTENDS BenchmarkMain

\* One arm, which is what --arm selects; nothing; and --all.
MCOneArm == {{}, {1}, {2}, {3}, {4}}
MCAll == {{1, 2, 3, 4}}

\* Six cores with two threads each.
MCTwoThreads == <<0, 6>>

MCStress == {-1, 0, 2, 4, 30}
=============================================================================
