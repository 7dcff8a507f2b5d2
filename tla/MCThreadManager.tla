-------------------------- MODULE MCThreadManager --------------------------
(***************************************************************************)
(* Instances of ThreadManager: a hybrid processor with two two-way SMT     *)
(* cores and one core without SMT.                                         *)
(***************************************************************************)
EXTENDS ThreadManager, TLC

CONSTANTS t0, t1, t2, t3, t4, p0, p1, e0

MCThreads == {t0, t1, t2, t3, t4}
MCCores == {p0, p1, e0}
MCCoreOf == (t0 :> p0) @@ (t1 :> p0) @@ (t2 :> p1) @@ (t3 :> p1) @@ (t4 :> e0)
=============================================================================
