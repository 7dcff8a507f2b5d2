------------------------------ MODULE Pinning ------------------------------
(***************************************************************************)
(* Threads that pin themselves to the processors the program gave them:    *)
(* SetCurrentThreadProcessorID (tailslayer/utilities.hpp) as setup_        *)
(* environment, measurement_thread and stress_thread call it, with the     *)
(* core ID of a LogicalProcessor that the vector of Topology describes.    *)
(***************************************************************************)
EXTENDS Topology

VARIABLE pinned  \* for each element of m_proc given to a thread, what the thread may run on

PinInit == Init /\ pinned = [i \in {} |-> {}]

\* DWORD_PTR affinityMask = 1 << core_id: an int is shifted by core_id modulo 32, and
\* the sign of the result fills the upper half of the mask.
AffinityMask(core_id) ==
  IF core_id % 32 = 31 THEN 31 .. 63 ELSE {core_id % 32}

\* The mask is about the group of the calling thread; a processor in it that the
\* process may not use makes the call fail, and the thread stays where it was.
MayRunOn(core_id) ==
  LET mask == {<<primary, b>> : b \in AffinityMask(core_id)}
  IN IF mask \subseteq runnable THEN mask ELSE runnable

\* allocateProcessor gives every caller a core of its own.
SetCurrentThreadProcessorID(i) ==
  /\ pc = "idle"
  /\ \A j \in DOMAIN pinned :
       uniqueCoreID(config.proc[i]) # uniqueCoreID(config.proc[j])
  /\ pinned' = [j \in DOMAIN pinned \cup {i} |->
                  IF j = i THEN MayRunOn(config.proc[i].coreID) ELSE pinned[j]]
  /\ UNCHANGED vars

PinNext ==
  \/ /\ initialize \/ QueryFails \/ Query \/ Scan \/ Emit \/ NextEntry \/ AssignPackages
        \/ Finish
     /\ UNCHANGED pinned
  \/ \E i \in DOMAIN config.proc : SetCurrentThreadProcessorID(i)

PinSpec == PinInit /\ [][PinNext]_<<vars, pinned>>

-----------------------------------------------------------------------------
\* Where the process may use the whole machine, threads that were given different
\* physical cores, each pinned to one processor, are on different physical cores
\* (benchmark/source/main.cpp, line 287).
CoresNotShared ==
  runnable = Machine =>
    \A i, j \in DOMAIN pinned : \A p \in pinned[i], q \in pinned[j] :
      i # j /\ pinned[i] = {p} /\ pinned[j] = {q} => ~Together(Cores(buffer), p, q)
=============================================================================
