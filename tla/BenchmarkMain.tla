---------------------------- MODULE BenchmarkMain ----------------------------
(***************************************************************************)
(* One run of the benchmark (benchmark/source/main.cpp and                 *)
(* app_config.cpp): the command line, the environment, the memory, the     *)
(* processors for the arms, the arms themselves, and the clean-up.         *)
(*                                                                         *)
(* The thread manager appears as what this code uses of it: how many whole *)
(* cores of each size and how many single threads of opened cores are      *)
(* free (ThreadManager shows that its counters agree with them).  Pages    *)
(* are counted in SUPERPAGE_SIZE.                                          *)
(***************************************************************************)
EXTENDS Integers, Sequences, FiniteSets

CONSTANTS NDEBUG,        \* assertions compiled out
          Machine,       \* number of cores with 1 and with 2 threads
          ArmChoices,    \* the sets of arms the command line may ask for
          ChannelChoices, StressChoices,  \* --channels, --stress-threads
          MaxPages       \* bound on the contiguous region, in pages

\* The arms by the flags of AppConfig, in the order execute_benchmarks runs them.
Arms == << [hedged |-> FALSE, load |-> FALSE], [hedged |-> TRUE, load |-> FALSE],
           [hedged |-> FALSE, load |-> TRUE],  [hedged |-> TRUE, load |-> TRUE] >>

CoreSizes == 1 .. 2

ASSUME MainAssumption ==
  /\ NDEBUG \in BOOLEAN
  /\ Machine \in [CoreSizes -> Nat]
  /\ ArmChoices \subseteq SUBSET (1 .. 4)
  /\ ChannelChoices \subseteq Nat \ {0} /\ StressChoices \subseteq Int
  /\ MaxPages \in Nat

VARIABLES pc,
          arms,                  \* the flags, as the set of their positions
          n_channels, n_stress,
          fresh, loose,          \* free whole cores by size; free single threads
          vmm, privilege,        \* g_initVMM # nullptr; the token
          memory,                \* the allocation: "none", "live" or "freed"
          virtaddr,              \* m_memory.virtaddr # nullptr
          region,                \* pages of m_physContigMem
          replicaPage, stressPage,
          checked,               \* the utilisation check was passed
          channelCores, stressThreads,  \* handles: TRUE, or FALSE for the sentinel
          ran                    \* the arms run so far

config == <<arms, n_channels, n_stress>>
threads == <<fresh, loose>>
environment == <<vmm, privilege>>
pages == <<memory, virtaddr, region, replicaPage, stressPage>>
handles == <<checked, channelCores, stressThreads>>
vars == <<pc, config, threads, environment, pages, handles, ran>>

Goto(from, to) == pc = from /\ pc' = to

Loaded == \E a \in arms : Arms[a].load
freeCores == fresh[1] + fresh[2]
freeThreads == loose + fresh[1] + 2 * fresh[2]
logicalCoreCount == Machine[1] + 2 * Machine[2]

Init ==
  /\ pc = "parse"
  /\ arms \in ArmChoices /\ n_channels \in ChannelChoices /\ n_stress \in StressChoices
  /\ fresh = Machine /\ loose = 0
  /\ vmm = FALSE /\ privilege = FALSE
  /\ memory = "none" /\ virtaddr = FALSE /\ region = 0
  /\ replicaPage = FALSE /\ stressPage = FALSE
  /\ checked = FALSE /\ channelCores = <<>> /\ stressThreads = <<>>
  /\ ran = <<>>

------------------------------------------------------------------------------
\* n_stress is an int compared with an unsigned count, so a negative one is large.
ClampStress(n) == IF n < 0 \/ n > logicalCoreCount THEN logicalCoreCount ELSE n

\* parse_cli, up to the processor of the main thread.
ParseCli ==
  /\ Goto("parse", "environment") /\ arms # {}
  /\ n_stress' = IF Loaded THEN ClampStress(n_stress) ELSE 0
  /\ \E size \in CoreSizes :
       fresh[size] > 0 /\ fresh' = [fresh EXCEPT ![size] = @ - 1]
  /\ UNCHANGED <<arms, n_channels, loose, environment, pages, handles, ran>>

\* No arm, or no information on the processors: std::exit.
ParseFails ==
  /\ Goto("parse", "exit")
  /\ UNCHANGED <<config, threads, environment, pages, handles, ran>>

\* setup_environment makes all five calls and then looks at their results.
SetupEnvironment ==
  /\ pc = "environment"
  /\ vmm' \in BOOLEAN /\ privilege' \in BOOLEAN
  /\ pc' \in (IF vmm' /\ privilege' THEN {"memory", "cleanup"} ELSE {"cleanup"})
  /\ UNCHANGED <<config, threads, pages, handles, ran>>

------------------------------------------------------------------------------
RequestWithoutLoad == 1   \* mutant: the stress page is not asked for
Request == IF Loaded THEN 2 ELSE 1

\* setup_memory: allocateLargePageMin returns contiguous memory or nothing.
SetupMemoryFails ==
  /\ Goto("memory", "cleanup")
  /\ UNCHANGED <<config, threads, environment, pages, handles, ran>>

SetupMemory ==
  /\ Goto("memory", "replicas")
  /\ region' \in Request .. MaxPages
  /\ memory' = "live" /\ virtaddr' = TRUE
  /\ replicaPage' = TRUE /\ stressPage' = Loaded
  /\ UNCHANGED <<config, threads, environment, handles, ran>>

\* setup_replica_page cannot translate an address, and setup_memory frees.
SetupReplicasFails ==
  /\ Goto("replicas", "cleanup")
  /\ replicaPage' = FALSE /\ memory' = "freed"
  /\ UNCHANGED <<config, threads, environment, virtaddr, region, stressPage,
                 handles, ran>>

SetupReplicas ==
  /\ Goto("replicas", "check")
  /\ UNCHANGED <<config, threads, environment, pages, handles, ran>>

------------------------------------------------------------------------------
(* execute_benchmarks *)

OneChannel == 1   \* mutant: the hedged arms are forgotten
channelsToBenchmark ==
  IF \E a \in arms : ~Arms[a].hedged THEN 1 ELSE n_channels

\* mutant: the two outcomes of the condition swapped.
StressSwapped ==
  IF \E a \in arms : Arms[a].load THEN 0 ELSE n_stress

stressThreadsToUse ==
  IF \E a \in arms : ~Arms[a].load THEN 0 ELSE n_stress

\* mutant: a channel is counted as one thread.
UtilisationByThreads ==
  channelsToBenchmark + stressThreadsToUse + 1 < freeThreads

\* floor(channels * freeThreads / freeCores + stress + 1) < freeThreads.  Without
\* a free core there is no free thread either, and nothing is less than that.
UtilisationFits ==
  /\ freeCores > 0
  /\ channelsToBenchmark * freeThreads + (stressThreadsToUse + 1) * freeCores
       < freeThreads * freeCores

CheckUtilisation ==
  /\ pc = "check"
  /\ checked' = UtilisationFits
  /\ pc' = IF UtilisationFits \/ NDEBUG THEN "allocate" ELSE "aborted"
  /\ UNCHANGED <<config, threads, environment, pages, channelCores, stressThreads, ran>>

success == /\ \A k \in DOMAIN channelCores : channelCores[k]
           /\ \A k \in DOMAIN stressThreads : stressThreads[k]

\* allocateProcessor takes a whole core, of any size.
AllocateChannel ==
  /\ pc = "allocate" /\ success /\ Len(channelCores) < channelsToBenchmark
  /\ \/ \E size \in CoreSizes :
          /\ fresh[size] > 0
          /\ fresh' = [fresh EXCEPT ![size] = @ - 1]
          /\ channelCores' = Append(channelCores, TRUE)
     \/ /\ freeCores = 0
        /\ channelCores' = Append(channelCores, FALSE)
        /\ UNCHANGED fresh
  /\ UNCHANGED <<pc, config, loose, environment, pages, checked, stressThreads, ran>>

\* allocateThread prefers the threads of opened cores and opens one otherwise.
AllocateStress ==
  /\ pc = "allocate" /\ success
  /\ Len(channelCores) = channelsToBenchmark
  /\ Len(stressThreads) < stressThreadsToUse
  /\ \/ /\ loose > 0
        /\ loose' = loose - 1
        /\ stressThreads' = Append(stressThreads, TRUE)
        /\ UNCHANGED fresh
     \/ /\ loose = 0
        /\ \E size \in CoreSizes :
             /\ fresh[size] > 0
             /\ fresh' = [fresh EXCEPT ![size] = @ - 1]
             /\ loose' = size - 1
        /\ stressThreads' = Append(stressThreads, TRUE)
     \/ /\ loose = 0 /\ freeCores = 0
        /\ stressThreads' = Append(stressThreads, FALSE)
        /\ UNCHANGED threads
  /\ UNCHANGED <<pc, config, environment, pages, checked, channelCores, ran>>

AllocationEnds ==
  /\ pc = "allocate"
  /\ \/ ~success
     \/ /\ Len(channelCores) = channelsToBenchmark
        /\ Len(stressThreads) = stressThreadsToUse
  /\ pc' = IF success \/ NDEBUG THEN "arms" ELSE "aborted"
  /\ UNCHANGED <<config, threads, environment, pages, handles, ran>>

\* run_arm of the next arm: it reads one entry of channelCores per replica it is
\* given, and starts the stress threads of the arms that pass them.
RunArm ==
  /\ pc = "arms"
  /\ \E a \in arms :
       /\ \A r \in DOMAIN ran : ran[r].arm < a
       /\ \A b \in arms : b < a => \E r \in DOMAIN ran : ran[r].arm = b
       /\ ran' = Append(ran, [arm |-> a,
                              channels |-> IF Arms[a].hedged THEN n_channels ELSE 1,
                              stress |-> IF Arms[a].load THEN Len(stressThreads) ELSE 0])
  /\ UNCHANGED <<pc, config, threads, environment, pages, handles>>

BenchmarksEnd ==
  /\ Goto("arms", "cleanup") /\ Len(ran) = Cardinality(arms)
  /\ UNCHANGED <<config, threads, environment, pages, handles, ran>>

------------------------------------------------------------------------------
DestroyKeepingMemory ==   \* mutant: only the environment is undone
  /\ Goto("cleanup", "exit")
  /\ vmm' = FALSE /\ privilege' \in {FALSE, privilege}
  /\ UNCHANGED <<config, threads, pages, handles, ran>>

\* destroy_environment.  Where setup_memory has freed already, virtaddr still points
\* there and freeLargePage is called again.  The result of removing the privilege is
\* not looked at.
DestroyEnvironment ==
  /\ Goto("cleanup", "exit")
  /\ memory' = IF virtaddr THEN "freed" ELSE memory
  /\ vmm' = FALSE /\ privilege' \in {FALSE, privilege}
  /\ UNCHANGED <<config, threads, virtaddr, region, replicaPage, stressPage, handles, ran>>

Next ==
  \/ ParseCli \/ ParseFails \/ SetupEnvironment
  \/ SetupMemoryFails \/ SetupMemory \/ SetupReplicasFails \/ SetupReplicas
  \/ CheckUtilisation \/ AllocateChannel \/ AllocateStress \/ AllocationEnds
  \/ RunArm \/ BenchmarksEnd
  \/ DestroyEnvironment

Spec == Init /\ [][Next]_vars

------------------------------------------------------------------------------
TypeOK ==
  /\ n_stress \in 0 .. logicalCoreCount \/ pc \in {"parse", "exit"}
  /\ fresh \in [CoreSizes -> Nat] /\ loose \in 0 .. 1
  /\ memory \in {"none", "live", "freed"}
  /\ channelCores \in Seq(BOOLEAN) /\ stressThreads \in Seq(BOOLEAN)
  /\ pc \in {"parse", "environment", "memory", "replicas", "check", "allocate",
             "arms", "cleanup", "exit", "aborted"}

\* An arm uses only handles that execute_benchmarks obtained, all of real threads:
\* "1 core", "1 + n_channels cores" (main.cpp, lines 304 and 313).
EveryChannelHasACore ==
  \A r \in DOMAIN ran : \A c \in 1 .. ran[r].channels :
    c \in DOMAIN channelCores /\ channelCores[c]

\* A quiet arm runs without load, and a stress arm with the load asked for, in a page
\* of its own: "1 + n_stress" (main.cpp, lines 322 and 331).
LoadMatchesArm ==
  \A r \in DOMAIN ran :
    IF Arms[ran[r].arm].load THEN ran[r].stress = n_stress /\ stressPage
    ELSE ran[r].stress = 0

\* The replica page and the stress page lie inside the contiguous memory that was
\* found (main.cpp, lines 179-183 and 220-225).
PagesInsideRegion ==
  (replicaPage => region >= 1) /\ (stressPage => region >= 2)

\* What the utilisation check lets through can be allocated (main.cpp, 280-300).
CheckSuffices == checked => success

\* When main returns neither the large pages nor the reader of physical memory
\* are held, whichever step failed (main.cpp, lines 71-85 and 239-242).
ReleasedAtExit == pc = "exit" => memory # "live" /\ ~vmm

==============================================================================
