------------------------- MODULE BenchmarkMainProofs -------------------------
(***************************************************************************)
(* The safety properties of BenchmarkMain: what it releases and where its  *)
(* pages lie for every command line and machine; what its arms get for     *)
(* every machine, number of channels and of stress threads, where          *)
(* assertions are compiled in and one arm is asked for at a time (with     *)
(* --all the arms do not get what they need); and that a machine which     *)
(* passes the utilisation check is large enough, where all cores have the  *)
(* same number of threads.                                                 *)
(***************************************************************************)
EXTENDS BenchmarkMain, TLAPS

OneArmAtATime == ~NDEBUG /\ \A choice \in ArmChoices : \A a, b \in choice : a = b

------------------------------------------------------------------------------
(* The pages and the environment *)

\* The memory is held only from its set-up on, and what is held is known by its address.
Resources ==
  /\ pc \in {"parse", "environment"} => ~vmm
  /\ memory = "live" => virtaddr
  /\ pc \in {"parse", "environment", "memory"} => memory = "none"
  /\ PagesInsideRegion
  /\ ReleasedAtExit

\* Before the command line is read there is nothing to release.
LEMMA InitResources == Init => Resources
BY DEF Init, Resources, PagesInsideRegion, ReleasedAtExit

\* Every step, and every exit, keeps track of what is held.
LEMMA NextResources == Resources /\ [Next]_vars => Resources'
<1> SUFFICES ASSUME Resources, [Next]_vars PROVE Resources'
  OBVIOUS
<1> USE DEF Resources, PagesInsideRegion, ReleasedAtExit, Goto, environment, pages
<1>1. CASE ParseCli \/ ParseFails
  BY <1>1 DEF ParseCli, ParseFails
<1>2. CASE SetupEnvironment
  BY <1>2 DEF SetupEnvironment
<1>3. CASE SetupMemoryFails
  BY <1>3 DEF SetupMemoryFails
<1>4. CASE SetupMemory
  BY <1>4, MainAssumption DEF SetupMemory, Request
<1>5. CASE SetupReplicasFails \/ SetupReplicas
  BY <1>5 DEF SetupReplicasFails, SetupReplicas
<1>6. CASE CheckUtilisation
  BY <1>6 DEF CheckUtilisation
<1>7. CASE AllocateChannel \/ AllocateStress
  <2>1. UNCHANGED <<pc, environment, pages>>
    BY <1>7 DEF AllocateChannel, AllocateStress
  <2> QED BY <2>1
<1>8. CASE AllocationEnds
  BY <1>8 DEF AllocationEnds
<1>9. CASE RunArm \/ BenchmarksEnd
  BY <1>9 DEF RunArm, BenchmarksEnd
<1>10. CASE DestroyEnvironment
  BY <1>10 DEF DestroyEnvironment
<1>11. CASE UNCHANGED vars
  BY <1>11 DEF vars
<1> QED
  BY <1>1, <1>2, <1>3, <1>4, <1>5, <1>6, <1>7, <1>8, <1>9, <1>10, <1>11 DEF Next

\* What is held is known throughout, for every command line and machine.
THEOREM MainResources == Spec => []Resources
BY InitResources, NextResources, PTL DEF Spec

\* When main returns, neither the large pages nor the reader of physical memory is still
\* held, whichever step failed (main.cpp, lines 71-85 and 239-242).
THEOREM MainReleasedAtExit == Spec => []ReleasedAtExit
BY MainResources, PTL DEF Resources

\* The replica page and the stress page lie inside the memory that was found (main.cpp,
\* lines 179-183 and 220-225).
THEOREM MainPagesInsideRegion == Spec => []PagesInsideRegion
BY MainResources, PTL DEF Resources

------------------------------------------------------------------------------
(* What the arms get *)

Types ==
  /\ channelCores \in Seq(BOOLEAN) /\ stressThreads \in Seq(BOOLEAN)
  /\ arms \in ArmChoices /\ arms \subseteq 1 .. 4 /\ n_channels \in Nat

ArmRecord == [arm : 1 .. 4, channels : Nat, stress : Nat]

\* The stress page exists from the set-up of memory on, if an arm asks for it; the arms
\* run once everything they need was allocated, and nothing of it changes then.
ReadyForArms ==
  /\ pc \in {"replicas", "check", "allocate", "arms"} => stressPage = Loaded
  /\ pc = "arms" => /\ success
                    /\ Len(channelCores) = channelsToBenchmark
                    /\ Len(stressThreads) = stressThreadsToUse
  /\ pc \notin {"arms", "cleanup", "exit"} => ran = <<>>

ArmsInv ==
  /\ Types /\ ReadyForArms
  /\ ran \in Seq(ArmRecord)
  /\ EveryChannelHasACore /\ LoadMatchesArm

\* Before the command line is read no arm has run.
LEMMA InitArms == Init => ArmsInv
BY MainAssumption DEF Init, ArmsInv, Types, ReadyForArms, EveryChannelHasACore,
     LoadMatchesArm

\* Steps that leave the arms' needs and results alone.
LEMMA ArmsUntouched ==
  ASSUME ArmsInv, UNCHANGED <<arms, n_channels, channelCores, stressThreads, ran>>,
         (n_stress' = n_stress /\ stressPage' = stressPage) \/ ran = <<>>,
         ReadyForArms'
  PROVE  ArmsInv'
BY DEF ArmsInv, Types, EveryChannelHasACore, LoadMatchesArm

\* Every step keeps the invariant of the arms.
LEMMA NextArms ==
  ASSUME OneArmAtATime, ArmsInv, [Next]_vars
  PROVE  ArmsInv'
<1> USE DEF ArmsInv
<1>1. CASE ParseCli
  <2>1. UNCHANGED <<arms, n_channels, channelCores, stressThreads, ran>>
        /\ pc = "parse" /\ pc' = "environment"
    BY <1>1 DEF ParseCli, Goto, handles
  <2>2. ran = <<>>
    BY <2>1 DEF ReadyForArms
  <2>3. ReadyForArms'
    BY <2>1, <2>2 DEF ReadyForArms
  <2> QED BY <2>1, <2>2, <2>3, ArmsUntouched
<1>2. CASE SetupMemory
  <2>1. UNCHANGED <<arms, n_channels, channelCores, stressThreads, ran>>
        /\ pc = "memory" /\ pc' = "replicas" /\ stressPage' = Loaded
    BY <1>2 DEF SetupMemory, Goto, handles, config
  <2>2. ran = <<>>
    BY <2>1 DEF ReadyForArms
  <2>3. ReadyForArms'
    BY <2>1, <2>2 DEF ReadyForArms, Loaded
  <2> QED BY <2>1, <2>2, <2>3, ArmsUntouched
<1>3. ASSUME UNCHANGED <<config, channelCores, stressThreads, ran, stressPage>>,
             \/ pc' \in {"exit", "cleanup"} \/ pc' = pc
             \/ pc = "environment" /\ pc' = "memory"
             \/ pc = "replicas" /\ pc' = "check"
             \/ pc = "check" /\ pc' \in {"allocate", "aborted"}
      PROVE  ArmsInv'
  <2>1. UNCHANGED <<arms, n_channels, n_stress, channelCores, stressThreads, ran, stressPage>>
    BY <1>3 DEF config
  <2>2. UNCHANGED <<Loaded, success, channelsToBenchmark, stressThreadsToUse>>
    BY <2>1 DEF Loaded, success, channelsToBenchmark, stressThreadsToUse
  <2>4. ReadyForArms'
    BY <1>3, <2>1, <2>2 DEF ReadyForArms
  <2> QED BY <2>1, <2>4, ArmsUntouched
<1>4. CASE ParseFails \/ SetupEnvironment \/ SetupMemoryFails
  BY <1>3, <1>4 DEF ParseFails, SetupEnvironment, SetupMemoryFails, Goto, handles, pages
<1>5. CASE SetupReplicasFails \/ SetupReplicas
  BY <1>3, <1>5 DEF SetupReplicasFails, SetupReplicas, Goto, handles, pages
<1>6. CASE CheckUtilisation
  BY <1>3, <1>6 DEF CheckUtilisation, pages
<1>7. CASE BenchmarksEnd \/ DestroyEnvironment
  BY <1>3, <1>7 DEF BenchmarksEnd, DestroyEnvironment, Goto, handles, pages
<1>8. CASE UNCHANGED vars
  BY <1>3, <1>8 DEF vars, handles, pages
<1>9. CASE AllocateChannel \/ AllocateStress
  <2>1. /\ pc = "allocate" /\ pc' = "allocate"
        /\ UNCHANGED <<arms, n_channels, n_stress, ran, stressPage>>
    BY <1>9 DEF AllocateChannel, AllocateStress, config, pages
  <2>2. ran = <<>>
    BY <2>1 DEF ReadyForArms
  <2>3. \A b \in BOOLEAN : \A s \in Seq(BOOLEAN) : Append(s, b) \in Seq(BOOLEAN)
    OBVIOUS
  <2>4. /\ channelCores' \in {channelCores} \cup {Append(channelCores, b) : b \in BOOLEAN}
        /\ stressThreads' \in {stressThreads} \cup {Append(stressThreads, b) : b \in BOOLEAN}
    <3>1. CASE AllocateChannel
      BY <3>1, Zenon DEF AllocateChannel
    <3>2. CASE AllocateStress
      BY <3>2, Zenon DEF AllocateStress
    <3> QED BY <1>9, <3>1, <3>2
  <2>5. channelCores' \in Seq(BOOLEAN) /\ stressThreads' \in Seq(BOOLEAN)
    BY <2>3, <2>4 DEF Types
  <2> QED
    BY <2>1, <2>2, <2>5 DEF Types, ReadyForArms, Loaded, EveryChannelHasACore, LoadMatchesArm
<1>10. CASE AllocationEnds
  <2>1. /\ pc = "allocate" /\ pc' \in {"arms", "aborted"}
        /\ UNCHANGED <<arms, n_channels, n_stress, channelCores, stressThreads, ran, stressPage>>
        /\ pc' = "arms" => /\ success
                           /\ Len(channelCores) = channelsToBenchmark
                           /\ Len(stressThreads) = stressThreadsToUse
    BY <1>10 DEF AllocationEnds, config, pages, handles, OneArmAtATime
  <2>2. ReadyForArms'
    BY <2>1 DEF ReadyForArms, Loaded, success, channelsToBenchmark, stressThreadsToUse
  <2> QED BY <2>1, <2>2, ArmsUntouched
<1>11. CASE RunArm
  <2>0. /\ pc = "arms" /\ pc' = "arms"
        /\ UNCHANGED <<arms, n_channels, n_stress, channelCores, stressThreads, stressPage>>
    BY <1>11 DEF RunArm, config, pages, handles
  <2>1. PICK a \in arms :
          ran' = Append(ran, [arm |-> a,
                              channels |-> IF Arms[a].hedged THEN n_channels ELSE 1,
                              stress |-> IF Arms[a].load THEN Len(stressThreads) ELSE 0])
    BY <1>11 DEF RunArm
  <2>2. \A b \in arms : b = a
    BY DEF OneArmAtATime, Types
  <2>3. /\ stressPage = Loaded /\ success
        /\ Len(channelCores) = channelsToBenchmark
        /\ Len(stressThreads) = stressThreadsToUse
    BY <2>0 DEF ReadyForArms
  <2>4. a \in 1 .. 4
    BY DEF Types
  <2>5. Loaded <=> Arms[a].load
    BY <2>2 DEF Loaded
  <2>6. channelsToBenchmark = IF Arms[a].hedged THEN n_channels ELSE 1
    BY <2>2, <2>4 DEF channelsToBenchmark
  <2>7. Arms[a].load => stressThreadsToUse = n_stress
    BY <2>2 DEF stressThreadsToUse
  <2> DEFINE q == [arm |-> a,
                   channels |-> IF Arms[a].hedged THEN n_channels ELSE 1,
                   stress |-> IF Arms[a].load THEN Len(stressThreads) ELSE 0]
  <2>8. q \in ArmRecord
    BY <2>3, <2>4, <2>6 DEF ArmRecord, Types
  <2>9. ran' \in Seq(ArmRecord)
    BY <2>1, <2>8
  <2>10. q.arm = a /\ q.channels = Len(channelCores)
         /\ IF Arms[a].load THEN q.stress = n_stress /\ stressPage ELSE q.stress = 0
    BY <2>3, <2>5, <2>6, <2>7
  <2> HIDE DEF q
  <2>11. ran' = Append(ran, q)
    BY <2>1 DEF q
  <2>12. \A r \in DOMAIN ran' : (r \in DOMAIN ran /\ ran'[r] = ran[r]) \/ ran'[r] = q
    BY <2>8, <2>11
  <2>13. EveryChannelHasACore'
    <3> SUFFICES ASSUME NEW r \in DOMAIN ran', NEW c \in 1 .. ran'[r].channels
                 PROVE  c \in DOMAIN channelCores /\ channelCores[c]
      BY <2>0 DEF EveryChannelHasACore
    <3>1. CASE r \in DOMAIN ran /\ ran'[r] = ran[r]
      BY <3>1 DEF EveryChannelHasACore
    <3>2. CASE ran'[r] = q
      BY <3>2, <2>3, <2>10 DEF Types, success
    <3> QED BY <2>12, <3>1, <3>2
  <2>14. LoadMatchesArm'
    <3> SUFFICES ASSUME NEW r \in DOMAIN ran'
                 PROVE  IF Arms[ran'[r].arm].load THEN ran'[r].stress = n_stress /\ stressPage
                        ELSE ran'[r].stress = 0
      BY <2>0 DEF LoadMatchesArm, Arms
    <3>1. CASE r \in DOMAIN ran /\ ran'[r] = ran[r]
      BY <3>1 DEF LoadMatchesArm
    <3>2. CASE ran'[r] = q
      BY <3>2, <2>10
    <3> QED BY <2>12, <3>1, <3>2
  <2>15. Types' /\ ReadyForArms'
    BY <2>0 DEF Types, ReadyForArms, Loaded, success, channelsToBenchmark,
                stressThreadsToUse
  <2> QED BY <2>9, <2>13, <2>14, <2>15
<1> QED BY <1>1, <1>2, <1>4, <1>5, <1>6, <1>7, <1>8, <1>9, <1>10, <1>11 DEF Next

\* The invariant of the arms, for every machine and every choice of one arm.
THEOREM MainArms == OneArmAtATime => (Spec => []ArmsInv)
<1> SUFFICES ASSUME OneArmAtATime PROVE Spec => []ArmsInv
  OBVIOUS
<1>1. ArmsInv /\ [Next]_vars => ArmsInv'
  BY NextArms
<1> QED BY <1>1, InitArms, PTL DEF Spec

\* An arm uses only handles of real processors that were allocated for it (main.cpp, lines
\* 304 and 313), if it is the only arm and assertions are compiled in.
THEOREM MainEveryChannelHasACore == OneArmAtATime => (Spec => []EveryChannelHasACore)
<1>1. ArmsInv => EveryChannelHasACore
  BY DEF ArmsInv
<1> QED BY <1>1, MainArms, PTL

\* A quiet arm runs without load, a stress arm with the load asked for and a page for it
\* (main.cpp, lines 322 and 331), under the same condition.
THEOREM MainLoadMatchesArm == OneArmAtATime => (Spec => []LoadMatchesArm)
<1>1. ArmsInv => LoadMatchesArm
  BY DEF ArmsInv
<1> QED BY <1>1, MainArms, PTL
------------------------------------------------------------------------------
(* What the utilisation check is worth *)

\* Every core of the machine has as many threads as every other.
UniformCores == Machine[1] = 0 \/ Machine[2] = 0
CoreSize == IF Machine[2] = 0 THEN 1 ELSE 2

Pool ==
  /\ fresh \in [CoreSizes -> Nat] /\ loose \in Nat
  /\ \A size \in CoreSizes : Machine[size] = 0 => fresh[size] = 0

Needs ==
  /\ n_channels \in Nat /\ n_stress \in Int
  /\ pc \notin {"parse", "exit"} => n_stress \in Nat
  /\ channelCores \in Seq(BOOLEAN) /\ stressThreads \in Seq(BOOLEAN)

\* What is still to be allocated fits into what is free, with a thread to spare.
Room ==
  CoreSize * (channelsToBenchmark - Len(channelCores))
    + (stressThreadsToUse - Len(stressThreads)) + 1 < freeThreads

SufficeInv ==
  /\ Pool /\ Needs
  /\ pc \in {"parse", "environment", "memory", "replicas", "check"} =>
       loose = 0 /\ channelCores = <<>> /\ stressThreads = <<>> /\ ~checked
  /\ pc = "allocate" /\ Len(channelCores) < channelsToBenchmark => loose = 0
  /\ pc = "allocate" /\ checked =>
       /\ Len(channelCores) <= channelsToBenchmark
       /\ Len(stressThreads) <= stressThreadsToUse
       /\ Room
  /\ CheckSuffices

\* On such a machine the free threads are those of the whole cores and the single ones.
LEMMA FreeThreads ==
  ASSUME UniformCores, Pool
  PROVE  /\ freeCores \in Nat /\ freeThreads \in Nat /\ CoreSize \in {1, 2}
         /\ freeThreads = CoreSize * freeCores + loose
         /\ \A size \in CoreSizes : fresh[size] > 0 => size = CoreSize
<1>1. fresh[1] \in Nat /\ fresh[2] \in Nat /\ loose \in Nat /\ CoreSizes = {1, 2}
  BY DEF Pool, CoreSizes
<1>2. \/ CoreSize = 1 /\ fresh[2] = 0
      \/ CoreSize = 2 /\ fresh[1] = 0
  BY <1>1 DEF Pool, UniformCores, CoreSize
<1> QED BY <1>1, <1>2 DEF freeCores, freeThreads

\* What is asked for is a number of cores and of threads.
LEMMA Asked ==
  ASSUME Needs, pc \notin {"parse", "exit"}
  PROVE  channelsToBenchmark \in Nat /\ stressThreadsToUse \in Nat
BY DEF Needs, channelsToBenchmark, stressThreadsToUse

\* The check compares numbers of threads, divided by the number of cores.
LEMMA CheckLeavesRoom ==
  ASSUME UniformCores, SufficeInv, pc = "check", UtilisationFits
  PROVE  Room
<1>1. PICK c \in Nat, t \in Nat, f \in Nat \ {0}, s \in {1, 2} :
        /\ c = channelsToBenchmark /\ t = stressThreadsToUse /\ f = freeCores /\ s = CoreSize
  BY FreeThreads, Asked DEF SufficeInv, UtilisationFits
<1>2. /\ loose = 0 /\ Len(channelCores) = 0 /\ Len(stressThreads) = 0
      /\ freeThreads = s * f
  BY <1>1, FreeThreads DEF SufficeInv
<1>3. c * (s * f) + (t + 1) * f < (s * f) * f
  BY <1>1, <1>2 DEF UtilisationFits
<1>4. (s * c + t + 1) * f < (s * f) * f
  <2>1. (s * c + t + 1) * f = c * (s * f) + (t + 1) * f
    BY <1>1
  <2> QED BY <1>3, <2>1
<1>5. s * c + t + 1 < s * f
  <2>1. PICK a \in Nat, b \in Nat : a = s * c + t + 1 /\ b = s * f
    BY <1>1
  <2>2. CASE b <= a
    <3>1. PICK k \in Nat : a = b + k
      <4>1. a - b \in Nat /\ a = b + (a - b)
        BY <2>1, <2>2
      <4> QED BY <4>1
    <3>2. a * f = b * f + k * f /\ k * f \in Nat /\ b * f \in Nat
      BY <1>1, <2>1, <3>1
    <3>3. a * f < b * f
      BY <1>4, <2>1
    <3> QED BY <3>2, <3>3
  <2> QED BY <2>1, <2>2
<1>6. c - Len(channelCores) = c /\ t - Len(stressThreads) = t
  BY <1>1, <1>2
<1> QED BY <1>1, <1>2, <1>5, <1>6 DEF Room

\* What appending to a sequence does.
LEMMA Appending ==
  ASSUME NEW seq \in Seq(BOOLEAN), NEW b \in BOOLEAN
  PROVE  /\ Append(seq, b) \in Seq(BOOLEAN) /\ Len(Append(seq, b)) = Len(seq) + 1
         /\ Append(seq, b)[Len(seq) + 1] = b
         /\ \A k \in 1 .. Len(seq) : Append(seq, b)[k] = seq[k]
OBVIOUS

\* The free threads are a number.
LEMMA PoolCounts ==
  ASSUME Pool'
  PROVE  freeThreads' \in Nat
BY DEF Pool, CoreSizes, freeThreads

\* A core for a channel is there, and room for what is left.
LEMMA ChannelSuffices ==
  ASSUME UniformCores, SufficeInv, AllocateChannel
  PROVE  SufficeInv'
<1>1. /\ pc = "allocate" /\ success /\ Len(channelCores) < channelsToBenchmark
      /\ UNCHANGED <<pc, arms, n_channels, n_stress, loose, checked, stressThreads>>
  BY DEF AllocateChannel, config
<1>2. UNCHANGED <<channelsToBenchmark, stressThreadsToUse>>
  BY <1>1 DEF channelsToBenchmark, stressThreadsToUse
<1>3. PICK c \in Nat, t \in Nat, l \in Nat, m \in Nat, s \in {1, 2}, o \in Nat, n \in Nat :
        /\ c = channelsToBenchmark /\ t = stressThreadsToUse /\ l = Len(channelCores)
        /\ m = Len(stressThreads) /\ s = CoreSize /\ o = loose /\ n = freeCores
        /\ freeThreads = s * n + o
  <2>1. Pool /\ Needs /\ Len(channelCores) \in Nat /\ Len(stressThreads) \in Nat
    BY DEF SufficeInv, Needs
  <2>2. channelsToBenchmark \in Nat /\ stressThreadsToUse \in Nat
    BY <1>1, <2>1, Asked
  <2>3. /\ CoreSize \in {1, 2} /\ freeCores \in Nat /\ loose \in Nat
        /\ freeThreads = CoreSize * freeCores + loose
    BY <2>1, FreeThreads DEF Pool
  <2> QED BY <2>1, <2>2, <2>3
<1>4. /\ \A b \in BOOLEAN : /\ Append(channelCores, b) \in Seq(BOOLEAN)
                             /\ Len(Append(channelCores, b)) = l + 1
                             /\ Append(channelCores, b)[l + 1] = b
                             /\ \A k \in 1 .. l : Append(channelCores, b)[k] = channelCores[k]
      /\ fresh[1] \in Nat /\ fresh[2] \in Nat /\ CoreSizes = {1, 2}
  <2>1. channelCores \in Seq(BOOLEAN)
    BY DEF SufficeInv, Needs
  <2>2. fresh[1] \in Nat /\ fresh[2] \in Nat /\ CoreSizes = {1, 2}
    BY DEF SufficeInv, Pool, CoreSizes
  <2> QED BY <1>3, <2>1, <2>2, Appending
<1>5. CASE /\ channelCores' = Append(channelCores, TRUE)
           /\ \E size \in CoreSizes : /\ fresh[size] > 0
                                      /\ fresh' = [fresh EXCEPT ![size] = @ - 1]
  <2>1. PICK size \in CoreSizes : fresh[size] > 0 /\ fresh' = [fresh EXCEPT ![size] = @ - 1]
    BY <1>5
  <2>2. size = s /\ size \in {1, 2}
    BY <1>3, <1>4, <2>1, FreeThreads DEF SufficeInv
  <2>3. Pool'
    BY <1>1, <2>1 DEF SufficeInv, Pool, CoreSizes
  <2>4. freeThreads' + s = freeThreads
    BY <1>1, <1>4, <2>1, <2>2 DEF freeThreads, SufficeInv, Pool, CoreSizes
  <2>5. success'
    <3>1. \A k \in DOMAIN channelCores' : channelCores'[k]
      BY <1>1, <1>3, <1>4, <1>5 DEF success, SufficeInv, Needs
    <3> QED BY <1>1, <3>1 DEF success
  <2>6. Len(channelCores') = l + 1
    BY <1>4, <1>5
  <2>7. checked => Room'
    <3> SUFFICES ASSUME checked PROVE Room'
      OBVIOUS
    <3>1. s * (c - l) + (t - m) + 1 < s * n + o
      BY <1>1, <1>3 DEF SufficeInv, Room
    <3>2. freeThreads' = s * n + o - s
      BY <1>3, <2>3, <2>4, PoolCounts
    <3>3. s * (c - (l + 1)) + (t - m) + 1 < s * n + o - s
      BY <1>3, <3>1
    <3> QED BY <1>1, <1>2, <1>3, <2>6, <3>2, <3>3 DEF Room
  <2>8. checked => l + 1 <= c /\ m <= t
    BY <1>1, <1>3 DEF SufficeInv
  <2>9. Needs'
    BY <1>1, <1>4, <1>5 DEF SufficeInv, Needs
  <2> QED BY <1>1, <1>2, <1>3, <2>3, <2>5, <2>6, <2>7, <2>8, <2>9 DEF SufficeInv, CheckSuffices
<1>6. CASE freeCores = 0 /\ channelCores' = Append(channelCores, FALSE) /\ UNCHANGED fresh
  <2>1. ~checked
    <3> SUFFICES ASSUME checked PROVE FALSE
      OBVIOUS
    <3>1. s * (c - l) + (t - m) + 1 < s * n + o /\ l < c /\ m <= t
      BY <1>1, <1>3 DEF SufficeInv, Room
    <3>2. n = 0 /\ o = 0
      BY <1>1, <1>3, <1>6 DEF SufficeInv
    <3>3. s * (c - l) \in Nat
      BY <1>3, <3>1
    <3> QED BY <1>3, <3>1, <3>2, <3>3
  <2>2. Pool' /\ Needs'
    BY <1>1, <1>4, <1>6 DEF SufficeInv, Pool, Needs
  <2> QED BY <1>1, <2>1, <2>2 DEF SufficeInv, CheckSuffices
<1> QED BY <1>5, <1>6 DEF AllocateChannel

\* A thread for the load is there, and room for what is left.
LEMMA StressSuffices ==
  ASSUME UniformCores, SufficeInv, AllocateStress
  PROVE  SufficeInv'
<1>1. /\ pc = "allocate" /\ success /\ Len(channelCores) = channelsToBenchmark
      /\ Len(stressThreads) < stressThreadsToUse
      /\ UNCHANGED <<pc, arms, n_channels, n_stress, checked, channelCores>>
  BY DEF AllocateStress, config
<1>2. UNCHANGED <<channelsToBenchmark, stressThreadsToUse>>
  BY <1>1 DEF channelsToBenchmark, stressThreadsToUse
<1>3. PICK c \in Nat, t \in Nat, m \in Nat, s \in {1, 2}, o \in Nat, n \in Nat :
        /\ c = channelsToBenchmark /\ t = stressThreadsToUse /\ m = Len(stressThreads)
        /\ s = CoreSize /\ o = loose /\ n = freeCores /\ freeThreads = s * n + o
  <2>1. Pool /\ Needs /\ Len(channelCores) \in Nat /\ Len(stressThreads) \in Nat
    BY DEF SufficeInv, Needs
  <2>2. channelsToBenchmark \in Nat /\ stressThreadsToUse \in Nat
    BY <1>1, <2>1, Asked
  <2>3. /\ CoreSize \in {1, 2} /\ freeCores \in Nat /\ loose \in Nat
        /\ freeThreads = CoreSize * freeCores + loose
    BY <2>1, FreeThreads DEF Pool
  <2> QED BY <2>1, <2>2, <2>3
<1>4. /\ \A b \in BOOLEAN : /\ Append(stressThreads, b) \in Seq(BOOLEAN)
                             /\ Len(Append(stressThreads, b)) = m + 1
                             /\ Append(stressThreads, b)[m + 1] = b
                             /\ \A k \in 1 .. m : Append(stressThreads, b)[k] = stressThreads[k]
      /\ fresh[1] \in Nat /\ fresh[2] \in Nat /\ CoreSizes = {1, 2}
  <2>1. stressThreads \in Seq(BOOLEAN)
    BY DEF SufficeInv, Needs
  <2>2. fresh[1] \in Nat /\ fresh[2] \in Nat /\ CoreSizes = {1, 2}
    BY DEF SufficeInv, Pool, CoreSizes
  <2> QED BY <1>3, <2>1, <2>2, Appending
<1>5. checked => m <= t /\ (t - m) + 1 < s * n + o
  <2>1. c - Len(channelCores) = 0
    BY <1>1, <1>3
  <2>2. s * 0 = 0
    BY <1>3
  <2> QED BY <1>1, <1>3, <2>1, <2>2 DEF SufficeInv, Room
<1>6. ASSUME stressThreads' = Append(stressThreads, TRUE), Pool', freeThreads' + 1 = freeThreads
      PROVE  SufficeInv'
  <2>1. success'
    <3>1. \A k \in DOMAIN stressThreads' : stressThreads'[k]
      BY <1>1, <1>3, <1>4, <1>6 DEF success, SufficeInv, Needs
    <3> QED BY <1>1, <3>1 DEF success
  <2>2. Len(stressThreads') = m + 1
    BY <1>4, <1>6
  <2>3. checked => Room'
    <3> SUFFICES ASSUME checked PROVE Room'
      OBVIOUS
    <3>1. freeThreads' = s * n + o - 1
      BY <1>3, <1>6, PoolCounts
    <3>2. (t - (m + 1)) + 1 < s * n + o - 1
      BY <1>3, <1>5
    <3>3. c - Len(channelCores) = 0 /\ s * 0 = 0
      BY <1>1, <1>3
    <3>4. s * (c - Len(channelCores)) + (t - (m + 1)) + 1 < s * n + o - 1
      BY <1>3, <3>2, <3>3
    <3> QED BY <1>1, <1>2, <1>3, <2>2, <3>1, <3>4 DEF Room
  <2>4. checked => m + 1 <= t
    BY <1>1, <1>3
  <2>5. Needs'
    BY <1>1, <1>4, <1>6 DEF SufficeInv, Needs
  <2> QED BY <1>1, <1>2, <1>3, <1>6, <2>1, <2>2, <2>3, <2>4, <2>5 DEF SufficeInv, CheckSuffices
<1>7. CASE /\ loose > 0 /\ loose' = loose - 1
           /\ stressThreads' = Append(stressThreads, TRUE) /\ UNCHANGED fresh
  <2>1. Pool' /\ freeThreads' + 1 = freeThreads
    BY <1>4, <1>7 DEF SufficeInv, Pool, freeThreads
  <2> QED BY <1>6, <1>7, <2>1
<1>8. CASE /\ loose = 0
           /\ \E size \in CoreSizes : /\ fresh[size] > 0
                                      /\ fresh' = [fresh EXCEPT ![size] = @ - 1]
                                      /\ loose' = size - 1
           /\ stressThreads' = Append(stressThreads, TRUE)
  <2>1. PICK size \in {1, 2} : /\ fresh[size] > 0 /\ fresh' = [fresh EXCEPT ![size] = @ - 1]
                              /\ loose' = size - 1
    BY <1>4, <1>8
  <2>2. Pool'
    BY <1>4, <2>1 DEF SufficeInv, Pool
  <2>3. freeThreads' + 1 = freeThreads
    BY <1>4, <1>8, <2>1 DEF freeThreads, SufficeInv, Pool
  <2> QED BY <1>6, <1>8, <2>2, <2>3
<1>9. CASE /\ loose = 0 /\ freeCores = 0
           /\ stressThreads' = Append(stressThreads, FALSE) /\ UNCHANGED threads
  <2>1. ~checked
    BY <1>1, <1>3, <1>5, <1>9
  <2>2. Pool' /\ Needs'
    BY <1>1, <1>4, <1>9 DEF SufficeInv, Pool, Needs, threads
  <2> QED BY <1>1, <1>2, <1>3, <2>1, <2>2 DEF SufficeInv, CheckSuffices
<1> QED BY <1>7, <1>8, <1>9 DEF AllocateStress

\* Every step keeps the invariant of the check.
LEMMA NextSuffices ==
  ASSUME UniformCores, SufficeInv, [Next]_vars
  PROVE  SufficeInv'
<1> USE DEF SufficeInv
<1>1. CASE ParseCli
  <2>1. /\ pc = "parse" /\ pc' = "environment"
        /\ UNCHANGED <<arms, n_channels, loose, checked, channelCores, stressThreads>>
        /\ n_stress' \in {ClampStress(n_stress), 0}
    BY <1>1 DEF ParseCli, Goto, handles
  <2>2. PICK size \in CoreSizes : fresh[size] > 0 /\ fresh' = [fresh EXCEPT ![size] = @ - 1]
    BY <1>1 DEF ParseCli
  <2>3. Pool'
    BY <2>1, <2>2 DEF Pool, CoreSizes
  <2>4. logicalCoreCount \in Nat
    BY MainAssumption DEF logicalCoreCount, CoreSizes
  <2>5. n_stress' \in Nat
    BY <2>1, <2>4 DEF ClampStress, Needs
  <2>6. Needs'
    BY <2>1, <2>5 DEF Needs
  <2> QED BY <2>1, <2>3, <2>6 DEF CheckSuffices, success
<1>2. ASSUME UNCHANGED <<config, threads, handles>>, pc' # "allocate",
             pc' \in {"environment", "memory", "replicas", "check"} =>
               pc \in {"environment", "memory", "replicas", "check"},
             pc \in {"parse", "exit"} => pc' \in {"parse", "exit"},
             pc' = "parse" => pc = "parse"
      PROVE  SufficeInv'
  <2>1. UNCHANGED <<arms, n_channels, n_stress, fresh, loose, checked, channelCores,
                    stressThreads>>
    BY <1>2 DEF config, threads, handles
  <2>2. Pool' /\ Needs' /\ CheckSuffices'
    BY <1>2, <2>1 DEF Pool, Needs, CheckSuffices, success
  <2> QED BY <1>2, <2>1, <2>2
<1>3. CASE ParseFails \/ SetupEnvironment \/ SetupMemoryFails \/ SetupMemory
           \/ SetupReplicasFails \/ SetupReplicas
  <2>1. UNCHANGED <<config, threads, handles>>
    BY <1>3 DEF ParseFails, SetupEnvironment, SetupMemoryFails, SetupMemory,
                SetupReplicasFails, SetupReplicas
  <2>2. \/ pc = "parse" /\ pc' = "exit"
        \/ pc \in {"environment", "memory", "replicas"}
           /\ pc' \in {"memory", "replicas", "check", "cleanup"}
    BY <1>3 DEF ParseFails, SetupEnvironment, SetupMemoryFails, SetupMemory,
                SetupReplicasFails, SetupReplicas, Goto
  <2> QED BY <1>2, <2>1, <2>2
<1>4. CASE CheckUtilisation
  <2>1. /\ pc = "check" /\ pc' \in {"allocate", "aborted"}
        /\ checked' = UtilisationFits
        /\ UNCHANGED <<arms, n_channels, n_stress, fresh, loose, channelCores, stressThreads>>
    BY <1>4 DEF CheckUtilisation, config, threads
  <2>2. Pool' /\ Needs'
    BY <2>1 DEF Pool, Needs
  <2>3. UNCHANGED <<Room, success, channelsToBenchmark, stressThreadsToUse>>
    BY <2>1 DEF Room, success, channelsToBenchmark, stressThreadsToUse, freeThreads
  <2>4. checked' => Room'
    BY <2>1, <2>3, CheckLeavesRoom
  <2>5. Len(channelCores) <= channelsToBenchmark /\ Len(stressThreads) <= stressThreadsToUse
    BY <2>1, Asked
  <2>6. success
    BY <2>1 DEF success
  <2> QED BY <2>1, <2>2, <2>3, <2>4, <2>5, <2>6 DEF CheckSuffices
<1>5. CASE AllocationEnds \/ BenchmarksEnd \/ DestroyEnvironment
  <2>1. UNCHANGED <<config, threads, handles>> /\ pc \in {"allocate", "arms", "cleanup"}
        /\ pc' \in {"arms", "aborted", "cleanup", "exit"}
    BY <1>5 DEF AllocationEnds, BenchmarksEnd, DestroyEnvironment, Goto
  <2> QED BY <1>2, <2>1
<1>6. CASE RunArm
  <2>1. UNCHANGED <<config, threads, handles>> /\ pc = "arms" /\ pc' = "arms"
    BY <1>6 DEF RunArm
  <2> QED BY <1>2, <2>1
<1>7. CASE UNCHANGED vars
  <2>1. UNCHANGED <<pc, arms, n_channels, n_stress, fresh, loose, checked, channelCores,
                    stressThreads>>
    BY <1>7 DEF vars, config, threads, handles
  <2> QED BY <2>1 DEF Pool, Needs, CheckSuffices, success, Room, channelsToBenchmark,
                      stressThreadsToUse, freeThreads
<1> QED BY <1>1, <1>3, <1>4, <1>5, <1>6, <1>7, ChannelSuffices, StressSuffices DEF Next

\* What the utilisation check lets through can be allocated (main.cpp, lines 280-300), for
\* every number of channels and stress threads, with and without assertions, if all cores
\* of the machine are alike; with cores of different sizes it is false.
THEOREM MainCheckSuffices == UniformCores => (Spec => []CheckSuffices)
<1> SUFFICES ASSUME UniformCores PROVE Spec => []CheckSuffices
  OBVIOUS
<1>1. Init => SufficeInv
  BY MainAssumption DEF Init, SufficeInv, Pool, Needs, CheckSuffices, CoreSizes
<1>2. SufficeInv /\ [Next]_vars => SufficeInv'
  BY NextSuffices
<1>3. SufficeInv => CheckSuffices
  BY DEF SufficeInv
<1> QED BY <1>1, <1>2, <1>3, PTL DEF Spec
==============================================================================
