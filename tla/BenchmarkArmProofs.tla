-------------------------- MODULE BenchmarkArmProofs --------------------------
(***************************************************************************)
(* The safety properties of BenchmarkArm for every plan of arms, every     *)
(* number of channels and of stress threads.  The invariant ties the state *)
(* of each kind of thread, of the flags and of the samples to the place of *)
(* the main thread in run_arm.                                             *)
(***************************************************************************)
EXTENDS BenchmarkArm, TLAPS

Measuring == {"startMeasurement", "joinMeasurement"}
Stressing == Measuring \cup {"startStress", "stopStress", "joinStress"}
Processing == {"startProcessing", "pairing", "joinProcessing"}
Between == {"idle", "free", "reset", "done"}

Quiet(state) == \A x \in DOMAIN state : state[x] \in {"none", "exited"}

Types ==
  /\ pc \in Stressing \cup Processing \cup Between
  /\ contexts \in [size : Nat, capacity : Nat, storage : Nat]
  /\ contextOf \in [StressThreads -> Nat]
  /\ measurement \in
       [Channels -> {"none", "setup", "waiting", "measuring", "exited"}]
  /\ stress \in
       [StressThreads -> {"none", "setup", "waiting", "stressing", "exited"}]
  /\ processing \in [Channels -> {"none", "processing", "exited"}]
  /\ samples \in [Channels -> {"none", "zero", "partial", "full", "freed"}]

\* Threads of a kind are alive only in the phases of their kind, and stress threads
\* only in arms with stress.
ThreadsInPhase ==
  /\ pc \notin Measuring => Quiet(measurement)
  /\ pc \notin Stressing \/ ~Plan[arm].stress => Quiet(stress)
  /\ pc \notin Processing => Quiet(processing)

FlagsInPhase ==
  /\ measure_signal => pc \notin {"idle", "startStress", "startMeasurement", "done"}
  /\ pc \in {"startStress", "stopStress", "joinStress"} => Plan[arm].stress
  /\ pc \in Measuring \cup {"startStress", "stopStress"} => ~stop
  /\ pc \in Measuring \cup {"stopStress"} /\ Plan[arm].stress => go

\* reserve() has made the storage that all contexts are in.
ContextsInPlace ==
  /\ contexts.storage = 0 /\ \A k \in StressThreads : contextOf[k] = 0
  /\ pc = "startStress" => contexts.capacity = NStress

SamplesInPhase ==
  \A c \in Channels :
    /\ pc \in {"startStress", "startMeasurement"} /\ c \in Used => samples[c] = "zero"
    /\ measurement[c] \in {"setup", "waiting"} => samples[c] = "zero"
    /\ measurement[c] = "measuring" => samples[c] = "partial"
    /\ /\ pc \in {"joinMeasurement", "stopStress", "joinStress"} \cup Processing
       /\ c \in Used /\ measurement[c] # "measuring"
       => samples[c] \in {"zero", "full"}
    /\ processing[c] = "processing" => c \in Used

Inv ==
  /\ Types /\ ThreadsInPhase /\ FlagsInPhase /\ ContextsInPlace /\ SamplesInPhase
  /\ NoEarlyMeasurement

USE DEF Measuring, Stressing, Processing, Between

-----------------------------------------------------------------------------
\* Before the first arm the invariant holds: nothing is started or allocated.
LEMMA InitInv == Init => Inv
BY DEF Init, Inv, Types, ThreadsInPhase, FlagsInPhase, ContextsInPlace, SamplesInPhase,
       NoEarlyMeasurement, Quiet, None

\* The steps that build up an arm keep the invariant.
LEMMA SetupSteps ==
  ASSUME Inv, StartArm \/ CreateStressThread \/ StressGo
              \/ CreateMeasurementThread \/ MeasureSignal
  PROVE  Inv'
<1> USE DEF Inv, flags, stressVars, Used
<1>1. CASE StartArm
  <2> USE <1>1 DEF StartArm, Goto
  <2>1. /\ pc = "idle"
        /\ Plan[arm].stress => pc' = "startStress"
        /\ ~Plan[arm].stress => pc' = "startMeasurement"
    OBVIOUS
  <2>2. Quiet(measurement)' /\ Quiet(stress)' /\ Quiet(processing)'
    BY <2>1 DEF ThreadsInPhase, Quiet
  <2>3. Types'
    BY <2>1, PlanAssumption DEF Types, PlanAssumption
  <2>4. ThreadsInPhase' /\ FlagsInPhase' /\ NoEarlyMeasurement'
    BY <2>1, <2>2 DEF FlagsInPhase, ThreadsInPhase, NoEarlyMeasurement
  <2>5. ContextsInPlace'
    BY <2>1 DEF ContextsInPlace, Types
  <2>6. SamplesInPhase'
    <3>1. \A c \in Channels : /\ measurement'[c] \in {"none", "exited"}
                              /\ processing'[c] \in {"none", "exited"}
      BY <2>2, <2>3 DEF Types, Quiet
    <3>2. \A c \in Channels : c \in Used => samples'[c] = "zero"
      OBVIOUS
    <3>3. pc' \in {"startStress", "startMeasurement"} /\ arm' = arm
      BY <2>1
    <3> QED BY <3>1, <3>2, <3>3 DEF SamplesInPhase
  <2> QED BY <2>3, <2>4, <2>5, <2>6
<1>2. CASE CreateStressThread
  <2> USE <1>2 DEF CreateStressThread
  <2>1. /\ pc = "startStress" /\ pc' = pc
        /\ contexts.size < contexts.capacity
    BY DEF ContextsInPlace
  <2>2. contexts' = [size |-> contexts.size + 1, capacity |-> contexts.capacity,
                     storage |-> contexts.storage]
    BY <2>1
  <2>3. Types'
    <3>1. contexts' \in [size : Nat, capacity : Nat, storage : Nat]
      BY <2>2 DEF Types
    <3>2. /\ contextOf' \in [StressThreads -> Nat]
          /\ stress' \in
               [StressThreads -> {"none", "setup", "waiting", "stressing", "exited"}]
      BY <3>1 DEF Types
    <3> QED BY <3>1, <3>2, <2>1 DEF Types
  <2>4. ContextsInPlace'
    BY <2>1, <2>2 DEF ContextsInPlace, Types
  <2>5. ThreadsInPhase' /\ FlagsInPhase' /\ NoEarlyMeasurement'
    BY <2>1 DEF FlagsInPhase, ThreadsInPhase, NoEarlyMeasurement
  <2>6. SamplesInPhase'
    BY <2>1 DEF SamplesInPhase
  <2> QED BY <2>3, <2>4, <2>5, <2>6
<1>3. CASE StressGo
  <2> USE <1>3 DEF StressGo, Goto
  <2>1. Types' /\ ContextsInPlace'
    BY DEF Types, ContextsInPlace
  <2>2. ThreadsInPhase' /\ FlagsInPhase' /\ NoEarlyMeasurement'
    BY DEF ThreadsInPhase, FlagsInPhase, NoEarlyMeasurement, Quiet
  <2>3. SamplesInPhase'
    BY DEF SamplesInPhase
  <2> QED BY <2>1, <2>2, <2>3
<1>4. CASE CreateMeasurementThread
  <2> USE <1>4 DEF CreateMeasurementThread
  <2>1. Types' /\ ContextsInPlace'
    BY DEF Types, ContextsInPlace
  <2>2. ThreadsInPhase' /\ FlagsInPhase'
    BY DEF ThreadsInPhase, FlagsInPhase
  <2>3. /\ pc = "startMeasurement" /\ pc' = pc /\ NextOf(measurement) \in Used
        /\ \A c \in Channels :
             \/ measurement'[c] = measurement[c]
             \/ c = NextOf(measurement) /\ measurement'[c] = "setup"
    BY DEF Types
  <2>4. NoEarlyMeasurement'
    BY <2>3 DEF NoEarlyMeasurement
  <2>5. SamplesInPhase'
    BY <2>3 DEF SamplesInPhase
  <2> QED BY <2>1, <2>2, <2>4, <2>5
<1>5. CASE MeasureSignal
  <2> USE <1>5 DEF MeasureSignal, Goto
  <2>1. Types' /\ ContextsInPlace'
    BY DEF Types, ContextsInPlace
  <2>2. ThreadsInPhase' /\ FlagsInPhase' /\ NoEarlyMeasurement'
    BY DEF ThreadsInPhase, FlagsInPhase, NoEarlyMeasurement, Quiet
  <2>3. SamplesInPhase'
    BY DEF SamplesInPhase, NoEarlyMeasurement
  <2> QED BY <2>1, <2>2, <2>3
<1> QED BY <1>1, <1>2, <1>3, <1>4, <1>5

-----------------------------------------------------------------------------
\* The steps that join the threads and take the arm apart keep the invariant.
LEMMA JoinSteps ==
  ASSUME Inv, JoinMeasurement \/ StressStop \/ JoinStress \/ CreateProcessingThread
              \/ PairSamples \/ PairingDone \/ JoinProcessing
  PROVE  Inv'
<1> USE DEF Inv, flags, stressVars, Used
<1>1. CASE JoinMeasurement
  BY <1>1 DEF JoinMeasurement, Goto, Types, ThreadsInPhase, FlagsInPhase, ContextsInPlace,
              SamplesInPhase, NoEarlyMeasurement, Quiet, Live
<1>2. CASE StressStop
  BY <1>2 DEF StressStop, Goto, Types, ThreadsInPhase, FlagsInPhase, ContextsInPlace,
              SamplesInPhase, NoEarlyMeasurement, Quiet
<1>3. CASE JoinStress
  BY <1>3 DEF JoinStress, Goto, Types, ThreadsInPhase, FlagsInPhase, ContextsInPlace,
              SamplesInPhase, NoEarlyMeasurement, Quiet, Live
<1>4. CASE CreateProcessingThread
  <2> USE <1>4 DEF CreateProcessingThread
  <2>1. Types' /\ ContextsInPlace'
    BY DEF Types, ContextsInPlace
  <2>2. ThreadsInPhase' /\ FlagsInPhase' /\ NoEarlyMeasurement'
    BY DEF ThreadsInPhase, FlagsInPhase, NoEarlyMeasurement
  <2>3. SamplesInPhase'
    <3>1. \A c \in Channels :
            processing'[c] = processing[c] \/ c = NextOf(processing)
      BY DEF Types
    <3> QED BY <3>1 DEF SamplesInPhase
  <2> QED BY <2>1, <2>2, <2>3
<1>5. CASE PairSamples
  BY <1>5 DEF PairSamples, Goto, Types, ThreadsInPhase, FlagsInPhase, ContextsInPlace,
              SamplesInPhase, NoEarlyMeasurement, Quiet
<1>6. CASE PairingDone
  BY <1>6 DEF PairingDone, Goto, Types, ThreadsInPhase, FlagsInPhase, ContextsInPlace,
              SamplesInPhase, NoEarlyMeasurement, Quiet
<1>7. CASE JoinProcessing
  BY <1>7 DEF JoinProcessing, Goto, Types, ThreadsInPhase, FlagsInPhase, ContextsInPlace,
              SamplesInPhase, NoEarlyMeasurement, Quiet, Live
<1> QED BY <1>1, <1>2, <1>3, <1>4, <1>5, <1>6, <1>7

\* So do freeing the samples and going on to the next arm.
LEMMA EndSteps ==
  ASSUME Inv, FreeSamples \/ Reset
  PROVE  Inv'
<1> USE DEF Inv, flags, stressVars
<1>1. CASE FreeSamples
  BY <1>1 DEF FreeSamples, Goto, Types, ThreadsInPhase, FlagsInPhase, ContextsInPlace,
              SamplesInPhase, NoEarlyMeasurement, Quiet
<1>2. CASE Reset
  <2> USE <1>2 DEF Reset, Goto
  <2>1. pc = "reset" /\ pc' \in {"idle", "done"}
    OBVIOUS
  <2>2. Types'
    BY <2>1 DEF Types
  <2>3. Quiet(measurement)' /\ Quiet(stress)' /\ Quiet(processing)'
    BY <2>1 DEF ThreadsInPhase, Quiet, Live, Types
  <2>4. ThreadsInPhase' /\ FlagsInPhase' /\ ContextsInPlace'
    BY <2>1, <2>3 DEF ThreadsInPhase, FlagsInPhase, ContextsInPlace
  <2>5. SamplesInPhase'
    <3>1. ASSUME NEW c \in Channels
          PROVE  /\ measurement[c]' \notin {"setup", "waiting", "measuring"}
                 /\ processing[c]' # "processing"
      BY <2>3 DEF Quiet
    <3> QED BY <2>1, <3>1 DEF SamplesInPhase
  <2>6. NoEarlyMeasurement'
    BY <2>3 DEF NoEarlyMeasurement, Quiet
  <2> QED BY <2>2, <2>4, <2>5, <2>6
<1> QED BY <1>1, <1>2

-----------------------------------------------------------------------------
\* The steps of the threads that are started keep the invariant.
LEMMA MeasurementSteps ==
  ASSUME Inv, NEW c \in Channels, MeasurementThread(c)
  PROVE  Inv'
<1> USE DEF Inv, flags, stressVars, Used
<1>1. CASE MeasurementSetup(c)
  <2>1. /\ measurement[c] = "setup"
        /\ measurement' = [measurement EXCEPT ![c] = "exited"]
           \/ measurement' = [measurement EXCEPT ![c] = "waiting"]
        /\ UNCHANGED <<pc, arm, flags, stressVars, processing, samples>>
    BY <1>1 DEF MeasurementSetup
  <2> QED
    BY <2>1 DEF Types, ThreadsInPhase, FlagsInPhase, ContextsInPlace,
                SamplesInPhase, NoEarlyMeasurement, Quiet
<1>2. CASE Measure(c)
  <2>1. pc = "joinMeasurement"
    BY <1>2 DEF Measure, ThreadsInPhase, FlagsInPhase, Quiet, Types
  <2> QED
    BY <1>2, <2>1 DEF Measure, Types, ThreadsInPhase, FlagsInPhase, ContextsInPlace,
                SamplesInPhase, NoEarlyMeasurement, Quiet
<1>3. CASE MeasurementEnds(c)
  <2>1. pc = "joinMeasurement"
    BY <1>3 DEF MeasurementEnds, NoEarlyMeasurement
  <2> QED
    BY <1>3, <2>1 DEF MeasurementEnds, Types, ThreadsInPhase, FlagsInPhase, ContextsInPlace,
                SamplesInPhase, NoEarlyMeasurement, Quiet
<1> QED BY <1>1, <1>2, <1>3 DEF MeasurementThread

\* So does a stress thread, whatever it does.
LEMMA StressSteps ==
  ASSUME Inv, NEW k \in StressThreads, StressThread(k)
  PROVE  Inv'
<1> USE DEF Inv, flags, stressVars, Used
<1>1. /\ stress[k] \in {"setup", "waiting", "stressing"}
      /\ \E s \in {"waiting", "stressing", "exited"} : stress' = [stress EXCEPT ![k] = s]
      /\ UNCHANGED <<pc, arm, flags, contexts, contextOf, measurement, processing, samples>>
  BY DEF StressThread, StressSetup, Stress, StressEnds
<1> QED
  BY <1>1 DEF Types, ThreadsInPhase, FlagsInPhase, ContextsInPlace,
              SamplesInPhase, NoEarlyMeasurement, Quiet

\* So does a processing thread when it ends.
LEMMA ProcessingStep ==
  ASSUME Inv, NEW c \in Channels, ProcessingEnds(c)
  PROVE  Inv'
BY DEF ProcessingEnds, Inv, flags, stressVars, Used, Types, ThreadsInPhase, FlagsInPhase,
       ContextsInPlace, SamplesInPhase, NoEarlyMeasurement, Quiet

\* Every step keeps the invariant.
LEMMA NextInv == Inv /\ [Next]_vars => Inv'
<1> SUFFICES ASSUME Inv, [Next]_vars PROVE Inv'
  OBVIOUS
<1>1. CASE Main
  BY <1>1, SetupSteps, JoinSteps, EndSteps DEF Main
<1>2. CASE \E c \in Channels : MeasurementThread(c) \/ ProcessingEnds(c)
  BY <1>2, MeasurementSteps, ProcessingStep
<1>3. CASE \E k \in StressThreads : StressThread(k)
  BY <1>3, StressSteps
<1>4. CASE UNCHANGED vars
  BY <1>4 DEF vars, flags, stressVars, Used, Inv, Types, ThreadsInPhase, FlagsInPhase,
              ContextsInPlace, SamplesInPhase, NoEarlyMeasurement, Quiet
<1> QED BY <1>1, <1>2, <1>3, <1>4 DEF Next, Finished

\* The invariant of run_arm, its threads and reset() holds throughout, for every plan,
\* number of channels and number of stress threads.
THEOREM ArmInv == Spec => []Inv
BY InitInv, NextInv, PTL DEF Spec

-----------------------------------------------------------------------------
\* No sample array is used after it is freed, or read while it is written
\* (benchmark.cpp, lines 192-211).
THEOREM ArmSamplesSafe == Spec => []SamplesSafe
<1>1. Inv => SamplesSafe
  BY DEF Inv, SamplesSafe, SamplesInPhase, ThreadsInPhase, Quiet, Types, Live
<1> QED BY <1>1, ArmInv, PTL

\* No thread of an arm outlives run_arm's locals, and no context pointer dangles
\* (benchmark.cpp, lines 207, 229-237).
THEOREM ArmLocalsOutliveThreads == Spec => []LocalsOutliveThreads
<1>1. Inv => LocalsOutliveThreads
  BY DEF Inv, LocalsOutliveThreads, ThreadsInPhase, ContextsInPlace, Quiet, Types, Live
<1> QED BY <1>1, ArmInv, PTL

\* No thread measures before the signal of its own arm (benchmark.cpp, lines 12-14, 184).
THEOREM ArmNoEarlyMeasurement == Spec => []NoEarlyMeasurement
<1>1. Inv => NoEarlyMeasurement
  BY DEF Inv
<1> QED BY <1>1, ArmInv, PTL

\* Measurements of a quiet arm run without stress threads, those of a stress arm while
\* its threads may stress (benchmark.cpp, lines 239-251).
THEOREM ArmLoadMatches == Spec => []LoadMatchesArm
<1>1. Inv => LoadMatchesArm
  BY DEF Inv, LoadMatchesArm, NoEarlyMeasurement, FlagsInPhase, ThreadsInPhase, Quiet,
         Types, Live
<1> QED BY <1>1, ArmInv, PTL
=============================================================================
