---------------------------- MODULE BenchmarkArm ----------------------------
(***************************************************************************)
(* Benchmark::run_arm (benchmark/source/benchmark.cpp) and the threads it  *)
(* starts: one measurement thread and later one processing thread per      *)
(* channel, and the stress threads.  execute_benchmarks runs one arm after *)
(* the other on one Benchmark object and calls reset() in between, so      *)
(* m_measure_signal outlives an arm while go and stop do not.              *)
(*                                                                         *)
(* A measurement or a stress loop is one stay in a state, a sample array   *)
(* is what has been done to it, and the time of microsleep is left out.    *)
(***************************************************************************)
EXTENDS Integers, Sequences

CONSTANTS Plan,    \* the arms main() runs: [channels : Nat, stress : BOOLEAN]
          NStress  \* m_config.n_stress

ASSUME PlanAssumption ==
  /\ Plan \in Seq([channels : Nat \ {0}, stress : BOOLEAN])
  /\ NStress \in Nat \ {0}

MaxChannels ==
  CHOOSE n \in {Plan[a].channels : a \in DOMAIN Plan} :
    \A a \in DOMAIN Plan : Plan[a].channels <= n
Channels == 1 .. MaxChannels
StressThreads == 1 .. NStress

VARIABLES pc,             \* where the main thread is in run_arm
          arm,            \* index of the current arm in Plan
          measure_signal, \* m_measure_signal
          go, stop,       \* the flags of the arm's StressGroup
          contexts,       \* StressGroup::contexts: size, capacity, storage
          contextOf,      \* the storage the thread's context pointer is in
          measurement,    \* state of the measurement thread of a channel
          stress,         \* state of a stress thread
          processing,     \* state of the processing thread of a channel
          samples         \* what has become of all_samples[c]

flags == <<measure_signal, go, stop>>
stressVars == <<stress, contexts, contextOf>>
vars == <<pc, arm, flags, stressVars, measurement, processing, samples>>

Used == 1 .. Plan[arm].channels  \* k_NumChannels
None(S) == [x \in S |-> "none"]
Goto(from, to) == pc = from /\ pc' = to

\* Live threads are between creation and the return of their function.
Live(state) == {x \in DOMAIN state : state[x] \notin {"none", "exited"}}
Created(state) == {x \in DOMAIN state : state[x] # "none"}
NextOf(state) == LET n == CHOOSE n \in 0 .. Len(state) :
                            Created(state) = 1 .. n
                 IN n + 1

Init ==
  /\ pc = "idle" /\ arm = 1
  /\ measure_signal = FALSE /\ go = FALSE /\ stop = FALSE
  /\ contexts = [size |-> 0, capacity |-> 0, storage |-> 0]
  /\ contextOf = [k \in StressThreads |-> 0]
  /\ measurement = None(Channels) /\ processing = None(Channels)
  /\ stress = None(StressThreads)
  /\ samples = [c \in Channels |-> "none"]

-----------------------------------------------------------------------------
(* The main thread in run_arm. *)

\* Mutant: contexts are pushed without reserve().
StartArmWithoutReserve ==
  /\ arm <= Len(Plan)
  /\ Goto("idle", IF Plan[arm].stress THEN "startStress" ELSE "startMeasurement")
  /\ samples' = [c \in Channels |-> IF c \in Used THEN "zero" ELSE "none"]
  /\ go' = FALSE /\ stop' = FALSE
  /\ contexts' = [size |-> 0, capacity |-> 0, storage |-> 0]
  /\ UNCHANGED <<arm, measure_signal, stress, contextOf, measurement, processing>>

\* Sample arrays are allocated and zeroed; StressGroup is constructed.
StartArm ==
  /\ arm <= Len(Plan)
  /\ Goto("idle", IF Plan[arm].stress THEN "startStress" ELSE "startMeasurement")
  /\ samples' = [c \in Channels |-> IF c \in Used THEN "zero" ELSE "none"]
  /\ go' = FALSE /\ stop' = FALSE
  /\ contexts' = [size |-> 0,
                  capacity |-> IF Plan[arm].stress THEN NStress ELSE 0,
                  storage |-> 0]  \* reserve(m_config.n_stress)
  /\ UNCHANGED <<arm, measure_signal, stress, contextOf, measurement, processing>>

\* push_back(context) and the creation of the thread that points to it.  A
\* push_back beyond the capacity moves the contexts to a new storage.
CreateStressThread ==
  /\ pc = "startStress" /\ contexts.size < NStress
  /\ contexts' =
       [size |-> contexts.size + 1,
        capacity |-> IF contexts.size < contexts.capacity
                     THEN contexts.capacity ELSE contexts.size + 1,
        storage |-> IF contexts.size < contexts.capacity
                    THEN contexts.storage ELSE contexts.storage + 1]
  /\ contextOf' = [contextOf EXCEPT ![contexts.size + 1] = contexts'.storage]
  /\ stress' = [stress EXCEPT ![contexts.size + 1] = "setup"]
  /\ UNCHANGED <<pc, arm, flags, measurement, processing, samples>>

\* Mutant: the stress threads are not let go.
StressNoGo ==
  /\ contexts.size = NStress
  /\ Goto("startStress", "startMeasurement")
  /\ UNCHANGED <<arm, flags, stressVars, measurement, processing, samples>>

StressGo ==
  /\ contexts.size = NStress
  /\ Goto("startStress", "startMeasurement")
  /\ go' = TRUE
  /\ UNCHANGED <<arm, measure_signal, stop, stressVars, measurement, processing,
                 samples>>

CreateMeasurementThread ==
  /\ pc = "startMeasurement" /\ NextOf(measurement) \in Used
  /\ measurement' = [measurement EXCEPT ![NextOf(measurement)] = "setup"]
  /\ UNCHANGED <<pc, arm, flags, stressVars, processing, samples>>

MeasureSignal ==
  /\ NextOf(measurement) \notin Used
  /\ Goto("startMeasurement", "joinMeasurement")
  /\ measure_signal' = TRUE
  /\ UNCHANGED <<arm, go, stop, stressVars, measurement, processing, samples>>

\* Mutant: the threads are not waited for.
JoinMeasurementAtOnce ==
  /\ Goto("joinMeasurement", IF Plan[arm].stress THEN "stopStress"
                                                 ELSE "startProcessing")
  /\ UNCHANGED <<arm, flags, stressVars, measurement, processing, samples>>

JoinMeasurement ==
  /\ Live(measurement) = {}
  /\ Goto("joinMeasurement", IF Plan[arm].stress THEN "stopStress"
                                                 ELSE "startProcessing")
  /\ UNCHANGED <<arm, flags, stressVars, measurement, processing, samples>>

\* Mutant: the flag is not set.
StressStopUnset ==
  /\ Goto("stopStress", "joinStress")
  /\ UNCHANGED <<arm, flags, stressVars, measurement, processing, samples>>

StressStop ==
  /\ Goto("stopStress", "joinStress")
  /\ stop' = TRUE
  /\ UNCHANGED <<arm, measure_signal, go, stressVars, measurement, processing,
                 samples>>

\* Mutant: the threads are not waited for.
JoinStressAtOnce ==
  /\ Goto("joinStress", "startProcessing")
  /\ UNCHANGED <<arm, flags, stressVars, measurement, processing, samples>>

JoinStress ==
  /\ Live(stress) = {}
  /\ Goto("joinStress", "startProcessing")
  /\ UNCHANGED <<arm, flags, stressVars, measurement, processing, samples>>

CreateProcessingThread ==
  /\ pc = "startProcessing" /\ NextOf(processing) \in Used
  /\ processing' = [processing EXCEPT ![NextOf(processing)] = "processing"]
  /\ UNCHANGED <<pc, arm, flags, stressVars, measurement, samples>>

\* process_hedged_data reads the samples of all channels on the main thread.
PairSamples ==
  /\ NextOf(processing) \notin Used
  /\ Goto("startProcessing", "pairing")
  /\ UNCHANGED <<arm, flags, stressVars, measurement, processing, samples>>

PairingDone ==
  /\ Goto("pairing", "joinProcessing")
  /\ UNCHANGED <<arm, flags, stressVars, measurement, processing, samples>>

JoinProcessing ==
  /\ Live(processing) = {}
  /\ Goto("joinProcessing", "free")
  /\ UNCHANGED <<arm, flags, stressVars, measurement, processing, samples>>

\* The arrays are freed and run_arm's locals destroyed.
FreeSamples ==
  /\ Goto("free", "reset")
  /\ samples' = [c \in Channels |-> IF c \in Used THEN "freed" ELSE "none"]
  /\ UNCHANGED <<arm, flags, stressVars, measurement, processing>>

\* Mutant: the signal of this arm stays set.
ResetKeepingSignal ==
  /\ Goto("reset", IF arm = Len(Plan) THEN "done" ELSE "idle")
  /\ arm' = IF arm = Len(Plan) THEN arm ELSE arm + 1
  /\ measurement' = [c \in Channels |->
                       IF c \in Live(measurement) THEN measurement[c] ELSE "none"]
  /\ processing' = [c \in Channels |->
                      IF c \in Live(processing) THEN processing[c] ELSE "none"]
  /\ stress' = [k \in StressThreads |->
                  IF k \in Live(stress) THEN stress[k] ELSE "none"]
  /\ UNCHANGED <<flags, contexts, contextOf, samples>>

\* Benchmark::reset, and on to the next arm with no threads.
Reset ==
  /\ Goto("reset", IF arm = Len(Plan) THEN "done" ELSE "idle")
  /\ measure_signal' = FALSE
  /\ arm' = IF arm = Len(Plan) THEN arm ELSE arm + 1
  /\ measurement' = [c \in Channels |->
                       IF c \in Live(measurement) THEN measurement[c] ELSE "none"]
  /\ processing' = [c \in Channels |->
                      IF c \in Live(processing) THEN processing[c] ELSE "none"]
  /\ stress' = [k \in StressThreads |->
                  IF k \in Live(stress) THEN stress[k] ELSE "none"]
  /\ UNCHANGED <<go, stop, contexts, contextOf, samples>>

Main ==
  \/ StartArm \/ CreateStressThread \/ StressGo
  \/ CreateMeasurementThread \/ MeasureSignal \/ JoinMeasurement
  \/ StressStop \/ JoinStress
  \/ CreateProcessingThread \/ PairSamples \/ PairingDone \/ JoinProcessing
  \/ FreeSamples \/ Reset

-----------------------------------------------------------------------------
(* The threads. *)

\* SetThreadAffinityMask returns 0 when it fails and otherwise the old mask,
\* which SetCurrentThreadProcessorID narrows to a BOOL.  The thread takes it for
\* a failure when it is negative, so a thread that was not pinned goes on.
SetupFails(affinity, priority) == affinity < 0 \/ ~priority

MeasurementSetup(c) ==
  /\ measurement[c] = "setup"
  /\ \E affinity \in -1 .. 1, priority \in BOOLEAN :
       measurement' = [measurement EXCEPT ![c] =
         IF SetupFails(affinity, priority) THEN "exited" ELSE "waiting"]
  /\ UNCHANGED <<pc, arm, flags, stressVars, processing, samples>>

Measure(c) ==
  /\ measurement[c] = "waiting" /\ measure_signal
  /\ measurement' = [measurement EXCEPT ![c] = "measuring"]
  /\ samples' = [samples EXCEPT ![c] = "partial"]
  /\ UNCHANGED <<pc, arm, flags, stressVars, processing>>

MeasurementEnds(c) ==
  /\ measurement[c] = "measuring"
  /\ measurement' = [measurement EXCEPT ![c] = "exited"]
  /\ samples' = [samples EXCEPT ![c] = "full"]
  /\ UNCHANGED <<pc, arm, flags, stressVars, processing>>

StressSetup(k) ==
  /\ stress[k] = "setup"
  /\ \E affinity \in -1 .. 1, priority \in BOOLEAN :
       stress' = [stress EXCEPT ![k] =
         IF SetupFails(affinity, priority) THEN "exited" ELSE "waiting"]
  /\ UNCHANGED <<pc, arm, flags, contexts, contextOf, measurement, processing,
                 samples>>

Stress(k) ==
  /\ stress[k] = "waiting" /\ go
  /\ stress' = [stress EXCEPT ![k] = "stressing"]
  /\ UNCHANGED <<pc, arm, flags, contexts, contextOf, measurement, processing,
                 samples>>

StressEnds(k) ==
  /\ stress[k] = "stressing" /\ stop
  /\ stress' = [stress EXCEPT ![k] = "exited"]
  /\ UNCHANGED <<pc, arm, flags, contexts, contextOf, measurement, processing,
                 samples>>

ProcessingEnds(c) ==
  /\ processing[c] = "processing"
  /\ processing' = [processing EXCEPT ![c] = "exited"]
  /\ UNCHANGED <<pc, arm, flags, stressVars, measurement, samples>>

MeasurementThread(c) == MeasurementSetup(c) \/ Measure(c) \/ MeasurementEnds(c)
StressThread(k) == StressSetup(k) \/ Stress(k) \/ StressEnds(k)

Finished == pc = "done" /\ UNCHANGED vars

Next ==
  \/ Main
  \/ \E c \in Channels : MeasurementThread(c) \/ ProcessingEnds(c)
  \/ \E k \in StressThreads : StressThread(k)
  \/ Finished

\* The operating system runs every thread that can take a step.
Fairness ==
  /\ WF_vars(Main)
  /\ \A c \in Channels : WF_vars(MeasurementThread(c)) /\ WF_vars(ProcessingEnds(c))
  /\ \A k \in StressThreads : WF_vars(StressThread(k))

Spec == Init /\ [][Next]_vars /\ Fairness

-----------------------------------------------------------------------------
\* Types of the state.
TypeOK ==
  /\ pc \in {"idle", "startStress", "startMeasurement", "joinMeasurement",
             "stopStress", "joinStress", "startProcessing", "pairing",
             "joinProcessing", "free", "reset", "done"}
  /\ arm \in DOMAIN Plan
  /\ measure_signal \in BOOLEAN /\ go \in BOOLEAN /\ stop \in BOOLEAN
  /\ contexts \in [size : 0 .. NStress, capacity : 0 .. NStress, storage : Nat]
  /\ contextOf \in [StressThreads -> Nat]
  /\ measurement \in
       [Channels -> {"none", "setup", "waiting", "measuring", "exited"}]
  /\ stress \in
       [StressThreads -> {"none", "setup", "waiting", "stressing", "exited"}]
  /\ processing \in [Channels -> {"none", "processing", "exited"}]
  /\ samples \in [Channels -> {"none", "zero", "partial", "full", "freed"}]

\* The main thread and the threads it starts share the sample arrays without
\* a lock: nobody uses an array that is freed, and nobody reads one that its
\* measurement thread is still writing.
SamplesSafe ==
  \A c \in Channels :
    /\ c \in Live(measurement) => samples[c] \in {"zero", "partial"}
    /\ c \in Live(processing) \/ (pc = "pairing" /\ c \in Used)
         => samples[c] \in {"zero", "full"}

\* Threads hold pointers to run_arm's locals (contexts, StressGroup, flags), and
\* a joinable std::thread must not be destroyed: no thread is left when run_arm
\* returns, and until then a stress thread's pointer stays valid while later
\* contexts are pushed into the same vector (lines 207, 229-237).
LocalsOutliveThreads ==
  /\ pc \in {"free", "reset", "idle", "done"} =>
       Live(measurement) \cup Live(stress) \cup Live(processing) = {}
  /\ \A k \in Live(stress) : contextOf[k] = contexts.storage

\* Measurement starts only after the signal of its own arm, so never while the
\* main thread is still creating threads of that arm.
NoEarlyMeasurement ==
  \A c \in Channels : measurement[c] = "measuring" => pc = "joinMeasurement"

\* A quiet arm measures with no stress thread alive, a stress arm with none
\* told to stop: the two latency distributions the CSV compares are not mixed.
LoadMatchesArm ==
  \A c \in Channels : measurement[c] = "measuring" =>
    IF Plan[arm].stress THEN go /\ ~stop ELSE Live(stress) = {}

\* Every arm comes to its end: no join waits for a thread that waits for a flag
\* nobody will set.
Termination == <>[](pc = "done")

\* "Barrier because we want to make sure thread creation / setup time isn't
\* adding noise" (benchmark.cpp:31), "Signals all the measurement threads to
\* start at the same time" (benchmark.cpp:183): while a channel measures, no
\* other measurement thread is in its setup.
SetupIsOverWhenMeasuring ==
  \A c, d \in Channels : measurement[c] = "measuring" => measurement[d] # "setup"

=============================================================================
