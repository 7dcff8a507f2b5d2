------------------------ MODULE ThreadManagerProofs ------------------------
(***************************************************************************)
(* Proofs about ThreadManager for every topology.                          *)
(*                                                                         *)
(* Inv is inductive for SpecAnyCore, the client that may free a core any   *)
(* time.  Each operation has one lemma that says what it does to the shape *)
(* of the two maps, to the set of free threads and to the two counters;    *)
(* the theorems about the counters follow from those by cardinality.       *)
(***************************************************************************)
EXTENDS ThreadManager, FiniteSetTheorems, TLAPS

Keys ==
  /\ DOMAIN free \subseteq Cores
  /\ DOMAIN partial \subseteq Cores

\* Before initialize and after destroy there is nothing; in between the core
\* map is the topology, and real cores are never added to it.
Idle ==
  /\ m_map = {} /\ coreToThreads = EmptyMap
  /\ partial = EmptyMap /\ free = EmptyMap
  /\ freeThreadCount = 0 /\ freeCoreCount = 0 /\ held = {}

Running ==
  /\ m_map = Threads
  /\ coreToThreads = [c \in Cores |-> ThreadsOf(c)]

\* What the lemmas about single operations preserve.
Shape == Keys /\ CoreState

\* Everything but the counters.
Inv0 == TypeOK /\ ~ub /\ Shape /\ (Idle \/ Running) /\ NoThreadLostOrShared

Inv == Inv0 /\ CoreCountExact /\ ThreadCountCovers

-----------------------------------------------------------------------------
\* A core of the topology has a thread, and the topology is finite.
LEMMA TopologyFacts ==
  /\ IsFiniteSet(Cores)
  /\ \A c \in Cores : ThreadsOf(c) # {} /\ ThreadsOf(c) \subseteq Threads
  /\ \A S \in SUBSET Threads : IsFiniteSet(S)
  /\ \A S \in SUBSET Cores : IsFiniteSet(S)
<1>1. \A c \in Cores : ThreadsOf(c) # {} /\ ThreadsOf(c) \subseteq Threads
  BY TopologyAssumption DEF ThreadsOf
<1>2. CoreOf \in Surjection(Threads, Cores)
  BY TopologyAssumption DEF Surjection
<1>3. IsFiniteSet(Cores)
  BY <1>2, TopologyAssumption, FS_Surjection
<1> QED
  BY <1>1, <1>3, TopologyAssumption, FS_Subset

\* Which threads are free, core by core.
LEMMA FreeThreadsByCore ==
  ASSUME Shape
  PROVE  /\ FreeThreads \subseteq Threads
         /\ \A t \in Threads :
              t \in FreeThreads <=>
                \/ CoreOf[t] \in DOMAIN free
                \/ CoreOf[t] \in DOMAIN partial /\ t \in partial[CoreOf[t]]
  BY TopologyAssumption DEF Shape, Keys, CoreState, FreeThreads, Listed, ThreadsOf

\* The same for the next state.
LEMMA FreeThreadsByCoreNext ==
  ASSUME Shape'
  PROVE  /\ FreeThreads' \subseteq Threads
         /\ \A t \in Threads :
              t \in FreeThreads' <=>
                \/ CoreOf[t] \in DOMAIN free'
                \/ CoreOf[t] \in DOMAIN partial' /\ t \in partial'[CoreOf[t]]
  BY TopologyAssumption DEF Shape, Keys, CoreState, FreeThreads, Listed, ThreadsOf

\* A whole core free means the free map has it.
LEMMA WholeCoreFree ==
  ASSUME Shape, NEW c \in Cores, ThreadsOf(c) \subseteq FreeThreads
  PROVE  c \in DOMAIN free
<1>1. PICK t \in Threads : CoreOf[t] = c
  BY TopologyAssumption
<1>2. CASE c \notin DOMAIN free
  <2>1. \A u \in ThreadsOf(c) : c \in DOMAIN partial /\ u \in partial[c]
    BY <1>2, FreeThreadsByCore DEF ThreadsOf
  <2>2. t \in ThreadsOf(c)
    BY <1>1 DEF ThreadsOf
  <2> QED
    BY <2>1, <2>2 DEF Shape, CoreState
<1> QED
  BY <1>2

-----------------------------------------------------------------------------
\* allocateProcessor takes all threads of a core that was completely free.
LEMMA AllocateProcessorEffect ==
  ASSUME Inv0, Ready, NEW key \in DOMAIN free, AllocateProcessorFrom(key)
  PROVE  /\ Shape'
         /\ key \in Cores /\ free[key] = ThreadsOf(key)
         /\ ThreadsOf(key) \subseteq FreeThreads
         /\ FreeThreads' = FreeThreads \ ThreadsOf(key)
         /\ DOMAIN free' = DOMAIN free \ {key}
         /\ TypeOK => free' \in [DOMAIN free' -> SUBSET Threads]
<1> USE DEF Inv0
<1>1. key \in Cores /\ free[key] = ThreadsOf(key)
  BY DEF Shape, Keys, CoreState
<1>2. /\ DOMAIN free' = DOMAIN free \ {key}
      /\ \A c \in DOMAIN free' : free'[c] = free[c]
      /\ partial' = partial
  BY DEF AllocateProcessorFrom, Erase
<1>3. Shape'
  BY <1>2 DEF Shape, Keys, CoreState, ThreadsOf
<1>4. ThreadsOf(key) \subseteq FreeThreads
  BY <1>1, FreeThreadsByCore DEF ThreadsOf
<1>5. FreeThreads' = FreeThreads \ ThreadsOf(key)
  <2>1. \A t \in Threads : t \in FreeThreads' <=> t \in FreeThreads \ ThreadsOf(key)
    BY <1>1, <1>2, <1>3, FreeThreadsByCore, FreeThreadsByCoreNext
    DEF Shape, CoreState, ThreadsOf
  <2> QED
    BY <1>3, <2>1, FreeThreadsByCore, FreeThreadsByCoreNext
<1>6. TypeOK => free' \in [DOMAIN free' -> SUBSET Threads]
  BY DEF TypeOK, AllocateProcessorFrom, Erase
<1> QED
  BY <1>1, <1>2, <1>3, <1>4, <1>5, <1>6

\* freeProcessor of a core that is not completely free makes it so.
LEMMA FreeProcessorEffect ==
  ASSUME Inv0, Ready, NEW c \in Cores, FreeProcessor(c),
         ~FreeProcessorRefuses(c)
  PROVE  /\ Shape'
         /\ coreToThreads' = coreToThreads
         /\ coreToThreads[c] = ThreadsOf(c)
         /\ FreeThreads' = FreeThreads \cup ThreadsOf(c)
         /\ c \notin DOMAIN partial => ThreadsOf(c) \cap FreeThreads = {}
         /\ c \notin DOMAIN free
         /\ DOMAIN free' = DOMAIN free \cup {c}
         /\ free' \in [DOMAIN free' -> SUBSET Threads]
         /\ partial' \in [DOMAIN partial' -> SUBSET Processors]
<1> USE DEF Inv0
<1>1. Running
  BY DEF Ready, Idle
<1>2. c \in DOMAIN coreToThreads /\ At(coreToThreads, c) = ThreadsOf(c)
      /\ coreToThreads[c] = ThreadsOf(c)
  BY <1>1 DEF Running, At
<1>3. /\ coreToThreads' = Put(coreToThreads, c, coreToThreads[c])
      /\ partial' = Erase(partial, c)
      /\ free' = Put(free, c, ThreadsOf(c))
  BY <1>2 DEF FreeProcessor
<1>4. coreToThreads' = coreToThreads
  BY <1>1, <1>2, <1>3 DEF Put, Running
<1>5. /\ DOMAIN free' = DOMAIN free \cup {c}
      /\ \A d \in DOMAIN free' :
           free'[d] = IF d = c THEN ThreadsOf(c) ELSE free[d]
      /\ DOMAIN partial' = DOMAIN partial \ {c}
      /\ \A d \in DOMAIN partial' : partial'[d] = partial[d]
  BY <1>3 DEF Put, Erase
<1>6. c \notin DOMAIN free
  BY DEF FreeProcessorRefuses
<1>7. Shape'
  <2>1. Keys'
    BY <1>5 DEF Shape, Keys
  <2>2. \A d \in DOMAIN free' : free'[d] = ThreadsOf(d)
    BY <1>5 DEF Shape, CoreState
  <2>3. DOMAIN free' \cap DOMAIN partial' = {}
    BY <1>5 DEF Shape, CoreState
  <2>4. CoreState'
    BY <1>5, <2>2, <2>3 DEF Shape, CoreState, ThreadsOf
  <2> QED
    BY <2>1, <2>4 DEF Shape
<1>8. FreeThreads' = FreeThreads \cup ThreadsOf(c)
  <2>1. \A t \in Threads :
          t \in FreeThreads' <=> t \in FreeThreads \cup ThreadsOf(c)
    BY <1>5, <1>7, FreeThreadsByCore, FreeThreadsByCoreNext DEF ThreadsOf
  <2> QED
    BY <1>7, <2>1, FreeThreadsByCore, FreeThreadsByCoreNext DEF ThreadsOf
<1>9. c \notin DOMAIN partial => ThreadsOf(c) \cap FreeThreads = {}
  BY <1>6, FreeThreadsByCore DEF ThreadsOf
<1>10. /\ free' \in [DOMAIN free' -> SUBSET Threads]
       /\ partial' \in [DOMAIN partial' -> SUBSET Processors]
  <2>1. free' \in [DOMAIN free' -> SUBSET Threads]
    BY <1>3 DEF Put, TypeOK, ThreadsOf
  <2>2. partial' \in [DOMAIN partial' -> SUBSET Processors]
    BY <1>3 DEF Erase, TypeOK
  <2> QED
    BY <2>1, <2>2
<1> QED
  BY <1>2, <1>4, <1>5, <1>6, <1>7, <1>8, <1>9, <1>10

-----------------------------------------------------------------------------
\* Taking one thread of a partially free core.
LEMMA AllocateThreadPartialEffect ==
  ASSUME Inv0, NEW key \in DOMAIN partial, TakeThread(partial, key),
         UNCHANGED <<free, freeCoreCount>>
  PROVE  /\ Shape'
         /\ \E t \in FreeThreads :
              /\ FreeThreads' = FreeThreads \ {t}
              /\ held' = held \cup {t}
              /\ ret' = [call |-> "allocateThread", value |-> t]
              /\ CoreOf[t] \in DOMAIN partial
         /\ partial' \in [DOMAIN partial' -> SUBSET Processors]
<1> USE DEF Inv0
<1>1. key \in Cores /\ partial[key] \subseteq ThreadsOf(key)
  BY DEF Shape, Keys, CoreState
<1>2. PICK t \in partial[key] :
        /\ partial' = IF partial[key] = {t} THEN Erase(partial, key)
                      ELSE Put(partial, key, partial[key] \ {t})
        /\ held' = held \cup {t}
        /\ ret' = [call |-> "allocateThread", value |-> t]
  BY DEF TakeThread, Returns
<1>3. t \in Threads /\ CoreOf[t] = key /\ t \in FreeThreads
  BY <1>1, <1>2, FreeThreadsByCore DEF ThreadsOf
<1>4. /\ DOMAIN partial' = IF partial[key] = {t} THEN DOMAIN partial \ {key}
                           ELSE DOMAIN partial
      /\ \A d \in DOMAIN partial' :
           partial'[d] = IF d = key THEN partial[key] \ {t} ELSE partial[d]
  BY <1>2 DEF Put, Erase
<1>5. Shape'
  <2>1. Keys'
    BY <1>4 DEF Shape, Keys
  <2>2. \A d \in DOMAIN partial' :
          /\ partial'[d] # {}
          /\ partial'[d] \subseteq ThreadsOf(d)
          /\ partial'[d] # ThreadsOf(d)
    <3> TAKE d \in DOMAIN partial'
    <3>1. CASE d = key
      <4>1. partial'[d] = partial[key] \ {t} /\ partial[key] # {t}
        BY <1>4, <3>1
      <4>2. t \in partial[key] /\ t \in ThreadsOf(key)
        BY <1>1, <1>2
      <4> QED
        BY <1>1, <3>1, <4>1, <4>2
    <3>2. CASE d # key
      BY <1>4, <3>2 DEF Shape, CoreState
    <3> QED
      BY <3>1, <3>2
  <2>3. CoreState'
    BY <1>4, <2>2 DEF Shape, CoreState, ThreadsOf
  <2> QED
    BY <2>1, <2>3 DEF Shape
<1>6. FreeThreads' = FreeThreads \ {t}
  <2>1. \A u \in Threads : u \in FreeThreads' <=> u \in FreeThreads \ {t}
    BY <1>3, <1>4, <1>5, FreeThreadsByCore, FreeThreadsByCoreNext
    DEF Shape, CoreState
  <2> QED
    BY <1>5, <2>1, FreeThreadsByCore, FreeThreadsByCoreNext
<1>7. partial' \in [DOMAIN partial' -> SUBSET Processors]
  BY <1>2 DEF TypeOK, Put, Erase
<1> QED
  BY <1>2, <1>3, <1>5, <1>6, <1>7

\* Taking one thread of a core that was completely free.
LEMMA AllocateThreadFreshEffect ==
  ASSUME Inv0, NEW key \in DOMAIN free, partial = EmptyMap,
         TakeThread(Put(partial, key, free[key]), key),
         free' = Erase(free, key)
  PROVE  /\ Shape'
         /\ \E t \in FreeThreads :
              /\ FreeThreads' = FreeThreads \ {t}
              /\ held' = held \cup {t}
              /\ ret' = [call |-> "allocateThread", value |-> t]
         /\ DOMAIN free' = DOMAIN free \ {key}
         /\ free' \in [DOMAIN free' -> SUBSET Threads]
         /\ partial' \in [DOMAIN partial' -> SUBSET Processors]
<1> USE DEF Inv0
<1>1. key \in Cores /\ free[key] = ThreadsOf(key) /\ ThreadsOf(key) # {}
  BY TopologyFacts DEF Shape, Keys, CoreState
<1> DEFINE opened == Put(partial, key, free[key])
<1>2. /\ DOMAIN opened = {key}
      /\ opened[key] = ThreadsOf(key)
  BY <1>1 DEF Put, EmptyMap
<1>3. PICK t \in opened[key] :
        /\ partial' = IF opened[key] = {t} THEN Erase(opened, key)
                      ELSE Put(opened, key, opened[key] \ {t})
        /\ held' = held \cup {t}
        /\ ret' = [call |-> "allocateThread", value |-> t]
  BY DEF TakeThread, Returns
<1>4. t \in Threads /\ CoreOf[t] = key /\ t \in FreeThreads
  BY <1>1, <1>2, <1>3, FreeThreadsByCore DEF ThreadsOf
<1>5. /\ DOMAIN partial' = IF ThreadsOf(key) = {t} THEN {} ELSE {key}
      /\ key \in DOMAIN partial' => partial'[key] = ThreadsOf(key) \ {t}
  <2> HIDE DEF opened
  <2> QED
    BY <1>2, <1>3 DEF Put, Erase
<1>6. /\ DOMAIN free' = DOMAIN free \ {key}
      /\ \A d \in DOMAIN free' : free'[d] = free[d]
  BY DEF Erase
<1> HIDE DEF opened
<1>7. Shape'
  <2>1. Keys'
    BY <1>1, <1>5, <1>6 DEF Shape, Keys
  <2>2. t \in ThreadsOf(key)
    BY <1>4 DEF ThreadsOf
  <2>3. \A d \in DOMAIN partial' :
          /\ partial'[d] # {}
          /\ partial'[d] \subseteq ThreadsOf(d)
          /\ partial'[d] # ThreadsOf(d)
    BY <1>5, <2>2
  <2>4. CoreState'
    BY <1>5, <1>6, <2>3 DEF Shape, CoreState, ThreadsOf
  <2> QED
    BY <2>1, <2>4 DEF Shape
<1>8. FreeThreads' = FreeThreads \ {t}
  <2>1. DOMAIN partial = {}
    BY DEF EmptyMap
  <2>2. \A u \in Threads : u \in FreeThreads' <=> u \in FreeThreads \ {t}
    BY <1>4, <1>5, <1>6, <1>7, <2>1, FreeThreadsByCore, FreeThreadsByCoreNext
    DEF ThreadsOf
  <2> QED
    BY <1>7, <2>2, FreeThreadsByCore, FreeThreadsByCoreNext
<1>9. free' \in [DOMAIN free' -> SUBSET Threads]
  BY DEF TypeOK, Erase
<1>10. partial' \in [DOMAIN partial' -> SUBSET Processors]
  <2>1. DOMAIN partial' \subseteq {key}
    BY <1>5
  <2>2. \A d \in DOMAIN partial' : partial'[d] \in SUBSET Processors
    BY <1>5 DEF ThreadsOf, Processors
  <2>3. partial' = [d \in DOMAIN partial' |-> partial'[d]]
    BY <1>3 DEF Put, Erase
  <2> QED
    BY <2>2, <2>3
<1> QED
  BY <1>3, <1>4, <1>6, <1>7, <1>8, <1>9, <1>10

-----------------------------------------------------------------------------
\* Freeing a thread that is not free lists it, alone or with its whole core.
LEMMA FreeThreadEffect ==
  ASSUME Inv0, Ready, NEW lp \in Threads, lp \notin FreeThreads,
         FreeThread(lp)
  PROVE  /\ Shape'
         /\ coreToThreads' = coreToThreads
         /\ FreeThreads' = FreeThreads \cup {lp}
         /\ \/ free' = free /\ freeCoreCount' = freeCoreCount
            \/ /\ freeCoreCount' = freeCoreCount + 1
               /\ CoreOf[lp] \notin DOMAIN free
               /\ DOMAIN free' = DOMAIN free \cup {CoreOf[lp]}
         /\ freeThreadCount' = freeThreadCount + 1
         /\ held' = held \ {lp}
         /\ UNCHANGED <<m_map, ub>>
         /\ free' \in [DOMAIN free' -> SUBSET Threads]
         /\ partial' \in [DOMAIN partial' -> SUBSET Processors]
<1> USE DEF Inv0
<1> DEFINE id == CoreOf[lp]
           list == At(partial, id) \cup {lp}
           all == ThreadsOf(id)
<1>1. Running
  BY DEF Ready, Idle
<1>2. id \in Cores /\ lp \in all /\ all \subseteq Threads
  BY TopologyAssumption DEF ThreadsOf
<1>3. /\ At(coreToThreads, id) = all
      /\ Put(coreToThreads, id, all) = coreToThreads
  BY <1>1, <1>2 DEF Running, At, Put
<1>4. /\ id \notin DOMAIN free
      /\ id \in DOMAIN partial => lp \notin partial[id]
  BY FreeThreadsByCore
<1>5. list \subseteq all
  BY <1>2 DEF At, Shape, CoreState
<1>6. Cardinality(list) = Cardinality(all) <=> list = all
  BY <1>2, <1>5, TopologyFacts, FS_Subset
<1>7. NoThread \notin FreeThreads
  BY FreeThreadsByCore, TopologyAssumption
<1>8. uniqueCoreID(lp) = id
  BY TopologyAssumption DEF uniqueCoreID
<1>9. /\ freeThreadCount' = freeThreadCount + 1
      /\ held' = held \ {lp}
      /\ UNCHANGED <<m_map, ub>>
      /\ coreToThreads' = coreToThreads
      /\ IF list = all
         THEN /\ partial' = Erase(partial, id)
              /\ free' = Put(free, id, all)
              /\ freeCoreCount' = freeCoreCount + 1
         ELSE /\ partial' = Put(partial, id, list)
              /\ UNCHANGED <<free, freeCoreCount>>
  BY <1>3, <1>6, <1>7, <1>8 DEF FreeThread
<1>10. list = {lp} \cup (IF id \in DOMAIN partial THEN partial[id] ELSE {})
  BY DEF At
<1> HIDE DEF list, all
<1>11. CASE list = all
  <2>1. /\ DOMAIN partial' = DOMAIN partial \ {id}
        /\ \A d \in DOMAIN partial' : partial'[d] = partial[d]
        /\ DOMAIN free' = DOMAIN free \cup {id}
        /\ \A d \in DOMAIN free' : free'[d] = IF d = id THEN all ELSE free[d]
    BY <1>9, <1>11 DEF Erase, Put
  <2>2. Shape'
    <3>1. Keys'
      BY <1>2, <2>1 DEF Shape, Keys
    <3>2. \A d \in DOMAIN free' : free'[d] = ThreadsOf(d)
      BY <2>1 DEF Shape, CoreState, all
    <3>3. DOMAIN free' \cap DOMAIN partial' = {}
      BY <2>1 DEF Shape, CoreState
    <3>4. CoreState'
      BY <2>1, <3>2, <3>3 DEF Shape, CoreState, ThreadsOf
    <3> QED
      BY <3>1, <3>4 DEF Shape
  <2>3. FreeThreads' = FreeThreads \cup {lp}
    <3>1. \A t \in Threads : t \in FreeThreads' <=> t \in FreeThreads \cup {lp}
      BY <1>4, <1>10, <1>11, <2>1, <2>2, FreeThreadsByCore,
         FreeThreadsByCoreNext DEF all, ThreadsOf
    <3> QED
      BY <2>2, <3>1, FreeThreadsByCore, FreeThreadsByCoreNext
  <2>4. /\ free' \in [DOMAIN free' -> SUBSET Threads]
        /\ partial' \in [DOMAIN partial' -> SUBSET Processors]
    BY <1>2, <1>9, <1>11 DEF TypeOK, Erase, Put
  <2> QED
    BY <1>4, <1>9, <1>11, <2>1, <2>2, <2>3, <2>4
<1>12. CASE list # all
  <2>1. /\ DOMAIN partial' = DOMAIN partial \cup {id}
        /\ \A d \in DOMAIN partial' :
             partial'[d] = IF d = id THEN list ELSE partial[d]
        /\ free' = free
    BY <1>9, <1>12 DEF Put
  <2>2. Shape'
    <3>1. Keys'
      BY <1>2, <2>1 DEF Shape, Keys
    <3>2. \A d \in DOMAIN partial' :
            /\ partial'[d] # {}
            /\ partial'[d] \subseteq ThreadsOf(d)
            /\ partial'[d] # ThreadsOf(d)
      BY <1>5, <1>10, <1>12, <2>1 DEF Shape, CoreState, all
    <3>3. CoreState'
      BY <1>4, <2>1, <3>2 DEF Shape, CoreState, ThreadsOf
    <3> QED
      BY <3>1, <3>3 DEF Shape
  <2>3. FreeThreads' = FreeThreads \cup {lp}
    <3>1. \A t \in Threads : t \in FreeThreads' <=> t \in FreeThreads \cup {lp}
      BY <1>4, <1>10, <2>1, <2>2, FreeThreadsByCore, FreeThreadsByCoreNext
    <3> QED
      BY <2>2, <3>1, FreeThreadsByCore, FreeThreadsByCoreNext
  <2>4. partial' \in [DOMAIN partial' -> SUBSET Processors]
    <3>1. list \subseteq Processors
      BY <1>2, <1>5 DEF Processors
    <3> QED
      BY <1>9, <1>12, <3>1 DEF TypeOK, Put
  <2> QED
    BY <1>9, <1>12, <2>1, <2>2, <2>3, <2>4 DEF TypeOK
<1> QED
  BY <1>11, <1>12

-----------------------------------------------------------------------------
\* Each operation preserves Inv, and with it the exact count unless it frees
\* a partially free core.
LEMMA QuietStep ==
  ASSUME Inv, ret' \in Results,
         UNCHANGED <<m_map, coreToThreads, partial, free, freeThreadCount,
                     freeCoreCount, held, ub>>
  PROVE  Inv' /\ (ThreadCountExact => ThreadCountExact')
  BY DEF Results, Inv, Inv0, TypeOK, Shape, Keys, CoreState, Idle, Running,
         NoThreadLostOrShared, CoreCountExact, ThreadCountCovers,
         ThreadCountExact, FreeThreads, Listed

\* initialize lists every core as completely free and counts exactly.
LEMMA InitializeStep ==
  ASSUME Inv, Initialize
  PROVE  Inv' /\ ThreadCountExact'
<1> USE DEF Inv, Inv0
<1>1. Idle
  BY TopologyAssumption DEF Initialize, Running
<1>2. /\ free' = [c \in Cores |-> ThreadsOf(c)]
      /\ coreToThreads' = [c \in Cores |-> ThreadsOf(c)]
      /\ partial' = EmptyMap /\ m_map' = Threads /\ held' = {} /\ ub' = FALSE
      /\ freeThreadCount' = Cardinality(Threads)
      /\ freeCoreCount' = Cardinality(Cores)
      /\ ret' = [call |-> "initialize", value |-> "ok"]
  BY <1>1 DEF Initialize, Idle, Returns, TypeOK
<1>3. DOMAIN partial' = {} /\ DOMAIN free' = Cores
  BY <1>2 DEF EmptyMap
<1>4. Shape'
  BY <1>2, <1>3 DEF Shape, Keys, CoreState, ThreadsOf
<1>5. FreeThreads' = Threads
  BY <1>3, <1>4, FreeThreadsByCoreNext, TopologyAssumption
<1>6. freeThreadCount' \in Nat /\ freeCoreCount' \in Nat
  BY <1>2, TopologyAssumption, TopologyFacts, FS_CardinalityType
<1>7. TypeOK'
  <2>1. free' \in [DOMAIN free' -> SUBSET Threads]
    BY <1>2, <1>3 DEF ThreadsOf
  <2>2. coreToThreads' \in [DOMAIN coreToThreads' -> SUBSET Threads]
        /\ DOMAIN coreToThreads' = Cores
    BY <1>2 DEF ThreadsOf
  <2>3. partial' \in [DOMAIN partial' -> SUBSET Processors]
    BY <1>2 DEF EmptyMap
  <2>4. ret' \in Results /\ ub' \in BOOLEAN
    BY <1>2 DEF Results, Calls
  <2>5. /\ m_map' \in {{}, Threads}
        /\ DOMAIN coreToThreads' \subseteq CoreIDs
        /\ DOMAIN partial' \subseteq CoreIDs
        /\ DOMAIN free' \subseteq CoreIDs
        /\ held' \subseteq Threads
    BY <1>2, <1>3, <2>2 DEF CoreIDs
  <2> QED
    BY <1>6, <2>1, <2>2, <2>3, <2>4, <2>5 DEF TypeOK, Results
<1>8. Running'
  BY <1>2 DEF Running, ThreadsOf
<1>9. NoThreadLostOrShared'
  BY <1>2, <1>5 DEF NoThreadLostOrShared
<1>10. CoreCountExact' /\ ThreadCountCovers' /\ ThreadCountExact'
  BY <1>2, <1>3, <1>5, <1>6
  DEF CoreCountExact, ThreadCountCovers, ThreadCountExact
<1> QED
  BY <1>2, <1>4, <1>7, <1>8, <1>9, <1>10

\* An object without a topology (before initialize, after destroy) meets Inv.
LEMMA IdleInv ==
  Idle /\ ub = FALSE /\ ret \in Results => Inv /\ ThreadCountExact
<1> SUFFICES ASSUME Idle, ub = FALSE, ret \in Results
             PROVE  Inv /\ ThreadCountExact
  OBVIOUS
<1>1. DOMAIN partial = {} /\ DOMAIN free = {} /\ DOMAIN coreToThreads = {}
  BY DEF Idle, EmptyMap
<1>2. FreeThreads = {}
  BY <1>1 DEF FreeThreads, Listed
<1>3. TypeOK
  <2>1. /\ EmptyMap \in [DOMAIN EmptyMap -> SUBSET Threads]
        /\ EmptyMap \in [DOMAIN EmptyMap -> SUBSET Processors]
    BY DEF EmptyMap
  <2> QED
    BY <1>1, <2>1 DEF TypeOK, Idle, Results
<1>4. Shape
  BY <1>1 DEF Shape, Keys, CoreState
<1>5. NoThreadLostOrShared
  BY DEF NoThreadLostOrShared, Idle
<1>6. CoreCountExact /\ ThreadCountCovers /\ ThreadCountExact
  BY <1>1, <1>2, FS_EmptySet
  DEF CoreCountExact, ThreadCountCovers, ThreadCountExact, Idle
<1> QED
  BY <1>3, <1>4, <1>5, <1>6 DEF Inv, Inv0

\* The same for the next state, for destroy.
LEMMA IdleInvNext ==
  (Idle /\ ub = FALSE /\ ret \in Results)' => (Inv /\ ThreadCountExact)'
  BY IdleInv, PTL

\* allocateProcessor preserves Inv and the exact count.
LEMMA AllocateProcessorStep ==
  ASSUME Inv, Ready, NEW key \in DOMAIN free, AllocateProcessorFrom(key)
  PROVE  Inv' /\ (ThreadCountExact => ThreadCountExact')
<1> USE DEF Inv, Inv0
<1>1. /\ Shape'
      /\ key \in Cores /\ free[key] = ThreadsOf(key)
      /\ ThreadsOf(key) \subseteq FreeThreads
      /\ FreeThreads' = FreeThreads \ ThreadsOf(key)
      /\ DOMAIN free' = DOMAIN free \ {key}
      /\ free' \in [DOMAIN free' -> SUBSET Threads]
  BY AllocateProcessorEffect
<1>2. /\ freeThreadCount' = freeThreadCount - Cardinality(ThreadsOf(key))
      /\ freeCoreCount' = freeCoreCount - 1
      /\ held' = held \cup ThreadsOf(key)
      /\ UNCHANGED <<m_map, coreToThreads, partial, ub>>
      /\ \E first \in ThreadsOf(key) :
           ret' = [call |-> "allocateProcessor", value |-> first]
  BY <1>1 DEF AllocateProcessorFrom, Returns
<1>3. /\ IsFiniteSet(FreeThreads)
      /\ FreeThreads \cap ThreadsOf(key) = ThreadsOf(key)
      /\ IsFiniteSet(ThreadsOf(key))
  BY <1>1, TopologyFacts, FreeThreadsByCore
<1>4. /\ Cardinality(FreeThreads') =
           Cardinality(FreeThreads) - Cardinality(ThreadsOf(key))
      /\ Cardinality(FreeThreads) \in Nat
      /\ Cardinality(ThreadsOf(key)) \in Nat
      /\ Cardinality(ThreadsOf(key)) <= Cardinality(FreeThreads)
  <2>1. /\ Cardinality(FreeThreads) \in Nat
        /\ Cardinality(ThreadsOf(key)) \in Nat
    BY <1>3, FS_CardinalityType
  <2>2. Cardinality(ThreadsOf(key)) <= Cardinality(FreeThreads)
    BY <1>1, <1>3, FS_Subset
  <2>3. Cardinality(FreeThreads \ ThreadsOf(key)) =
          Cardinality(FreeThreads) - Cardinality(FreeThreads \cap ThreadsOf(key))
    BY <1>3, FS_Difference
  <2> QED
    BY <1>1, <1>3, <2>1, <2>2, <2>3
<1>5. /\ Cardinality(DOMAIN free') = Cardinality(DOMAIN free) - 1
      /\ Cardinality(DOMAIN free') \in Nat
  <2>1. IsFiniteSet(DOMAIN free)
    BY TopologyFacts DEF Shape, Keys
  <2> QED
    BY <1>1, <2>1, FS_RemoveElement, FS_CardinalityType
<1>6. CoreCountExact' /\ freeCoreCount' \in Nat
  BY <1>2, <1>5 DEF CoreCountExact, TypeOK
<1>7. /\ ThreadCountCovers'
      /\ freeThreadCount' \in Nat
      /\ ThreadCountExact => ThreadCountExact'
  BY <1>2, <1>4 DEF ThreadCountCovers, ThreadCountExact, TypeOK
<1>8. ret' \in Results /\ held' \subseteq Threads
  BY <1>2, TopologyFacts, <1>1 DEF Results, Calls, Processors, TypeOK
<1>9. TypeOK'
  BY <1>1, <1>2, <1>6, <1>7, <1>8 DEF TypeOK, Results, Shape, Keys, CoreIDs
<1>10. Running'
  BY <1>2 DEF Ready, Idle, Running, ThreadsOf
<1>11. NoThreadLostOrShared'
  BY <1>1, <1>2 DEF NoThreadLostOrShared, Ready
<1> QED
  BY <1>1, <1>2, <1>6, <1>7, <1>9, <1>10, <1>11

\* freeProcessor preserves Inv; the count it adds is exact when none of the
\* core's threads was listed already.
LEMMA FreeProcessorStep ==
  ASSUME Inv, NEW c \in Cores, FreeProcessor(c)
  PROVE  /\ Inv'
         /\ c \notin DOMAIN partial /\ ThreadCountExact => ThreadCountExact'
<1> USE DEF Inv, Inv0
<1>1. ret' \in Results
  BY DEF FreeProcessor, Returns, Results, Calls, Processors
<1>2. CASE FreeProcessorRefuses(c)
  BY <1>1, <1>2, QuietStep DEF FreeProcessor
<1>3. CASE ~FreeProcessorRefuses(c)
  <2>1. Ready /\ Running
    BY DEF FreeProcessor, Ready, Idle
  <2>2. /\ Shape'
        /\ coreToThreads' = coreToThreads
        /\ coreToThreads[c] = ThreadsOf(c)
        /\ FreeThreads' = FreeThreads \cup ThreadsOf(c)
        /\ c \notin DOMAIN partial => ThreadsOf(c) \cap FreeThreads = {}
        /\ c \notin DOMAIN free
        /\ DOMAIN free' = DOMAIN free \cup {c}
        /\ free' \in [DOMAIN free' -> SUBSET Threads]
        /\ partial' \in [DOMAIN partial' -> SUBSET Processors]
    BY <1>3, <2>1, FreeProcessorEffect
  <2>3. At(coreToThreads, c) = ThreadsOf(c)
    BY <2>1, <2>2 DEF At, Running
  <2>4. /\ freeThreadCount' = freeThreadCount + Cardinality(ThreadsOf(c))
        /\ freeCoreCount' = freeCoreCount + 1
        /\ held' = held \ ThreadsOf(c)
        /\ UNCHANGED <<m_map, ub>>
    BY <1>3, <2>3 DEF FreeProcessor
  <2>5. /\ IsFiniteSet(FreeThreads) /\ IsFiniteSet(ThreadsOf(c))
        /\ IsFiniteSet(DOMAIN free)
    BY TopologyFacts, FreeThreadsByCore DEF Shape, Keys
  <2>6. /\ Cardinality(FreeThreads') =
             Cardinality(FreeThreads) + Cardinality(ThreadsOf(c))
               - Cardinality(FreeThreads \cap ThreadsOf(c))
        /\ Cardinality(FreeThreads) \in Nat
        /\ Cardinality(ThreadsOf(c)) \in Nat
        /\ Cardinality(FreeThreads \cap ThreadsOf(c)) \in Nat
    BY <2>2, <2>5, FS_Union, FS_CardinalityType, FS_Intersection
  <2>7. c \notin DOMAIN partial => Cardinality(FreeThreads \cap ThreadsOf(c)) = 0
    <3>1. c \notin DOMAIN partial => FreeThreads \cap ThreadsOf(c) = {}
      BY <2>2
    <3> QED
      BY <3>1, FS_EmptySet
  <2>8. /\ Cardinality(DOMAIN free') = Cardinality(DOMAIN free) + 1
        /\ Cardinality(DOMAIN free) \in Nat
    BY <2>2, <2>5, FS_AddElement, FS_CardinalityType
  <2>9. /\ CoreCountExact'
        /\ ThreadCountCovers'
        /\ freeThreadCount' \in Nat
        /\ freeCoreCount' \in Nat
        /\ c \notin DOMAIN partial /\ ThreadCountExact => ThreadCountExact'
    BY <2>4, <2>6, <2>7, <2>8
    DEF CoreCountExact, ThreadCountCovers, ThreadCountExact, TypeOK
  <2>10. TypeOK'
    BY <1>1, <2>2, <2>4, <2>9 DEF TypeOK, Shape, Keys, CoreIDs
  <2>11. Running'
    BY <2>1, <2>2, <2>4 DEF Running, ThreadsOf
  <2>12. NoThreadLostOrShared'
    BY <2>1, <2>2, <2>4, TopologyFacts DEF NoThreadLostOrShared, Ready
  <2> QED
    BY <2>2, <2>4, <2>9, <2>10, <2>11, <2>12
<1> QED
  BY <1>2, <1>3

\* Both ways of taking one thread: the set loses it and the count drops by one.
LEMMA OneThreadLess ==
  ASSUME Inv, NEW t \in FreeThreads, FreeThreads' = FreeThreads \ {t},
         freeThreadCount' = freeThreadCount - 1
  PROVE  /\ ThreadCountCovers' /\ freeThreadCount' \in Nat
         /\ ThreadCountExact => ThreadCountExact'
<1>1. IsFiniteSet(FreeThreads)
  BY TopologyFacts, FreeThreadsByCore DEF Inv, Inv0
<1>2. /\ Cardinality(FreeThreads') = Cardinality(FreeThreads) - 1
      /\ Cardinality(FreeThreads') \in Nat
      /\ Cardinality(FreeThreads) \in Nat
  BY <1>1, FS_RemoveElement, FS_CardinalityType
<1> QED
  BY <1>2 DEF Inv, Inv0, ThreadCountCovers, ThreadCountExact, TypeOK

\* allocateThread from a partially free core preserves Inv and the exact count.
LEMMA AllocateThreadOfPartialCoreStep ==
  ASSUME Inv, AllocateThreadOfPartialCore
  PROVE  Inv' /\ (ThreadCountExact => ThreadCountExact')
<1> USE DEF Inv, Inv0
<1>1. PICK key \in DOMAIN partial : TakeThread(partial, key)
  BY DEF AllocateThreadOfPartialCore
<1>2. UNCHANGED <<free, freeCoreCount>>
  BY DEF AllocateThreadOfPartialCore
<1>3. /\ Shape'
      /\ partial' \in [DOMAIN partial' -> SUBSET Processors]
  BY <1>1, <1>2, AllocateThreadPartialEffect
<1>4. PICK t \in FreeThreads :
        /\ FreeThreads' = FreeThreads \ {t}
        /\ held' = held \cup {t}
        /\ ret' = [call |-> "allocateThread", value |-> t]
  BY <1>1, <1>2, AllocateThreadPartialEffect
<1>5. /\ freeThreadCount' = freeThreadCount - 1
      /\ UNCHANGED <<m_map, coreToThreads, ub>>
  BY <1>1 DEF TakeThread
<1>6. t \in Threads
  BY FreeThreadsByCore
<1>7. /\ ThreadCountCovers' /\ freeThreadCount' \in Nat
      /\ ThreadCountExact => ThreadCountExact'
  BY <1>4, <1>5, OneThreadLess
<1>8. ret' \in Results /\ held' \subseteq Threads
  BY <1>4, <1>6 DEF Results, Calls, Processors, TypeOK
<1>9. TypeOK'
  BY <1>2, <1>3, <1>5, <1>7, <1>8 DEF TypeOK, Shape, Keys, CoreIDs
<1>10. Running'
  BY <1>5 DEF AllocateThreadOfPartialCore, Ready, Idle, Running, ThreadsOf
<1>11. NoThreadLostOrShared'
  BY <1>4, <1>5, <1>6
  DEF NoThreadLostOrShared, AllocateThreadOfPartialCore, Ready
<1>12. CoreCountExact'
  BY <1>2 DEF CoreCountExact
<1> QED
  BY <1>3, <1>5, <1>7, <1>9, <1>10, <1>11, <1>12

\* allocateThread from a fresh core preserves Inv and the exact count.
LEMMA AllocateThreadOfFreshCoreStep ==
  ASSUME Inv, AllocateThreadOfFreshCore
  PROVE  Inv' /\ (ThreadCountExact => ThreadCountExact')
<1> USE DEF Inv, Inv0
<1>1. PICK key \in DOMAIN free :
        /\ TakeThread(Put(partial, key, free[key]), key)
        /\ free' = Erase(free, key)
        /\ freeCoreCount' = freeCoreCount - 1
  BY DEF AllocateThreadOfFreshCore
<1>2. partial = EmptyMap
  BY DEF AllocateThreadOfFreshCore
<1>3. /\ Shape'
      /\ DOMAIN free' = DOMAIN free \ {key}
      /\ free' \in [DOMAIN free' -> SUBSET Threads]
      /\ partial' \in [DOMAIN partial' -> SUBSET Processors]
  BY <1>1, <1>2, AllocateThreadFreshEffect
<1>4. PICK t \in FreeThreads :
        /\ FreeThreads' = FreeThreads \ {t}
        /\ held' = held \cup {t}
        /\ ret' = [call |-> "allocateThread", value |-> t]
  BY <1>1, <1>2, AllocateThreadFreshEffect
<1>5. /\ freeThreadCount' = freeThreadCount - 1
      /\ UNCHANGED <<m_map, coreToThreads, ub>>
  BY <1>1 DEF TakeThread
<1>6. t \in Threads
  BY FreeThreadsByCore
<1>7. /\ ThreadCountCovers' /\ freeThreadCount' \in Nat
      /\ ThreadCountExact => ThreadCountExact'
  BY <1>4, <1>5, OneThreadLess
<1>8. ret' \in Results /\ held' \subseteq Threads
  BY <1>4, <1>6 DEF Results, Calls, Processors, TypeOK
<1>9. CoreCountExact' /\ freeCoreCount' \in Nat
  <2>1. IsFiniteSet(DOMAIN free)
    BY TopologyFacts DEF Shape, Keys
  <2>2. /\ Cardinality(DOMAIN free') = Cardinality(DOMAIN free) - 1
        /\ Cardinality(DOMAIN free') \in Nat
    BY <1>3, <2>1, FS_RemoveElement, FS_CardinalityType
  <2> QED
    BY <1>1, <2>2 DEF CoreCountExact
<1>10. TypeOK'
  BY <1>3, <1>5, <1>7, <1>8, <1>9 DEF TypeOK, Shape, Keys, CoreIDs
<1>11. Running'
  BY <1>5 DEF AllocateThreadOfFreshCore, Ready, Idle, Running, ThreadsOf
<1>12. NoThreadLostOrShared'
  BY <1>4, <1>5, <1>6
  DEF NoThreadLostOrShared, AllocateThreadOfFreshCore, Ready
<1> QED
  BY <1>3, <1>5, <1>7, <1>9, <1>10, <1>11, <1>12

\* freeThread of a real thread preserves Inv and the exact count.
LEMMA FreeThreadStep ==
  ASSUME Inv, NEW lp \in Threads, FreeThread(lp)
  PROVE  Inv' /\ (ThreadCountExact => ThreadCountExact')
<1> USE DEF Inv, Inv0
<1>1. NoThread \notin FreeThreads /\ lp # NoThread
  BY FreeThreadsByCore, TopologyAssumption
<1>2. ret' \in Results
  BY <1>1 DEF FreeThread, Returns, Results, Calls, Processors
<1>3. CASE lp \in FreeThreads
  BY <1>1, <1>2, <1>3, QuietStep DEF FreeThread
<1>4. CASE lp \notin FreeThreads
  <2>1. Ready /\ Running
    BY DEF FreeThread, Ready, Idle
  <2>2. /\ Shape'
        /\ coreToThreads' = coreToThreads
        /\ FreeThreads' = FreeThreads \cup {lp}
        /\ \/ free' = free /\ freeCoreCount' = freeCoreCount
           \/ /\ freeCoreCount' = freeCoreCount + 1
              /\ CoreOf[lp] \notin DOMAIN free
              /\ DOMAIN free' = DOMAIN free \cup {CoreOf[lp]}
        /\ freeThreadCount' = freeThreadCount + 1
        /\ held' = held \ {lp}
        /\ UNCHANGED <<m_map, ub>>
        /\ free' \in [DOMAIN free' -> SUBSET Threads]
        /\ partial' \in [DOMAIN partial' -> SUBSET Processors]
    BY <1>4, <2>1, FreeThreadEffect
  <2>3. IsFiniteSet(FreeThreads) /\ IsFiniteSet(DOMAIN free)
    BY TopologyFacts, FreeThreadsByCore DEF Shape, Keys
  <2>4. /\ Cardinality(FreeThreads') = Cardinality(FreeThreads) + 1
        /\ Cardinality(FreeThreads) \in Nat
    BY <1>4, <2>2, <2>3, FS_AddElement, FS_CardinalityType
  <2>5. CoreCountExact' /\ freeCoreCount' \in Nat
    <3>1. CASE free' = free /\ freeCoreCount' = freeCoreCount
      BY <3>1 DEF CoreCountExact, TypeOK
    <3>2. CASE /\ freeCoreCount' = freeCoreCount + 1
               /\ CoreOf[lp] \notin DOMAIN free
               /\ DOMAIN free' = DOMAIN free \cup {CoreOf[lp]}
      <4>1. Cardinality(DOMAIN free') = Cardinality(DOMAIN free) + 1
        BY <2>3, <3>2, FS_AddElement
      <4> QED
        BY <3>2, <4>1 DEF CoreCountExact, TypeOK
    <3> QED
      BY <2>2, <3>1, <3>2
  <2>6. /\ ThreadCountCovers' /\ freeThreadCount' \in Nat
        /\ ThreadCountExact => ThreadCountExact'
    BY <2>2, <2>4 DEF ThreadCountCovers, ThreadCountExact, TypeOK
  <2>7. TypeOK'
    BY <1>2, <2>2, <2>5, <2>6 DEF TypeOK, Shape, Keys, CoreIDs
  <2>8. Running'
    BY <2>1, <2>2 DEF Running, ThreadsOf
  <2>9. NoThreadLostOrShared'
    BY <2>1, <2>2 DEF NoThreadLostOrShared, Ready
  <2> QED
    BY <2>2, <2>5, <2>6, <2>7, <2>8, <2>9
<1> QED
  BY <1>3, <1>4

-----------------------------------------------------------------------------
\* The constructed object meets Inv and counts exactly.
LEMMA InitInv == Init => Inv /\ ThreadCountExact
<1>1. Init => Idle /\ ub = FALSE /\ ret \in Results
  BY DEF Init, Idle, Results, Calls, Processors
<1> QED
  BY <1>1, IdleInv

\* Every call on real cores and threads preserves Inv; every call but the
\* freeing of a partially free core keeps the thread count exact.
LEMMA CommonStep ==
  ASSUME Inv, CommonNext
  PROVE  Inv' /\ (ThreadCountExact => ThreadCountExact')
<1>1. CASE Initialize
  BY <1>1, InitializeStep
<1>2. CASE InitializeRefused
  <2>1. ret' \in Results
    BY <1>2 DEF InitializeRefused, Returns, Results, Calls
  <2> QED
    BY <1>2, <2>1, QuietStep DEF InitializeRefused
<1>3. CASE Destroy
  <2>1. (Idle /\ ub = FALSE /\ ret \in Results)'
    BY <1>3 DEF Destroy, Idle, Returns, Results, Calls, Processors, EmptyMap,
                Inv, Inv0, TypeOK
  <2> QED
    BY <2>1, IdleInvNext
<1>4. CASE AllocateProcessor
  <2>1. PICK key \in DOMAIN free :
          AllocateProcessorFrom(key) \/ AllocateProcessorReadsPast(key)
    BY <1>4 DEF AllocateProcessor
  <2>2. free[key] # {}
    BY TopologyFacts DEF Inv, Inv0, Shape, Keys, CoreState
  <2>3. AllocateProcessorFrom(key) /\ Ready
    BY <1>4, <2>1, <2>2 DEF AllocateProcessor, AllocateProcessorReadsPast
  <2> QED
    BY <2>3, AllocateProcessorStep
<1>5. CASE AllocateProcessorFails
  <2>1. ret' \in Results
    BY <1>5 DEF AllocateProcessorFails, Returns, Results, Calls, Processors
  <2> QED
    BY <1>5, <2>1, QuietStep DEF AllocateProcessorFails
<1>6. CASE AllocateThread
  <2>1. CASE AllocateThreadReadsPast
    <3>1. \A key \in DOMAIN partial :
            partial[key] # {} /\ NoThread \notin partial[key]
      BY TopologyAssumption
      DEF Inv, Inv0, Shape, Keys, CoreState, ThreadsOf
    <3>2. \A key \in DOMAIN free : free[key] # {}
      BY TopologyFacts DEF Inv, Inv0, Shape, Keys, CoreState
    <3> QED
      BY <2>1, <3>1, <3>2 DEF AllocateThreadReadsPast
  <2> QED
    BY <1>6, <2>1, AllocateThreadOfPartialCoreStep,
       AllocateThreadOfFreshCoreStep DEF AllocateThread
<1>7. CASE AllocateThreadFails
  <2>1. ret' \in Results
    BY <1>7 DEF AllocateThreadFails, Returns, Results, Calls, Processors
  <2> QED
    BY <1>7, <2>1, QuietStep DEF AllocateThreadFails
<1>8. CASE \E t \in Threads : FreeThread(t)
  BY <1>8, FreeThreadStep
<1> QED
  BY <1>1, <1>2, <1>3, <1>4, <1>5, <1>6, <1>7, <1>8 DEF CommonNext

\* A step that changes nothing preserves Inv and the exact count.
LEMMA StutterStep ==
  ASSUME Inv, UNCHANGED vars
  PROVE  Inv' /\ (ThreadCountExact => ThreadCountExact')
<1>1. ret' \in Results
  BY DEF vars, Inv, Inv0, TypeOK
<1> QED
  BY <1>1, QuietStep DEF vars

\* Inv is an invariant of the manager under any client that passes back real
\* cores and threads, whatever the topology.
THEOREM AnyCoreInv == SpecAnyCore => []Inv
<1>1. ASSUME Inv, [NextAnyCore]_vars
      PROVE  Inv'
  <2>1. CASE CommonNext
    BY <1>1, <2>1, CommonStep
  <2>2. CASE \E c \in Cores : freeThreadCount <= CountBound /\ FreeProcessor(c)
    BY <1>1, <2>2, FreeProcessorStep
  <2>3. CASE UNCHANGED vars
    BY <1>1, <2>3, StutterStep
  <2> QED
    BY <1>1, <2>1, <2>2, <2>3 DEF NextAnyCore
<1> QED
  BY <1>1, InitInv, PTL DEF SpecAnyCore

\* The members keep their types: the counters never go below zero, so the
\* uint32_t arithmetic of proc.cpp never wraps.
THEOREM AnyCoreTypeOK == SpecAnyCore => []TypeOK
<1>1. Inv => TypeOK
  BY DEF Inv, Inv0
<1> QED
  BY <1>1, AnyCoreInv, PTL

\* A core is in one map at most and listed whole or in part accordingly.
THEOREM AnyCoreState == SpecAnyCore => []CoreState
<1>1. Inv => CoreState
  BY DEF Inv, Inv0, Shape
<1> QED
  BY <1>1, AnyCoreInv, PTL

\* The counter that gates m_freeCoreMap.begin() is the size of that map, whatever
\* partially free cores the client frees (proc.cpp, lines 484-498 and 524-535).
THEOREM AnyCoreCountExact == SpecAnyCore => []CoreCountExact
<1>1. Inv => CoreCountExact
  BY DEF Inv
<1> QED
  BY <1>1, AnyCoreInv, PTL

\* No thread is lost or given to two holders, not even by a client that frees
\* partially free cores.
THEOREM AnyCoreNoThreadLostOrShared == SpecAnyCore => []NoThreadLostOrShared
<1>1. Inv => NoThreadLostOrShared
  BY DEF Inv, Inv0
<1> QED
  BY <1>1, AnyCoreInv, PTL

\* m_freeThreadCount never runs below the threads really free.
THEOREM AnyCoreThreadCountCovers == SpecAnyCore => []ThreadCountCovers
<1>1. Inv => ThreadCountCovers
  BY DEF Inv
<1> QED
  BY <1>1, AnyCoreInv, PTL

\* No sequence of calls on real cores and threads reads past a vector.
THEOREM AnyCoreDefined == SpecAnyCore => []OnlySentinelBreaks
<1>1. Inv => OnlySentinelBreaks
  BY DEF Inv, Inv0, OnlySentinelBreaks
<1> QED
  BY <1>1, AnyCoreInv, PTL

\* For a client that never frees a partially free core m_freeThreadCount is
\* exactly the number of threads the two maps list.
THEOREM ExactCount == Spec => [](Inv /\ ThreadCountExact)
<1>1. ASSUME Inv, ThreadCountExact, [Next]_vars
      PROVE  Inv' /\ ThreadCountExact'
  <2>1. CASE CommonNext
    BY <1>1, <2>1, CommonStep
  <2>2. CASE \E c \in Cores : c \notin DOMAIN partial /\ FreeProcessor(c)
    BY <1>1, <2>2, FreeProcessorStep
  <2>3. CASE UNCHANGED vars
    BY <1>1, <2>3, StutterStep
  <2> QED
    BY <1>1, <2>1, <2>2, <2>3 DEF Next
<1> QED
  BY <1>1, InitInv, PTL DEF Spec

\* allocateThread's branch "Should never reach this due to m_freeThreadCount
\* check" (proc.cpp:551) is unreachable for such a client.
THEOREM ExactCountBranch == Spec => []CountBranchUnreachable
<1>1. ASSUME Inv, ThreadCountExact
      PROVE  CountBranchUnreachable
  <2>1. NothingListed => FreeThreads = {}
    BY DEF NothingListed, EmptyMap, FreeThreads, Listed
  <2> QED
    BY <1>1, <2>1, FS_EmptySet DEF CountBranchUnreachable, ThreadCountExact
<1> QED
  BY <1>1, ExactCount, PTL

-----------------------------------------------------------------------------
\* allocateThread gives up where a counter is zero or both maps are empty: in either
\* case no thread is listed.
LEMMA ThreadRefused ==
  ASSUME Inv, AllocateThreadFails
  PROVE  FreeThreads = {}
<1>1. CASE NothingListed
  BY <1>1 DEF NothingListed, EmptyMap, FreeThreads, Listed
<1>2. CASE freeThreadCount = 0
  <2>1. IsFiniteSet(FreeThreads)
    BY FreeThreadsByCore, TopologyFacts DEF Inv, Inv0
  <2>2. Cardinality(FreeThreads) \in Nat /\ Cardinality(FreeThreads) <= 0
    BY <1>2, <2>1, FS_CardinalityType DEF Inv, ThreadCountCovers
  <2> QED BY <2>1, <2>2, FS_EmptySet
<1> QED BY <1>1, <1>2 DEF AllocateThreadFails

\* allocateProcessor gives up where no core is counted: then no core has all its
\* threads listed, for a core that is only in the other map lacks one.
LEMMA ProcessorRefused ==
  ASSUME Inv, AllocateProcessorFails, NEW c \in Cores
  PROVE  ~(ThreadsOf(c) \subseteq FreeThreads)
<1> USE DEF Inv, Inv0
<1>1. DOMAIN free = {}
  <2>1. IsFiniteSet(DOMAIN free)
    BY TopologyFacts DEF Shape, Keys
  <2>2. Cardinality(DOMAIN free) = 0
    BY DEF AllocateProcessorFails, CoreCountExact
  <2> QED BY <2>1, <2>2, FS_EmptySet
<1>2. PICK t \in ThreadsOf(c) : c \notin DOMAIN partial \/ t \notin partial[c]
  <2>1. CASE c \in DOMAIN partial
    BY <2>1 DEF Shape, CoreState
  <2>2. CASE c \notin DOMAIN partial
    BY <2>2, TopologyFacts
  <2> QED BY <2>1, <2>2
<1>3. t \in Threads /\ CoreOf[t] = c
  BY <1>2 DEF ThreadsOf
<1>4. t \notin FreeThreads
  BY <1>1, <1>2, <1>3, FreeThreadsByCore
<1> QED BY <1>2, <1>4

\* A call of an allocation that returns the sentinel is one of those two.
LEMMA OnlyFailuresReturnNoThread ==
  ASSUME Inv, NextAnyCore, ret'.value = NoThread,
         ret'.call \in {"allocateThread", "allocateProcessor"}
  PROVE  \/ ret'.call = "allocateThread" /\ AllocateThreadFails
         \/ ret'.call = "allocateProcessor" /\ AllocateProcessorFails
<1> USE DEF Returns
<1>1. CASE Initialize \/ InitializeRefused \/ Destroy
  BY <1>1 DEF Initialize, InitializeRefused, Destroy
<1>2. CASE AllocateProcessor
  <2>1. \A key \in DOMAIN free : NoThread \notin free[key]
    BY TopologyAssumption DEF Inv, Inv0, Shape, Keys, CoreState, ThreadsOf
  <2> QED
    BY <1>2, <2>1 DEF AllocateProcessor, AllocateProcessorFrom,
       AllocateProcessorReadsPast, UndefinedBehaviour
<1>3. CASE AllocateProcessorFails \/ AllocateThreadFails
  BY <1>3 DEF AllocateProcessorFails, AllocateThreadFails
<1>4. CASE AllocateThread
  <2>1. CASE AllocateThreadReadsPast
    BY <2>1 DEF AllocateThreadReadsPast, UndefinedBehaviour
  <2>2. CASE AllocateThreadOfPartialCore \/ AllocateThreadOfFreshCore
    <3>1. PICK map, key : TakeThread(map, key)
      BY <2>2 DEF AllocateThreadOfPartialCore, AllocateThreadOfFreshCore
    <3> QED BY <3>1 DEF TakeThread
  <2> QED BY <1>4, <2>1, <2>2 DEF AllocateThread
<1>5. CASE \E t \in Threads : FreeThread(t)
  BY <1>5 DEF FreeThread, UndefinedBehaviour
<1>6. CASE \E c \in Cores : FreeProcessor(c)
  BY <1>6 DEF FreeProcessor
<1> QED
  BY <1>1, <1>2, <1>3, <1>4, <1>5, <1>6 DEF NextAnyCore, CommonNext

\* An allocation is refused only when no thread, or no whole core, is free: the checks
\* of the counters at proc.cpp:484 and 544 never turn a request down too early.
THEOREM AnyCoreRefusedOnlyWhenExhausted == SpecAnyCore => RefusedOnlyWhenExhausted
<1> DEFINE Refusal == ret'.value = NoThread =>
                        /\ ret'.call = "allocateThread" => FreeThreads = {}
                        /\ ret'.call = "allocateProcessor" =>
                             \A c \in Cores : ~(ThreadsOf(c) \subseteq FreeThreads)
<1>1. Inv /\ [NextAnyCore]_vars => [Refusal]_vars
  BY OnlyFailuresReturnNoThread, ThreadRefused, ProcessorRefused
<1> QED
  BY <1>1, AnyCoreInv, PTL DEF SpecAnyCore, RefusedOnlyWhenExhausted

-----------------------------------------------------------------------------
\* A core is broken in the pool exactly when it is in the partially free map.
LEMMA BrokenCores ==
  ASSUME Inv, NEW c \in Cores
  PROVE  Pool!Broken(c) <=> c \in DOMAIN partial
<1> USE DEF Inv, Inv0
<1>1. Pool!Core(c) = ThreadsOf(c)
  BY DEF Pool!Core, ThreadsOf
<1>2. CASE c \in DOMAIN partial
  <2>1. ThreadsOf(c) \cap FreeThreads = partial[c]
    BY <1>2, FreeThreadsByCore DEF ThreadsOf, Shape, CoreState
  <2>2. partial[c] # {} /\ partial[c] # ThreadsOf(c)
    BY <1>2 DEF Shape, CoreState
  <2> QED
    BY <1>1, <1>2, <2>1, <2>2 DEF Pool!Broken
<1>3. CASE c \notin DOMAIN partial
  <2>1. CASE c \in DOMAIN free
    <3>1. ThreadsOf(c) \cap FreeThreads = ThreadsOf(c)
      BY <2>1, FreeThreadsByCore DEF ThreadsOf
    <3> QED
      BY <1>1, <1>3, <3>1 DEF Pool!Broken
  <2>2. CASE c \notin DOMAIN free
    <3>1. ThreadsOf(c) \cap FreeThreads = {}
      BY <1>3, <2>2, FreeThreadsByCore DEF ThreadsOf
    <3> QED
      BY <1>1, <1>3, <3>1 DEF Pool!Broken
  <2> QED
    BY <2>1, <2>2
<1> QED
  BY <1>2, <1>3

\* Every step of the manager is a step of the pool, or leaves it alone.
LEMMA PoolStep ==
  ASSUME Inv, NextAnyCore
  PROVE  [Pool!Next]_(Pool!vars)
<1> USE DEF Inv, Inv0
<1>1. ASSUME UNCHANGED <<coreToThreads, partial, free>>
      PROVE  UNCHANGED Pool!vars
  BY <1>1 DEF Pool!vars, FreeThreads, Listed
<1>2. CASE Initialize
  <2>1. Idle /\ DOMAIN partial' = {} /\ coreToThreads' # EmptyMap
    <3>1. PICK c \in Cores : TRUE
      BY TopologyAssumption
    <3> QED
      BY <1>2, <3>1, TopologyAssumption
      DEF Initialize, Running, Idle, EmptyMap
  <2>2. Shape'
    BY <1>2, InitializeStep
  <2>3. FreeThreads' = Threads
    BY <1>2, <2>1, <2>2, FreeThreadsByCoreNext, TopologyAssumption
    DEF Initialize
  <2>4. Pool!Open
    BY <2>1, <2>3 DEF Pool!Open, Idle
  <2> QED
    BY <2>4 DEF Pool!Next
<1>3. CASE Destroy
  <2>1. FreeThreads' = {} /\ coreToThreads' = EmptyMap
    BY <1>3 DEF Destroy, FreeThreads, Listed, EmptyMap
  <2>2. Pool!Close
    BY <2>1 DEF Pool!Close, EmptyMap
  <2> QED
    BY <2>2 DEF Pool!Next
<1>4. CASE AllocateProcessor
  <2>1. PICK key \in DOMAIN free :
          AllocateProcessorFrom(key) \/ AllocateProcessorReadsPast(key)
    BY <1>4 DEF AllocateProcessor
  <2>2. free[key] # {}
    BY TopologyFacts DEF Shape, Keys, CoreState
  <2>3. AllocateProcessorFrom(key) /\ Ready
    BY <1>4, <2>1, <2>2 DEF AllocateProcessor, AllocateProcessorReadsPast
  <2>4. /\ key \in Cores
        /\ ThreadsOf(key) \subseteq FreeThreads
        /\ FreeThreads' = FreeThreads \ ThreadsOf(key)
    BY <2>3, AllocateProcessorEffect
  <2>5. Pool!TakeCore(key)
    BY <2>3, <2>4
    DEF Pool!TakeCore, Pool!Core, ThreadsOf, Ready, AllocateProcessorFrom, EmptyMap
  <2> QED
    BY <2>4, <2>5 DEF Pool!Next
<1>5. ASSUME NEW c \in Cores, FreeProcessor(c)
      PROVE  [Pool!Next]_(Pool!vars)
  <2>1. CASE FreeProcessorRefuses(c)
    BY <1>1, <1>5, <2>1 DEF FreeProcessor
  <2>2. CASE ~FreeProcessorRefuses(c)
    <3>1. Ready
      BY <1>5 DEF FreeProcessor
    <3>2. /\ coreToThreads' = coreToThreads
          /\ FreeThreads' = FreeThreads \cup ThreadsOf(c)
      BY <1>5, <2>2, <3>1, FreeProcessorEffect
    <3>3. Pool!GiveBackCore(c)
      BY <3>1, <3>2 DEF Pool!GiveBackCore, Pool!Core, ThreadsOf, Ready, EmptyMap
    <3> QED
      BY <3>3 DEF Pool!Next
  <2> QED
    BY <2>1, <2>2
<1>6. CASE AllocateThreadOfPartialCore
  <2>1. PICK key \in DOMAIN partial : TakeThread(partial, key)
    BY <1>6 DEF AllocateThreadOfPartialCore
  <2>2. PICK t \in FreeThreads :
          FreeThreads' = FreeThreads \ {t} /\ CoreOf[t] \in DOMAIN partial
    BY <1>6, <2>1, AllocateThreadPartialEffect
    DEF AllocateThreadOfPartialCore
  <2>3. t \in Threads /\ CoreOf[t] \in Cores
    BY FreeThreadsByCore, TopologyAssumption
  <2>4. Pool!TakeThread(t)
    BY <1>6, <2>1, <2>2, <2>3, BrokenCores
    DEF Pool!TakeThread, AllocateThreadOfPartialCore, Ready, TakeThread, EmptyMap
  <2> QED
    BY <2>3, <2>4 DEF Pool!Next
<1>7. CASE AllocateThreadOfFreshCore
  <2>1. PICK key \in DOMAIN free :
          /\ TakeThread(Put(partial, key, free[key]), key)
          /\ free' = Erase(free, key)
    BY <1>7 DEF AllocateThreadOfFreshCore
  <2>2. partial = EmptyMap
    BY <1>7 DEF AllocateThreadOfFreshCore
  <2>3. PICK t \in FreeThreads : FreeThreads' = FreeThreads \ {t}
    BY <2>1, <2>2, AllocateThreadFreshEffect
  <2>4. t \in Threads
    BY FreeThreadsByCore
  <2>5. \A c \in Cores : ~Pool!Broken(c)
    BY <2>2, BrokenCores DEF EmptyMap
  <2>6. Pool!TakeThread(t)
    BY <1>7, <2>1, <2>3, <2>4, <2>5
    DEF Pool!TakeThread, AllocateThreadOfFreshCore, Ready, TakeThread, EmptyMap
  <2> QED
    BY <2>4, <2>6 DEF Pool!Next
<1>8. CASE AllocateThreadReadsPast
  <2>1. \A key \in DOMAIN partial :
          partial[key] # {} /\ NoThread \notin partial[key]
    BY TopologyAssumption DEF Shape, Keys, CoreState, ThreadsOf
  <2>2. \A key \in DOMAIN free : free[key] # {}
    BY TopologyFacts DEF Shape, Keys, CoreState
  <2> QED
    BY <1>8, <2>1, <2>2 DEF AllocateThreadReadsPast
<1>9. ASSUME NEW lp \in Threads, FreeThread(lp)
      PROVE  [Pool!Next]_(Pool!vars)
  <2>1. NoThread \notin FreeThreads /\ lp # NoThread /\ Ready
    BY <1>9, FreeThreadsByCore, TopologyAssumption DEF FreeThread
  <2>2. CASE lp \in FreeThreads
    BY <1>1, <1>9, <2>1, <2>2 DEF FreeThread
  <2>3. CASE lp \notin FreeThreads
    <3>1. /\ coreToThreads' = coreToThreads
          /\ FreeThreads' = FreeThreads \cup {lp}
      BY <1>9, <2>1, <2>3, FreeThreadEffect
    <3>2. Pool!GiveBackThread(lp)
      BY <2>1, <3>1 DEF Pool!GiveBackThread, Ready, EmptyMap
    <3> QED
      BY <3>2 DEF Pool!Next
  <2> QED
    BY <2>2, <2>3
<1>10. CASE InitializeRefused \/ AllocateProcessorFails \/ AllocateThreadFails
  BY <1>1, <1>10
  DEF InitializeRefused, AllocateProcessorFails, AllocateThreadFails
<1> QED
  BY <1>2, <1>3, <1>4, <1>5, <1>6, <1>7, <1>8, <1>9, <1>10
  DEF NextAnyCore, CommonNext, AllocateThread

\* The manager implements the pool for every topology and every client that
\* passes back real cores and threads.
THEOREM AnyCoreImplementsPool == SpecAnyCore => ImplementsPool
<1>1. Init => Pool!Init
  BY DEF Init, Pool!Init, FreeThreads, Listed, EmptyMap
<1>2. ASSUME Inv, [NextAnyCore]_vars
      PROVE  [Pool!Next]_(Pool!vars)
  <2>1. CASE UNCHANGED vars
    BY <2>1 DEF vars, Pool!vars, FreeThreads, Listed
  <2> QED
    BY <1>2, <2>1, PoolStep
<1> QED
  BY <1>1, <1>2, AnyCoreInv, PTL DEF SpecAnyCore, ImplementsPool, Pool!Spec
=============================================================================
