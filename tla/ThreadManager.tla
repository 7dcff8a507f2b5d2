--------------------------- MODULE ThreadManager ---------------------------
(***************************************************************************)
(* DynamicThreadManager (tailslayer/source/proc.cpp): the allocator that   *)
(* hands out logical processors ("threads") and whole physical cores.      *)
(*                                                                         *)
(* The object is not synchronised and every method runs to completion, so  *)
(* one action is one call.  An index into m_map.data() is the thread it    *)
(* names; a ThreadIdxList is the set of its threads, because the order     *)
(* back() and unordered_map::begin() pick in is an accident of the         *)
(* platform: the model picks any key, and any member of the picked list.   *)
(*                                                                         *)
(* held and ret are not members of the class.  held is the client's side   *)
(* of the interface (the threads it was given and has not given back); ret *)
(* is what the last call returned.  ub records that a call has read past   *)
(* the end of a vector; nothing is modelled after that.                    *)
(***************************************************************************)
EXTENDS Integers, FiniteSets

CONSTANTS Threads,    \* the logical processors of the machine
          Cores,      \* the values of uniqueCoreID() those processors have
          CoreOf,     \* CoreOf[t]: uniqueCoreID() of thread t
          NoThread,   \* the sentinel { UINT32_MAX, UINT32_MAX, UINT16_MAX, .. }
          NoCore,     \* uniqueCoreID() of that sentinel
          CountBound  \* bound on m_freeThreadCount where it can grow for ever

ASSUME TopologyAssumption ==
  /\ IsFiniteSet(Threads)
  /\ Threads # {}
  /\ CoreOf \in [Threads -> Cores]
  /\ \A c \in Cores : \E t \in Threads : CoreOf[t] = c
  /\ NoThread \notin Threads
  /\ NoCore \notin Cores

VARIABLES m_map,           \* m_map.data(): empty, or the whole topology
          coreToThreads,   \* m_coreToThreadMapIdx
          partial,         \* m_partiallyFreeCoreMap
          free,            \* m_freeCoreMap
          freeThreadCount, \* m_freeThreadCount
          freeCoreCount,   \* m_freeCoreCount
          held,
          ret,
          ub

vars == <<m_map, coreToThreads, partial, free, freeThreadCount, freeCoreCount,
          held, ret, ub>>

Processors == Threads \cup {NoThread}
CoreIDs == Cores \cup {NoCore}

uniqueCoreID(lp) == IF lp = NoThread THEN NoCore ELSE CoreOf[lp]
ThreadsOf(c) == {t \in Threads : CoreOf[t] = c}

EmptyMap == [c \in {} |-> {}]
EraseNothing(map, key) == map  \* mutant: the entry is not erased
Erase(map, key) == [c \in DOMAIN map \ {key} |-> map[c]]
Put(map, key, list) ==
  [c \in DOMAIN map \cup {key} |-> IF c = key THEN list ELSE map[c]]
At(map, key) == IF key \in DOMAIN map THEN map[key] ELSE {}  \* operator[]
Listed(map) == UNION {map[c] : c \in DOMAIN map}
FreeThreads == Listed(free) \cup Listed(partial)

Calls == {"none", "initialize", "destroy", "allocateProcessor",
          "freeProcessor", "allocateThread", "freeThread", "undefined"}
Results == [call : Calls, value : Processors \cup {"ok", "refused"}]

Returns(call, value) == ret' = [call |-> call, value |-> value]
UndefinedBehaviour ==
  /\ ub' = TRUE
  /\ Returns("undefined", NoThread)
  /\ UNCHANGED <<m_map, coreToThreads, partial, free, freeThreadCount,
                 freeCoreCount, held>>

Init ==
  /\ m_map = {}
  /\ coreToThreads = EmptyMap /\ partial = EmptyMap /\ free = EmptyMap
  /\ freeThreadCount = 0 /\ freeCoreCount = 0
  /\ held = {}
  /\ ret = [call |-> "none", value |-> NoThread]
  /\ ub = FALSE

\* The client calls the allocator only between initialize and destroy.
Ready == ~ub /\ m_map # {} /\ coreToThreads # EmptyMap

-----------------------------------------------------------------------------
\* Mutant: the free threads are counted by the cores.
InitializeCountsCores ==
  /\ ~ub /\ m_map = {}
  /\ m_map' = Threads
  /\ coreToThreads' = [c \in Cores |-> ThreadsOf(c)]
  /\ free' = [c \in Cores |-> ThreadsOf(c)]
  /\ freeThreadCount' = Cardinality(Cores)
  /\ freeCoreCount' = Cardinality(Cores)
  /\ Returns("initialize", "ok")
  /\ UNCHANGED <<partial, held, ub>>

\* initialize(existingConfig): the overload parse_cli and test.cpp call.
Initialize ==
  /\ ~ub /\ m_map = {}
  /\ m_map' = Threads
  /\ coreToThreads' = [c \in Cores |-> ThreadsOf(c)]
  /\ free' = [c \in Cores |-> ThreadsOf(c)]
  /\ freeThreadCount' = Cardinality(Threads)
  /\ freeCoreCount' = Cardinality(Cores)
  /\ Returns("initialize", "ok")
  /\ UNCHANGED <<partial, held, ub>>

\* Either overload on an object that already has a topology.
InitializeRefused ==
  /\ ~ub /\ m_map # {}
  /\ Returns("initialize", "refused")
  /\ UNCHANGED <<m_map, coreToThreads, partial, free, freeThreadCount,
                 freeCoreCount, held, ub>>

\* initialize() fills m_map itself and then calls initialize(m_map), which
\* finds m_map filled and refuses.
InitializeSelf ==
  /\ ~ub /\ m_map = {}
  /\ m_map' = Threads
  /\ Returns("initialize", "refused")
  /\ UNCHANGED <<coreToThreads, partial, free, freeThreadCount, freeCoreCount,
                 held, ub>>

Destroy ==
  /\ ~ub
  /\ freeCoreCount' = 0 /\ freeThreadCount' = 0
  /\ free' = EmptyMap /\ partial' = EmptyMap /\ coreToThreads' = EmptyMap
  /\ m_map' = {}
  /\ held' = {}
  /\ Returns("destroy", NoThread)
  /\ UNCHANGED ub

-----------------------------------------------------------------------------
\* Mutant: the last core is never handed out.
AllocateProcessorFailsEarly ==
  /\ Ready /\ freeCoreCount <= 1
  /\ Returns("allocateProcessor", NoThread)
  /\ UNCHANGED <<m_map, coreToThreads, partial, free, freeThreadCount,
                 freeCoreCount, held, ub>>

AllocateProcessorFails ==
  /\ Ready /\ freeCoreCount = 0
  /\ Returns("allocateProcessor", NoThread)
  /\ UNCHANGED <<m_map, coreToThreads, partial, free, freeThreadCount,
                 freeCoreCount, held, ub>>

\* Mutant: a core counts as one thread.
AllocateProcessorCountsOne(key) ==
  /\ \E first \in free[key] : Returns("allocateProcessor", first)
  /\ freeThreadCount' = freeThreadCount - 1
  /\ free' = Erase(free, key)
  /\ freeCoreCount' = freeCoreCount - 1
  /\ held' = held \cup free[key]
  /\ UNCHANGED <<m_map, coreToThreads, partial, ub>>

\* allocateProcessor() returns result[0], one thread of the core it took.
AllocateProcessorFrom(key) ==
  /\ \E first \in free[key] : Returns("allocateProcessor", first)
  /\ freeThreadCount' = freeThreadCount - Cardinality(free[key])
  /\ free' = Erase(free, key)
  /\ freeCoreCount' = freeCoreCount - 1
  /\ held' = held \cup free[key]
  /\ UNCHANGED <<m_map, coreToThreads, partial, ub>>

\* result[0] of an empty result.
AllocateProcessorReadsPast(key) == free[key] = {} /\ UndefinedBehaviour

AllocateProcessor ==
  /\ Ready /\ freeCoreCount # 0
  /\ \E key \in DOMAIN free :
       AllocateProcessorFrom(key) \/ AllocateProcessorReadsPast(key)

\* Mutant: a core that is free already is freed again.
RefusesOnlyWhenAllFree(id) ==
  Cardinality(DOMAIN free) = Cardinality(DOMAIN coreToThreads)

FreeProcessorRefuses(id) ==
  \/ Cardinality(DOMAIN free) = Cardinality(DOMAIN coreToThreads)
  \/ id \in DOMAIN free

\* A key that names no core is inserted with an empty list by operator[].
FreeProcessor(id) ==
  /\ Ready
  /\ Returns("freeProcessor", NoThread)
  /\ \/ /\ FreeProcessorRefuses(id)
        /\ UNCHANGED <<coreToThreads, partial, free, freeThreadCount,
                       freeCoreCount, held>>
     \/ /\ ~FreeProcessorRefuses(id)
        /\ coreToThreads' = Put(coreToThreads, id, At(coreToThreads, id))
        /\ partial' = Erase(partial, id)
        /\ free' = Put(free, id, At(coreToThreads, id))
        /\ freeThreadCount' =
             freeThreadCount + Cardinality(At(coreToThreads, id))
        /\ freeCoreCount' = freeCoreCount + 1
        /\ held' = held \ ThreadsOf(id)
  /\ UNCHANGED <<m_map, ub>>

-----------------------------------------------------------------------------
\* Both sentinel returns of allocateThread: the count is zero, or it is not
\* and yet neither map has an entry.
NothingListed == partial = EmptyMap /\ free = EmptyMap

AllocateThreadFails ==
  /\ Ready
  /\ freeThreadCount = 0 \/ NothingListed
  /\ Returns("allocateThread", NoThread)
  /\ UNCHANGED <<m_map, coreToThreads, partial, free, freeThreadCount,
                 freeCoreCount, held, ub>>

\* Mutant: the entry of a core whose last thread is taken stays.
TakeThreadKeepingEmptyList(map, key) ==
  \E t \in map[key] \ {NoThread} :
    /\ partial' = Put(map, key, map[key] \ {t})
    /\ freeThreadCount' = freeThreadCount - 1
    /\ held' = held \cup {t}
    /\ Returns("allocateThread", t)
    /\ UNCHANGED <<m_map, coreToThreads, ub>>

\* back(), pop_back() and the look-up in m_map.data() on the entry of key in
\* map, which becomes the partially free map.
TakeThread(map, key) ==
  \E t \in map[key] \ {NoThread} :
    /\ partial' = IF map[key] = {t} THEN Erase(map, key)
                  ELSE Put(map, key, map[key] \ {t})
    /\ freeThreadCount' = freeThreadCount - 1
    /\ held' = held \cup {t}
    /\ Returns("allocateThread", t)
    /\ UNCHANGED <<m_map, coreToThreads, ub>>

AllocateThreadOfPartialCore ==
  /\ Ready /\ freeThreadCount # 0
  /\ \E key \in DOMAIN partial : TakeThread(partial, key)
  /\ UNCHANGED <<free, freeCoreCount>>

\* Mutants: a fresh core is opened while another is partially free; the core
\* is not taken off m_freeCoreCount.
FreshCoreAnyTime ==
  /\ Ready /\ freeThreadCount # 0
  /\ \E key \in DOMAIN free :
       /\ TakeThread(Put(partial, key, free[key]), key)
       /\ free' = Erase(free, key)
       /\ freeCoreCount' = freeCoreCount - 1
FreshCoreStaysCounted ==
  /\ Ready /\ freeThreadCount # 0
  /\ partial = EmptyMap
  /\ \E key \in DOMAIN free :
       /\ TakeThread(Put(partial, key, free[key]), key)
       /\ free' = Erase(free, key)
  /\ UNCHANGED freeCoreCount

AllocateThreadOfFreshCore ==
  /\ Ready /\ freeThreadCount # 0
  /\ partial = EmptyMap
  /\ \E key \in DOMAIN free :
       /\ TakeThread(Put(partial, key, free[key]), key)
       /\ free' = Erase(free, key)
       /\ freeCoreCount' = freeCoreCount - 1

\* back() of an empty list, or index UINT32_MAX into m_map.data().
AllocateThreadReadsPast ==
  /\ Ready /\ freeThreadCount # 0
  /\ \/ \E key \in DOMAIN partial : partial[key] = {} \/ NoThread \in partial[key]
     \/ partial = EmptyMap /\ \E key \in DOMAIN free : free[key] = {}
  /\ UndefinedBehaviour

AllocateThread ==
  \/ AllocateThreadOfPartialCore
  \/ AllocateThreadOfFreshCore
  \/ AllocateThreadReadsPast

\* The scan reads m_map.data()[index] of every listed index until it matches.
FreeThread(lp) ==
  /\ Ready
  /\ \/ /\ NoThread \in FreeThreads
        /\ UndefinedBehaviour
     \/ /\ lp \in FreeThreads \ {NoThread}
        /\ Returns("freeThread", lp)
        /\ UNCHANGED <<m_map, coreToThreads, partial, free, freeThreadCount,
                       freeCoreCount, held, ub>>
     \/ /\ FreeThreads \cap {lp, NoThread} = {}
        /\ Returns("freeThread", lp)
        /\ freeThreadCount' = freeThreadCount + 1
        /\ held' = held \ {lp}
        /\ UNCHANGED <<m_map, ub>>
        /\ LET id == uniqueCoreID(lp)
               list == At(partial, id) \cup {lp}
               all == At(coreToThreads, id)
           IN /\ coreToThreads' = Put(coreToThreads, id, all)
              /\ IF Cardinality(list) = Cardinality(all)
                 THEN /\ partial' = Erase(partial, id)
                      /\ free' = Put(free, id, all)
                      /\ freeCoreCount' = freeCoreCount + 1
                 ELSE /\ partial' = Put(partial, id, list)
                      /\ UNCHANGED <<free, freeCoreCount>>

-----------------------------------------------------------------------------
\* What every client does: allocate, free single threads, start and stop.
CommonNext ==
  \/ Initialize \/ InitializeRefused \/ Destroy
  \/ AllocateProcessor \/ AllocateProcessorFails
  \/ AllocateThread \/ AllocateThreadFails
  \/ \E t \in Threads : FreeThread(t)

\* A client that frees a core only when the core is not partially free.
Next ==
  \/ CommonNext
  \/ \E c \in Cores : c \notin DOMAIN partial /\ FreeProcessor(c)

\* A client that also frees partially free cores, which the comment at
\* proc.cpp:521 provides for.
NextAnyCore ==
  \/ CommonNext
  \/ \E c \in Cores : freeThreadCount <= CountBound /\ FreeProcessor(c)

\* A client that frees whatever it was handed, the sentinel included, the way
\* test.cpp:91-92 does, and that uses either overload of initialize.
NextAnyHandle ==
  \/ NextAnyCore
  \/ FreeProcessor(NoCore)
  \/ FreeThread(NoThread)
  \/ InitializeSelf

Spec == Init /\ [][Next]_vars
SpecAnyCore == Init /\ [][NextAnyCore]_vars
SpecAnyHandle == Init /\ [][NextAnyHandle]_vars
-----------------------------------------------------------------------------
\* The members stay in range: lists of threads under core keys, counters that
\* never go below zero (a uint32_t would wrap to a huge free count).
TypeOK ==
  /\ m_map \in {{}, Threads}
  /\ DOMAIN coreToThreads \subseteq CoreIDs
  /\ coreToThreads \in [DOMAIN coreToThreads -> SUBSET Threads]
  /\ DOMAIN partial \subseteq CoreIDs
  /\ partial \in [DOMAIN partial -> SUBSET Processors]
  /\ DOMAIN free \subseteq CoreIDs
  /\ free \in [DOMAIN free -> SUBSET Threads]
  /\ freeThreadCount \in Nat
  /\ freeCoreCount \in Nat
  /\ held \subseteq Threads
  /\ ret \in Results
  /\ ub \in BOOLEAN

\* A core is in at most one of the two maps; the completely free map lists
\* whole cores and the partially free map proper, non-empty parts of cores.
\* proc.cpp:488-494 and 562-568 hand lists out without looking at the other
\* map, so an overlap gives one thread to two owners.
CoreState ==
  /\ DOMAIN free \cap DOMAIN partial = {}
  /\ \A c \in DOMAIN free : free[c] = ThreadsOf(c)
  /\ \A c \in DOMAIN partial :
       partial[c] # {} /\ partial[c] \subseteq ThreadsOf(c)
                       /\ partial[c] # ThreadsOf(c)

\* m_freeCoreCount, which gates allocateProcessor before it dereferences
\* m_freeCoreMap.begin(), is the size of that map.
CoreCountExact == freeCoreCount = Cardinality(DOMAIN free)

\* m_freeThreadCount never runs below the threads really listed: else
\* allocateProcessor's unguarded decrements would wrap it.
ThreadCountCovers == Cardinality(FreeThreads) <= freeThreadCount

\* m_freeThreadCount is exact, for a client that frees no partially free core.
ThreadCountExact == freeThreadCount = Cardinality(FreeThreads)

\* Every thread is either free or with the client: none is lost, none is
\* handed out while somebody has it.
NoThreadLostOrShared ==
  coreToThreads # EmptyMap =>
    /\ FreeThreads \cup held = Threads
    /\ FreeThreads \cap held = {}

\* The branch of allocateThread behind "Should never reach this due to
\* m_freeThreadCount check" (proc.cpp:551) is not reached.
CountBranchUnreachable == freeThreadCount # 0 => ~NothingListed

\* Reading past a vector takes a client that gave the sentinel back: no
\* sequence of calls on real cores and threads gets there.
OnlySentinelBreaks == ub => NoCore \in DOMAIN coreToThreads

\* An allocation is refused only when nothing of its kind is free.
RefusedOnlyWhenExhausted ==
  [][ret'.value = NoThread =>
       /\ ret'.call = "allocateThread" => FreeThreads = {}
       /\ ret'.call = "allocateProcessor" =>
            \A c \in Cores : ~(ThreadsOf(c) \subseteq FreeThreads)]_vars

\* The manager implements the pool, whatever cores its client frees.
Pool == INSTANCE ProcessorPool
          WITH avail <- FreeThreads, open <- (coreToThreads # EmptyMap)
ImplementsPool == Pool!Spec
=============================================================================
