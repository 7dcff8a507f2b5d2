---------------------------- MODULE HedgedReader ----------------------------
(***************************************************************************)
(* The life of a HedgedReader: construction, insertion, worker threads,    *)
(* destruction, and possibly another reader after it in the same process.  *)
(*                                                                         *)
(* mem is the replica page, element by element: 0 is the fill pattern and  *)
(* n + 1 stands for the value that was inserted as the n-th.  The client   *)
(* inserts on one thread, one replica per step, while workers may already  *)
(* run; wait_work is the client's too and returns any small index.         *)
(* A failed assertion ends the process ("aborted") where assertions are    *)
(* compiled in; with NDEBUG they vanish, and the call of setup_memory,     *)
(* which is the argument of one, with them.                                *)
(***************************************************************************)
EXTENDS ReaderLayout

CONSTANTS NDEBUG,      \* assertions compiled out, as in CMAKE_BUILD_TYPE=Release
          Request,     \* bytes setup_memory asks for: kHUGEPAGE_SIZE
          Attempts,    \* sizes allocateLargePageMin may settle for
          MaxInserts,  \* bound on the elements inserted into one reader
          MaxReaders   \* bound on the readers constructed one after the other

ASSUME ReaderAssumption ==
  /\ NDEBUG \in BOOLEAN /\ Request \in Nat
  /\ Attempts \subseteq Nat /\ \A a \in Attempts : a >= Request
  /\ MaxInserts \in Nat /\ MaxReaders \in Nat

VARIABLES pc,             \* the client thread
          readers,        \* how many readers have been constructed
          flag,           \* g_enabledLockMemoryPrivileges
          privilege,      \* SeLockMemoryPrivilege in the process token
          alloc,          \* m_alloc.virtaddr: "null", "live" or "freed"
          page,           \* m_replica_page # nullptr
          logical_index,  \* m_logical_index
          copies,         \* replicas the insert in progress has written
          mem,
          worker,         \* state of the worker of each replica
          read            \* the index a worker was told to read

osVars == <<flag, privilege>>
memoryVars == <<alloc, page>>
elementVars == <<logical_index, copies, mem>>
workerVars == <<worker, read>>
vars == <<pc, readers, osVars, memoryVars, elementVars, workerVars>>

Address(i, n) == get_next_logical_index_address(i, n)
EmptyPage == [a \in 0 .. PageElements - 1 |-> 0]

\* Workers whose std::thread is joinable, and those still in worker_func.
Started == {i \in ReplicaIds : worker[i] # "none"}
Running == {i \in ReplicaIds : worker[i] \in {"waiting", "reading"}}

Init ==
  /\ pc = "idle" /\ readers = 0
  /\ flag = FALSE /\ privilege = "disabled"
  /\ alloc = "null" /\ page = FALSE
  /\ logical_index = 0 /\ copies = 0 /\ mem = EmptyPage
  /\ worker = [i \in ReplicaIds |-> "none"]
  /\ read = [i \in ReplicaIds |-> 0]

-----------------------------------------------------------------------------
\* SetLockMemoryPrivilege(enable) returns ok.  Enabling returns at once when
\* the flag is set; a removed privilege cannot be enabled again.
SetLockMemoryPrivilege(enable, ok) ==
  \/ /\ enable /\ flag /\ ok
     /\ UNCHANGED osVars
  \/ /\ ~(enable /\ flag) /\ ok
     /\ enable => privilege # "removed"
     /\ privilege' = IF enable THEN "enabled" ELSE "removed"
     /\ flag' = TRUE
  \/ /\ ~(enable /\ flag) /\ ~ok
     /\ UNCHANGED osVars

Construct ==
  /\ pc = "idle" /\ readers < MaxReaders
  /\ readers' = readers + 1
  /\ logical_index' = 0 /\ copies' = 0 /\ mem' = EmptyPage
  /\ worker' = [i \in ReplicaIds |-> "none"]
  /\ pc' = IF NDEBUG THEN "ready" ELSE "setup"
  /\ alloc' = "null" /\ page' = FALSE
  /\ UNCHANGED <<osVars, read>>

SetupFails == pc' = "aborted" /\ UNCHANGED memoryVars

\* setup_memory without the privilege.
SetupWithoutPrivilege ==
  /\ pc = "setup"
  /\ SetLockMemoryPrivilege(TRUE, FALSE)
  /\ SetupFails
  /\ UNCHANGED <<readers, elementVars, workerVars>>

\* allocateLargePageMin found no region of Request bytes in any attempt;
\* without the privilege VirtualAlloc refuses large pages altogether.
SetupWithoutMemory ==
  /\ pc = "setup"
  /\ SetLockMemoryPrivilege(TRUE, TRUE)
  /\ SetupFails
  /\ UNCHANGED <<readers, elementVars, workerVars>>

\* It settled for an attempt that has a contiguous region of at least Request
\* bytes, and left the size of the attempt in m_alloc.sizeInBytes; setup_memory
\* searches again and compares the region with that.
SetupFindsRegion ==
  /\ pc = "setup"
  /\ SetLockMemoryPrivilege(TRUE, TRUE) /\ privilege' = "enabled"
  /\ \E attempt \in Attempts : \E found \in Request .. attempt :
       IF found < attempt
       THEN /\ pc' = "aborted" /\ alloc' = "freed" /\ page' = FALSE
       ELSE /\ pc' = "ready" /\ alloc' = "live" /\ page' = TRUE
  /\ UNCHANGED <<readers, elementVars, workerVars>>

-----------------------------------------------------------------------------
\* insert(): the assertions, then one store per replica.
InsertAsserts == NDEBUG \/ (flag /\ page /\ logical_index + 1 < m_capacity)

InsertAborts ==
  /\ pc \in {"ready", "started"} /\ copies = 0 /\ logical_index < MaxInserts
  /\ ~InsertAsserts
  /\ pc' = "aborted"
  /\ UNCHANGED <<readers, osVars, memoryVars, elementVars, workerVars>>

InsertCopy ==
  /\ pc \in {"ready", "started"} /\ logical_index < MaxInserts
  /\ copies = 0 => InsertAsserts
  /\ IF page
     THEN /\ mem' = [mem EXCEPT ![Address(copies, logical_index)] = logical_index + 1]
          /\ IF copies + 1 < Replicas
             THEN copies' = copies + 1 /\ UNCHANGED logical_index
             ELSE copies' = 0 /\ logical_index' = logical_index + 1
          /\ UNCHANGED pc
     ELSE pc' = "nullWrite" /\ UNCHANGED elementVars
  /\ UNCHANGED <<readers, osVars, memoryVars, workerVars>>

\* start_workers starts the workers in the order of their replicas.
StartWorker ==
  /\ pc \in {"ready", "starting"} /\ copies = 0
  /\ \E i \in ReplicaIds :
       /\ Started = 0 .. i - 1
       /\ worker' = [worker EXCEPT ![i] = "waiting"]
       /\ pc' = IF i = Replicas - 1 THEN "started" ELSE "starting"
  /\ UNCHANGED <<readers, osVars, memoryVars, elementVars, read>>

\* std::thread may throw out of start_workers; the client goes on without the
\* workers that are missing.
StartWorkerThrows ==
  /\ pc \in {"ready", "starting"} /\ copies = 0
  /\ pc' = "started"
  /\ UNCHANGED <<readers, osVars, memoryVars, elementVars, workerVars>>

\* A second call assigns to a joinable std::thread, which ends the process.
StartWorkersAgain ==
  /\ pc = "started" /\ copies = 0 /\ Started # {}
  /\ pc' = "aborted"
  /\ UNCHANGED <<readers, osVars, memoryVars, elementVars, workerVars>>

\* The destructor joins every worker, frees the page and drops the privilege;
\* freeLargePage leaves m_alloc.virtaddr as it is.
DestroyWithoutJoin ==      \* mutant: the workers are not joined
  /\ pc \in {"ready", "started"} /\ copies = 0
  /\ pc' = "idle"
  /\ alloc' = IF alloc = "null" THEN "null" ELSE "freed"
  /\ page' = FALSE
  /\ \E ok \in BOOLEAN : SetLockMemoryPrivilege(FALSE, ok)
  /\ UNCHANGED <<readers, elementVars, workerVars>>

Destroy ==
  /\ pc \in {"ready", "started"} /\ copies = 0
  /\ Running = {}
  /\ pc' = "idle"
  /\ alloc' = IF alloc = "null" THEN "null" ELSE "freed"
  /\ page' = FALSE
  /\ \E ok \in BOOLEAN : SetLockMemoryPrivilege(FALSE, ok)
  /\ UNCHANGED <<readers, elementVars, workerVars>>

Client ==
  \/ Construct
  \/ SetupWithoutPrivilege \/ SetupWithoutMemory \/ SetupFindsRegion
  \/ InsertAborts \/ InsertCopy
  \/ StartWorker \/ StartWorkerThrows \/ StartWorkersAgain \/ Destroy

\* A failed assertion or a store through a null page ends the process.
Stopped == pc \in {"aborted", "nullWrite"}

\* worker_func: wait_work returns an index, then the copy is read.
WaitWork(i) ==
  /\ ~Stopped /\ worker[i] = "waiting"
  /\ worker' = [worker EXCEPT ![i] = "reading"]
  /\ \E n \in 0 .. MaxInserts - 1 : read' = [read EXCEPT ![i] = n]
  /\ UNCHANGED <<pc, readers, osVars, memoryVars, elementVars>>

FinalWorkAgain(i) ==       \* mutant: the worker waits for another index
  /\ ~Stopped /\ worker[i] = "reading"
  /\ worker' = [worker EXCEPT ![i] = "waiting"]
  /\ UNCHANGED <<pc, readers, osVars, memoryVars, elementVars, read>>

FinalWork(i) ==
  /\ ~Stopped /\ worker[i] = "reading"
  /\ worker' = [worker EXCEPT ![i] = "exited"]
  /\ UNCHANGED <<pc, readers, osVars, memoryVars, elementVars, read>>

Next == Client \/ \E i \in ReplicaIds : WaitWork(i) \/ FinalWork(i)

\* Workers are scheduled, and wait_work is a loop that ends.
Spec == Init /\ [][Next]_vars
          /\ \A i \in ReplicaIds : WF_vars(WaitWork(i) \/ FinalWork(i))

-----------------------------------------------------------------------------
(* What the reader promises. *)

TypeOK ==
  /\ pc \in {"idle", "setup", "ready", "starting", "started", "aborted", "nullWrite"}
  /\ readers \in 0 .. MaxReaders
  /\ flag \in BOOLEAN /\ privilege \in {"disabled", "enabled", "removed"}
  /\ alloc \in {"null", "live", "freed"} /\ page \in BOOLEAN
  /\ logical_index \in 0 .. MaxInserts /\ copies \in 0 .. Replicas - 1
  /\ mem \in [0 .. PageElements - 1 -> 0 .. MaxInserts]
  /\ worker \in [ReplicaIds -> {"none", "waiting", "reading", "exited"}]
  /\ read \in [ReplicaIds -> 0 .. MaxInserts - 1]

\* Every replica of every inserted element still holds its value, however many
\* elements were inserted after it: no two (replica, index) pairs share an
\* address and none lies outside the page (insert, lines 103-117).
CopiesHold ==
  page => \A i \in ReplicaIds : \A n \in 0 .. logical_index - 1 :
            /\ Address(i, n) \in DOMAIN mem
            /\ mem[Address(i, n)] = n + 1

\* "We have to keep accounting for making sure we're on different channels,
\* especially when we exceed the channel offset size" (lines 110-111): the
\* replicas of one inserted element lie in different channel slots.
ReplicasOnDifferentChannels ==
  \A n \in 0 .. logical_index - 1 : \A i, j \in ReplicaIds :
    i # j => ChannelSlot(Address(i, n)) # ChannelSlot(Address(j, n))

\* No worker runs once the page was freed or the reader is gone: the destructor
\* joins them all first (lines 87-95), also when a reader follows another.
NoWorkerOutlivesThePage ==
  Running # {} => /\ pc \notin {"idle", "setup"}
                  /\ page => alloc = "live"

\* Destruction is not blocked for ever: a worker that was started returns, unless
\* the process has ended (worker_func, lines 149-168).
WorkersReturn ==
  \A i \in ReplicaIds :
    (worker[i] = "waiting") ~> (worker[i] = "exited" \/ Stopped)

=============================================================================
