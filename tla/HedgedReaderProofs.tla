-------------------------- MODULE HedgedReaderProofs --------------------------
(***************************************************************************)
(* The safety properties of HedgedReader for every page, number of         *)
(* channels and number of replicas.  Those about the copies need that the  *)
(* shift and the mask divide by the chunk (ChunkIsPowerOfTwo); from it the *)
(* first part derives that the layout keeps all copies apart.              *)
(***************************************************************************)
EXTENDS HedgedReader, TLAPS

\* A product with a positive factor is no smaller than the other factor.
LEMMA ProductGrows ==
  ASSUME NEW k \in Nat \ {0}, NEW e \in Nat
  PROVE  k * e >= e
<1>1. k * e = (k - 1) * e + e
  OBVIOUS
<1>2. (k - 1) * e >= 0
  OBVIOUS
<1> QED BY <1>1, <1>2

\* Quotient and remainder determine each other.
LEMMA DivisionUnique ==
  ASSUME NEW e \in Nat \ {0}, NEW a \in Nat, NEW c \in Nat,
         NEW b \in 0 .. e - 1, NEW d \in 0 .. e - 1, a * e + b = c * e + d
  PROVE  a = c /\ b = d
<1>1. ASSUME NEW x \in Nat, NEW y \in Nat, x < y, NEW u \in 0 .. e - 1, NEW v \in 0 .. e - 1
      PROVE  x * e + u < y * e + v
  <2>1. y * e = (y - x) * e + x * e
    OBVIOUS
  <2>2. (y - x) * e >= e
    BY <1>1, ProductGrows
  <2> QED BY <2>1, <2>2
<1>2. a = c
  BY <1>1
<1> QED BY <1>2

\* What quotient and remainder are.
LEMMA Division ==
  ASSUME NEW n \in Nat, NEW e \in Nat \ {0}
  PROVE  /\ n \div e \in Nat /\ n % e \in 0 .. e - 1
         /\ n = (n \div e) * e + (n % e)
<1>1. n % e \in 0 .. e - 1
  OBVIOUS
<1>2. n = (n \div e) * e + (n % e)
  OBVIOUS
<1>3. n \div e \in Nat
  OBVIOUS
<1> QED BY <1>1, <1>2, <1>3

\* So a number is split in one way only.
LEMMA DivisionOf ==
  ASSUME NEW e \in Nat \ {0}, NEW a \in Nat, NEW b \in 0 .. e - 1
  PROVE  (a * e + b) \div e = a /\ (a * e + b) % e = b
<1> DEFINE n == a * e + b
<1>0. n \in Nat
  OBVIOUS
<1> HIDE DEF n
<1>1. n \div e \in Nat /\ n % e \in 0 .. e - 1 /\ n = (n \div e) * e + (n % e)
  BY <1>0, Division
<1>2. n = a * e + b
  BY DEF n
<1>3. n \div e = a /\ n % e = b
  BY <1>1, <1>2, DivisionUnique
<1> QED BY <1>3 DEF n

------------------------------------------------------------------------------
(* The layout *)

\* The constants and the numbers the constructor computes are natural, and the
\* strides that are used fit the page.
LEMMA LayoutTypes ==
  /\ elements_per_chunk \in Nat \ {0} /\ NumChannels \in Nat \ {0}
  /\ m_stride_in_elements = NumChannels * elements_per_chunk
  /\ max_strides \in Nat /\ m_capacity = max_strides * elements_per_chunk
  /\ PageElements \in Nat
  /\ max_strides * NumChannels * elements_per_chunk <= PageElements
<1> USE LayoutAssumption
<1> DEFINE e == elements_per_chunk
<1>1. ChannelOffset = e * SizeOfT /\ e \in Nat
  <2>1. ChannelOffset = (ChannelOffset \div SizeOfT) * SizeOfT + 0
    BY Division
  <2>2. e \in Nat
    BY Division DEF elements_per_chunk
  <2> QED BY <2>1, <2>2 DEF elements_per_chunk
<1>2. e # 0
  BY <1>1
<1> HIDE DEF e
<1>3. m_stride_in_elements = NumChannels * e
  <2> DEFINE m == NumChannels * e
  <2>1. stride_bytes = m * SizeOfT + 0
    BY <1>1 DEF stride_bytes
  <2>2. m \in Nat /\ 0 \in 0 .. SizeOfT - 1
    BY <1>1
  <2> HIDE DEF m
  <2>3. (m * SizeOfT + 0) \div SizeOfT = m
    BY <2>2, DivisionOf
  <2> QED BY <2>1, <2>3 DEF m, m_stride_in_elements
<1>4. stride_bytes \in Nat \ {0}
  <2>1. NumChannels * ChannelOffset >= ChannelOffset
    BY ProductGrows
  <2> QED BY <2>1 DEF stride_bytes
<1>5. max_strides \in Nat /\ max_strides * stride_bytes <= PageBytes
  BY <1>4 DEF max_strides
<1>6. PageElements \in Nat
  BY DEF PageElements
<1>7. max_strides * NumChannels * e <= PageElements
  <2> DEFINE k == max_strides * NumChannels * e
  <2>1. k * SizeOfT <= PageBytes
    BY <1>1, <1>5 DEF stride_bytes
  <2>2. k \in Nat
    BY <1>1, <1>5
  <2> HIDE DEF k
  <2>3. (PageElements + 1) * SizeOfT > PageBytes
    BY DEF PageElements
  <2>4. k < PageElements + 1
    <3>1. SUFFICES ASSUME k >= PageElements + 1 PROVE FALSE
      BY <2>2, <1>6
    <3>2. k * SizeOfT = (k - (PageElements + 1)) * SizeOfT + (PageElements + 1) * SizeOfT
      BY <2>2, <1>6
    <3>3. (k - (PageElements + 1)) * SizeOfT >= 0
      BY <3>1, <2>2, <1>6
    <3> QED BY <3>2, <3>3, <2>1, <2>3, <2>2, <1>6
  <2> QED BY <2>2, <2>4, <1>6 DEF k
<1> QED
  BY <1>1, <1>2, <1>3, <1>5, <1>6, <1>7 DEF e, m_capacity

\* The address of a copy, as a quotient and a remainder by the chunk.
LEMMA AddressOfCopy ==
  ASSUME ChunkIsPowerOfTwo, NEW i \in ReplicaIds, NEW n \in 0 .. m_capacity - 1
  PROVE  \E q \in Nat, r \in 0 .. elements_per_chunk - 1 :
            /\ q < max_strides
            /\ n = q * elements_per_chunk + r
            /\ i + q * NumChannels \in Nat
            /\ Address(i, n) = (i + q * NumChannels) * elements_per_chunk + r
<1> DEFINE e == elements_per_chunk
           q == n \div e
           r == n % e
<1>1. e \in Nat \ {0} /\ NumChannels \in Nat \ {0} /\ max_strides \in Nat
      /\ m_stride_in_elements = NumChannels * e /\ m_capacity = max_strides * e
  BY LayoutTypes
<1>2. n \in Nat /\ i \in Nat
  BY <1>1 DEF ReplicaIds
<1>3. Address(i, n) = i * e + q * m_stride_in_elements + r
  BY DEF Address, get_next_logical_index_address, ChunkIsPowerOfTwo
<1> HIDE DEF e
<1>4. q \in Nat /\ r \in 0 .. e - 1 /\ n = q * e + r
  BY <1>1, <1>2, Division
<1> HIDE DEF q, r
<1>5. q < max_strides
  <2>1. SUFFICES ASSUME q >= max_strides PROVE FALSE
    BY <1>1, <1>4
  <2>2. q * e = (q - max_strides) * e + max_strides * e
    BY <1>1, <1>4
  <2>3. (q - max_strides) * e >= 0
    BY <1>1, <1>4, <2>1
  <2>4. n < max_strides * e
    BY <1>1, <1>2
  <2> QED BY <1>1, <1>4, <2>2, <2>3, <2>4
<1>6. i * e + q * (NumChannels * e) + r = (i + q * NumChannels) * e + r
  BY <1>1, <1>2, <1>4
<1>7. i + q * NumChannels \in Nat
  BY <1>1, <1>2, <1>4
<1> QED BY <1>1, <1>3, <1>4, <1>5, <1>6, <1>7 DEF e, q, r

\* No two copies share an address.
LEMMA CopiesApart ==
  ASSUME ChunkIsPowerOfTwo,
         NEW i \in ReplicaIds, NEW n \in 0 .. m_capacity - 1,
         NEW j \in ReplicaIds, NEW m \in 0 .. m_capacity - 1,
         Address(i, n) = Address(j, m)
  PROVE  i = j /\ n = m
<1> DEFINE e == elements_per_chunk
<1>1. PICK q \in Nat, r \in 0 .. e - 1 :
        /\ n = q * e + r
        /\ i + q * NumChannels \in Nat
        /\ Address(i, n) = (i + q * NumChannels) * e + r
  BY AddressOfCopy
<1>2. PICK s \in Nat, t \in 0 .. e - 1 :
        /\ m = s * e + t
        /\ j + s * NumChannels \in Nat
        /\ Address(j, m) = (j + s * NumChannels) * e + t
  BY AddressOfCopy
<1>3. e \in Nat \ {0} /\ NumChannels \in Nat \ {0}
  BY LayoutTypes
<1>4. i \in 0 .. NumChannels - 1 /\ j \in 0 .. NumChannels - 1
  BY LayoutAssumption DEF ReplicaIds
<1> HIDE DEF e
<1>5. i + q * NumChannels = j + s * NumChannels /\ r = t
  <2> DEFINE k == i + q * NumChannels
             l == j + s * NumChannels
  <2>1. k \in Nat /\ l \in Nat /\ k * e + r = l * e + t
    BY <1>1, <1>2
  <2> HIDE DEF k, l
  <2>2. k = l /\ r = t
    BY <1>3, <2>1, DivisionUnique
  <2> QED BY <2>2 DEF k, l
<1>6. q * NumChannels + i = s * NumChannels + j
  BY <1>3, <1>4, <1>5
<1>7. q = s /\ i = j
  BY <1>3, <1>4, <1>6, DivisionUnique
<1> QED BY <1>1, <1>2, <1>5, <1>7

\* No copy lies outside the page.
LEMMA CopyInsidePage ==
  ASSUME ChunkIsPowerOfTwo, NEW i \in ReplicaIds, NEW n \in 0 .. m_capacity - 1
  PROVE  Address(i, n) \in 0 .. PageElements - 1
<1> DEFINE e == elements_per_chunk
           c == max_strides * NumChannels
<1>1. PICK q \in Nat, r \in 0 .. e - 1 :
        /\ q < max_strides
        /\ i + q * NumChannels \in Nat
        /\ Address(i, n) = (i + q * NumChannels) * e + r
  BY AddressOfCopy
<1> DEFINE k == i + q * NumChannels
<1>2. e \in Nat \ {0} /\ NumChannels \in Nat \ {0} /\ max_strides \in Nat
      /\ PageElements \in Nat /\ c * e <= PageElements
  BY LayoutTypes
<1>3. i \in 0 .. NumChannels - 1
  BY LayoutAssumption DEF ReplicaIds
<1> HIDE DEF e
<1>4. k < c /\ c \in Nat /\ k \in Nat
  <2> DEFINE rest == (max_strides - q) * NumChannels
  <2>1. c = q * NumChannels + rest
    BY <1>1, <1>2
  <2>2. rest >= NumChannels
    BY <1>1, <1>2, ProductGrows
  <2>3. q * NumChannels \in Nat /\ c \in Nat /\ rest \in Int
    BY <1>1, <1>2
  <2> HIDE DEF rest, c
  <2>4. i < rest
    BY <1>2, <1>3, <2>2, <2>3
  <2>5. i + q * NumChannels < c
    BY <1>3, <2>1, <2>3, <2>4
  <2> QED BY <1>1, <2>3, <2>5
<1>5. Address(i, n) = k * e + r
  BY <1>1
<1> HIDE DEF k, c
<1>6. c * e = k * e + (c - k) * e
  BY <1>2, <1>4
<1>7. (c - k) * e >= e
  BY <1>2, <1>4, ProductGrows
<1>8. k * e \in Nat /\ c * e \in Nat /\ (c - k) * e \in Int
  BY <1>2, <1>4
<1>9. k * e + r < c * e
  BY <1>2, <1>6, <1>7, <1>8
<1> QED BY <1>2, <1>5, <1>8, <1>9

\* A copy lies in the channel slot of its replica.
LEMMA SlotOfCopy ==
  ASSUME ChunkIsPowerOfTwo, NEW i \in ReplicaIds, NEW n \in 0 .. m_capacity - 1
  PROVE  ChannelSlot(Address(i, n)) = i
<1> DEFINE e == elements_per_chunk
<1>1. PICK q \in Nat, r \in 0 .. e - 1 :
        /\ i + q * NumChannels \in Nat
        /\ Address(i, n) = (i + q * NumChannels) * e + r
  BY AddressOfCopy
<1>2. e \in Nat \ {0} /\ NumChannels \in Nat \ {0}
  BY LayoutTypes
<1>3. i \in 0 .. NumChannels - 1
  BY LayoutAssumption DEF ReplicaIds
<1> DEFINE k == i + q * NumChannels
<1> HIDE DEF e
<1>4. (q * NumChannels + i) % NumChannels = i
  BY <1>1, <1>2, <1>3, DivisionOf
<1>5. k = q * NumChannels + i
  BY <1>1, <1>2, <1>3
<1>6. k % NumChannels = i
  BY <1>4, <1>5
<1>7. k \in Nat /\ Address(i, n) = k * e + r
  BY <1>1
<1> HIDE DEF k
<1>8. (k * e + r) \div e = k
  BY <1>2, <1>7, DivisionOf
<1> QED BY <1>6, <1>7, <1>8 DEF ChannelSlot, e

------------------------------------------------------------------------------
(* The life of a reader *)

Types ==
  /\ pc \in {"idle", "setup", "ready", "starting", "started", "aborted", "nullWrite"}
  /\ page \in BOOLEAN /\ alloc \in {"null", "live", "freed"}
  /\ logical_index \in Nat /\ copies \in 0 .. Replicas - 1
  /\ DOMAIN mem = 0 .. PageElements - 1
  /\ DOMAIN worker = ReplicaIds

\* Only a reader whose set-up succeeded has workers, and only one set up inside its
\* assertion has a page, which is allocated as long as it is used.
LifeInPhase ==
  /\ pc \in {"idle", "setup"} => Running = {}
  /\ page => alloc = "live" /\ ~NDEBUG
  /\ pc = "setup" => logical_index = 0 /\ copies = 0 /\ ~NDEBUG
  /\ pc \in {"idle", "setup"} => ~page

LifeInv == Types /\ LifeInPhase

\* The index never reaches the capacity, also while an insert is half done.
IndexInsideCapacity ==
  /\ page /\ copies > 0 => logical_index + 1 < m_capacity
  /\ logical_index > 0 => logical_index < m_capacity

\* The replicas that an insert has written so far.
InsertInProgress ==
  page => \A i \in 0 .. copies - 1 :
            mem[Address(i, logical_index)] = logical_index + 1

CopiesInv == IndexInsideCapacity /\ InsertInProgress /\ CopiesHold

\* Before the first reader there is neither a page nor a worker.
LEMMA InitLife == Init => LifeInv
<1>1. 0 \in 0 .. Replicas - 1
  BY LayoutAssumption
<1>2. Init => Types
  <2> SUFFICES ASSUME Init PROVE Types
    OBVIOUS
  <2>1. pc = "idle" /\ page = FALSE /\ alloc = "null" /\ logical_index = 0 /\ copies = 0
    BY DEF Init
  <2>2. mem = [a \in 0 .. PageElements - 1 |-> 0]
    BY DEF Init, EmptyPage
  <2>3. worker = [i \in ReplicaIds |-> "none"]
    BY DEF Init
  <2>4. DOMAIN mem = 0 .. PageElements - 1
    BY <2>2, Zenon
  <2>5. DOMAIN worker = ReplicaIds
    BY <2>3, Zenon
  <2> QED BY <1>1, <2>1, <2>4, <2>5 DEF Types
<1>3. Init => LifeInPhase
  BY DEF Init, LifeInPhase, Running
<1> QED BY <1>2, <1>3 DEF LifeInv

\* Construction, set-up and destruction keep a page and workers together.
LEMMA PageLife ==
  ASSUME LifeInv,
         \/ Construct \/ SetupWithoutPrivilege \/ SetupWithoutMemory
         \/ SetupFindsRegion \/ Destroy
  PROVE  LifeInv'
<1> USE DEF LifeInv
<1>1. CASE Construct
  <2>1. 0 \in 0 .. Replicas - 1
    BY LayoutAssumption
  <2> QED BY <1>1, <2>1 DEF Construct, Types, EmptyPage, LifeInPhase, Running
<1>2. CASE SetupWithoutPrivilege \/ SetupWithoutMemory
  <2>1. pc' = "aborted" /\ UNCHANGED <<page, alloc, logical_index, copies, mem, worker>>
    BY <1>2 DEF SetupWithoutPrivilege, SetupWithoutMemory, SetupFails, memoryVars,
                elementVars, workerVars
  <2> QED BY <2>1 DEF Types, LifeInPhase, Running
<1>3. CASE SetupFindsRegion
  <2>1. /\ pc = "setup" /\ UNCHANGED <<logical_index, copies, mem, worker>>
        /\ \/ pc' = "aborted" /\ alloc' = "freed" /\ page' = FALSE
           \/ pc' = "ready" /\ alloc' = "live" /\ page' = TRUE
    BY <1>3 DEF SetupFindsRegion, elementVars, workerVars
  <2> QED BY <2>1 DEF Types, LifeInPhase, Running
<1>4. CASE Destroy
  <2>1. /\ Running = {} /\ pc' = "idle" /\ page' = FALSE
        /\ alloc' \in {"null", "freed"}
        /\ UNCHANGED <<logical_index, copies, mem, worker>>
    BY <1>4 DEF Destroy, elementVars, workerVars
  <2> QED BY <2>1 DEF Types, LifeInPhase, Running
<1> QED BY <1>1, <1>2, <1>3, <1>4

\* So do inserting, and starting the workers.
LEMMA ClientLife ==
  ASSUME LifeInv,
         InsertAborts \/ InsertCopy \/ StartWorker \/ StartWorkerThrows \/ StartWorkersAgain
  PROVE  LifeInv'
<1> USE DEF LifeInv
<1>1. CASE StartWorker
  <2>1. /\ UNCHANGED <<page, alloc, logical_index, copies, mem>>
        /\ pc' \in {"starting", "started"}
        /\ pc \in {"ready", "starting"}
        /\ DOMAIN worker' = ReplicaIds
    BY <1>1 DEF StartWorker, memoryVars, elementVars, Types
  <2> QED BY <2>1 DEF Types, LifeInPhase
<1>2. CASE InsertAborts \/ StartWorkerThrows \/ StartWorkersAgain
  <2>1. /\ UNCHANGED <<page, alloc, logical_index, copies, mem, worker>>
        /\ pc' \in {"aborted", "started"}
    BY <1>2 DEF InsertAborts, StartWorkerThrows, StartWorkersAgain, memoryVars, elementVars,
                workerVars
  <2> QED BY <2>1 DEF Types, LifeInPhase
<1>3. CASE InsertCopy
  <2>1. /\ UNCHANGED <<page, alloc, worker>>
        /\ pc \in {"ready", "started"} /\ pc' \in {pc, "nullWrite"}
    BY <1>3 DEF InsertCopy, memoryVars, workerVars
  <2>2. /\ DOMAIN mem' = DOMAIN mem
        /\ logical_index' \in Nat /\ copies' \in 0 .. Replicas - 1
    BY <1>3, LayoutAssumption DEF InsertCopy, elementVars, Types
  <2> QED BY <2>1, <2>2 DEF Types, LifeInPhase
<1> QED BY <1>1, <1>2, <1>3

\* And a worker, which only reads.
LEMMA WorkerLife ==
  ASSUME LifeInv, NEW i \in ReplicaIds, WaitWork(i) \/ FinalWork(i)
  PROVE  LifeInv'
<1>1. /\ UNCHANGED <<pc, page, alloc, logical_index, copies, mem>>
      /\ DOMAIN worker' = ReplicaIds /\ Running # {}
  BY DEF LifeInv, Types, WaitWork, FinalWork, memoryVars, elementVars, Running
<1> QED BY <1>1 DEF LifeInv, Types, LifeInPhase

\* Every step keeps a page and workers together, whatever the layout.
LEMMA NextLife == LifeInv /\ [Next]_vars => LifeInv'
<1> SUFFICES ASSUME LifeInv, [Next]_vars PROVE LifeInv'
  OBVIOUS
<1>1. CASE UNCHANGED vars
  BY <1>1 DEF vars, memoryVars, elementVars, workerVars, LifeInv, Types, LifeInPhase, Running
<1>2. CASE Next
  BY <1>2, PageLife, ClientLife, WorkerLife DEF Next, Client
<1> QED BY <1>1, <1>2

\* No worker runs once the page was freed or the reader is gone, for every layout, also
\* one that mixes up the copies (hedged_reader.hpp, lines 87-95).
THEOREM ReaderNoWorkerOutlives == Spec => []NoWorkerOutlivesThePage
<1>1. LifeInv => NoWorkerOutlivesThePage
  BY DEF LifeInv, LifeInPhase, NoWorkerOutlivesThePage
<1> QED BY <1>1, InitLife, NextLife, PTL DEF Spec

------------------------------------------------------------------------------
(* The copies *)

\* Steps that store nothing keep all copies.
LEMMA CopiesUntouched ==
  ASSUME CopiesInv, UNCHANGED <<logical_index, copies, mem>>, page' => page
  PROVE  CopiesInv'
BY DEF CopiesInv, IndexInsideCapacity, InsertInProgress, CopiesHold, Address

\* A store of one replica keeps all copies that were stored before it.
LEMMA InsertCopyKeeps ==
  ASSUME ChunkIsPowerOfTwo, LifeInv, CopiesInv, InsertCopy
  PROVE  CopiesInv'
<1> USE DEF LifeInv, CopiesInv
<1>1. CASE ~page
  BY <1>1, CopiesUntouched DEF InsertCopy, memoryVars, elementVars
<1>2. CASE page
  <2> DEFINE n == logical_index
  <2>1. /\ UNCHANGED <<pc, page, alloc, worker>>
        /\ mem' = [mem EXCEPT ![Address(copies, n)] = n + 1]
        /\ \/ copies + 1 < Replicas /\ copies' = copies + 1 /\ logical_index' = n
           \/ copies + 1 >= Replicas /\ copies' = 0 /\ logical_index' = n + 1
    BY <1>2, LayoutAssumption DEF InsertCopy, memoryVars, workerVars, Types
  <2>2. n + 1 < m_capacity
    BY <1>2 DEF InsertCopy, InsertAsserts, LifeInPhase, IndexInsideCapacity, Types
  <2>3. m_capacity \in Nat /\ n \in 0 .. m_capacity - 1 /\ copies \in ReplicaIds
    BY <2>2, LayoutTypes DEF Types, ReplicaIds
  <2>4. IndexInsideCapacity'
    BY <2>1, <2>2, <2>3, <1>2 DEF IndexInsideCapacity, Types
  <2>5. Address(copies, n) \in DOMAIN mem
    BY <2>3, CopyInsidePage DEF Types
  <2>6. ASSUME NEW i \in ReplicaIds, NEW m \in 0 .. n, m < n \/ i < copies
        PROVE  mem'[Address(i, m)] = m + 1 /\ Address(i, m) \in DOMAIN mem
    <3>1. i # copies \/ m # n
      BY <2>3, <2>6, LayoutAssumption DEF ReplicaIds
    <3>2. m \in 0 .. m_capacity - 1
      BY <2>2, <2>3
    <3>3. Address(i, m) # Address(copies, n)
      BY <2>3, <3>1, <3>2, CopiesApart
    <3>4. mem[Address(i, m)] = m + 1
      BY <1>2, <2>3, <2>6 DEF CopiesHold, InsertInProgress, ReplicaIds
    <3>5. Address(i, m) \in DOMAIN mem
      BY <3>2, CopyInsidePage DEF Types
    <3> QED BY <2>1, <3>3, <3>4, <3>5
  <2>7. mem'[Address(copies, n)] = n + 1
    BY <2>1, <2>5
  <2>8. InsertInProgress'
    BY <2>1, <2>3, <2>6, <2>7 DEF InsertInProgress, ReplicaIds
  <2>9. CopiesHold'
    <3> SUFFICES ASSUME NEW i \in ReplicaIds, NEW m \in 0 .. logical_index' - 1
                 PROVE  Address(i, m) \in DOMAIN mem' /\ mem'[Address(i, m)] = m + 1
      BY DEF CopiesHold, Address
    <3>1. m \in 0 .. n /\ (m < n \/ i < copies \/ (m = n /\ i = copies))
      <4>1. i \in Int /\ i >= 0 /\ i < Replicas /\ copies \in Int /\ copies < Replicas
        BY <2>3, LayoutAssumption DEF ReplicaIds
      <4>2. Replicas \in Int /\ m \in Int /\ m >= 0 /\ m < logical_index'
        BY <2>1, <2>3, LayoutAssumption
      <4>3. CASE logical_index' = n
        BY <4>2, <4>3, <2>3
      <4>4. CASE copies + 1 >= Replicas /\ logical_index' = n + 1
        BY <4>1, <4>2, <4>4, <2>3
      <4> QED BY <4>3, <4>4, <2>1
    <3>2. CASE m < n \/ i < copies
      BY <3>1, <3>2, <2>1, <2>6
    <3>3. CASE m = n /\ i = copies
      BY <3>3, <2>1, <2>5, <2>7
    <3> QED BY <3>1, <3>2, <3>3
  <2> QED BY <2>4, <2>8, <2>9
<1> QED BY <1>1, <1>2

\* Every step keeps the copies: a reader that gets its page has inserted nothing yet.
LEMMA NextCopies ==
  ASSUME ChunkIsPowerOfTwo, LifeInv, CopiesInv, [Next]_vars
  PROVE  CopiesInv'
<1>1. CASE Construct \/ SetupFindsRegion
  <2>1. logical_index' = 0 /\ copies' = 0
    BY <1>1 DEF Construct, SetupFindsRegion, elementVars, LifeInv, LifeInPhase
  <2> QED BY <2>1 DEF CopiesInv, IndexInsideCapacity, InsertInProgress, CopiesHold
<1>2. CASE InsertCopy
  BY <1>2, InsertCopyKeeps
<1>3. CASE \/ SetupWithoutPrivilege \/ SetupWithoutMemory \/ InsertAborts \/ StartWorker
           \/ StartWorkerThrows \/ StartWorkersAgain \/ Destroy
           \/ \E i \in ReplicaIds : WaitWork(i) \/ FinalWork(i)
           \/ UNCHANGED vars
  <2>1. CASE SetupWithoutPrivilege \/ SetupWithoutMemory
    <3>1. UNCHANGED <<logical_index, copies, mem, page>>
      BY <2>1 DEF SetupWithoutPrivilege, SetupWithoutMemory, SetupFails, memoryVars,
                  elementVars
    <3> QED BY <3>1, CopiesUntouched
  <2>5. CASE Destroy
    <3>1. UNCHANGED <<logical_index, copies, mem>> /\ ~page'
      BY <2>5 DEF Destroy, elementVars
    <3> QED BY <3>1, CopiesUntouched
  <2>2. CASE InsertAborts \/ StartWorker \/ StartWorkerThrows \/ StartWorkersAgain
    BY <2>2, CopiesUntouched DEF InsertAborts, StartWorker, StartWorkerThrows,
                StartWorkersAgain, memoryVars, elementVars
  <2>3. ASSUME NEW i \in ReplicaIds, WaitWork(i) \/ FinalWork(i) PROVE CopiesInv'
    BY <2>3, CopiesUntouched DEF WaitWork, FinalWork, memoryVars, elementVars
  <2>4. CASE UNCHANGED vars
    BY <2>4, CopiesUntouched DEF vars, memoryVars, elementVars
  <2> QED BY <1>3, <2>1, <2>2, <2>3, <2>4, <2>5
<1> QED BY <1>1, <1>2, <1>3 DEF Next, Client

\* Both invariants hold throughout the life of every reader whose chunk is a power of two.
THEOREM ReaderInv == ChunkIsPowerOfTwo => (Spec => [](LifeInv /\ CopiesInv))
<1>1. Init => CopiesInv
  BY DEF Init, CopiesInv, IndexInsideCapacity, InsertInProgress, CopiesHold
<1>2. SUFFICES ASSUME ChunkIsPowerOfTwo PROVE Spec => [](LifeInv /\ CopiesInv)
  OBVIOUS
<1>3. LifeInv /\ CopiesInv /\ [Next]_vars => (LifeInv /\ CopiesInv)'
  BY <1>2, NextLife, NextCopies
<1> QED BY <1>1, <1>3, InitLife, PTL DEF Spec

\* Every replica of every inserted element still holds its value, however many elements
\* were inserted since (hedged_reader.hpp, lines 103-117).
THEOREM ReaderCopiesHold == ChunkIsPowerOfTwo => (Spec => []CopiesHold)
<1>1. LifeInv /\ CopiesInv => CopiesHold
  BY DEF CopiesInv
<1> QED BY <1>1, ReaderInv, PTL

\* The replicas of one element lie in different channel slots (hedged_reader.hpp,
\* lines 110-111).
THEOREM ReaderDifferentChannels ==
  ChunkIsPowerOfTwo => (Spec => []ReplicasOnDifferentChannels)
<1> SUFFICES ASSUME ChunkIsPowerOfTwo PROVE Spec => []ReplicasOnDifferentChannels
  OBVIOUS
<1>1. LifeInv /\ CopiesInv => ReplicasOnDifferentChannels
  <2> SUFFICES ASSUME LifeInv, CopiesInv,
                      NEW n \in 0 .. logical_index - 1,
                      NEW i \in ReplicaIds, NEW j \in ReplicaIds, i # j
               PROVE  ChannelSlot(Address(i, n)) # ChannelSlot(Address(j, n))
    BY DEF ReplicasOnDifferentChannels
  <2>1. n \in 0 .. m_capacity - 1
    BY LayoutTypes DEF LifeInv, Types, CopiesInv, IndexInsideCapacity
  <2> QED BY <2>1, SlotOfCopy
<1> QED BY <1>1, ReaderInv, PTL
==============================================================================
