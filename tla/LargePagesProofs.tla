--------------------------- MODULE LargePagesProofs ---------------------------
(***************************************************************************)
(* The safety properties of the page allocators and of the search they     *)
(* run, for every page size, every amount of memory and every translation. *)
(* The search's invariant names the pages that each block is made of; the  *)
(* allocators' ties the allocations that are held to the place in the      *)
(* code.  What the two searches for contiguous memory answer is right      *)
(* although both leave their loop early: the verdict of                    *)
(* verifyHugePageIsContiguous is exact, and FindLargestPhysicalRegion      *)
(* returns a largest block.                                                *)
(***************************************************************************)
EXTENDS LargePages, FiniteSetTheorems, TLAPS

Region == [vaddr : Nat, paddr : Nat, size : Nat]

\* r is the n pages from page v on, and they are contiguous memory.
Block(r, v, n) ==
  /\ r.vaddr = v * LargePage /\ r.size = n * LargePage
  /\ Search!Run(v, n)
  /\ n > 0 => r.paddr = phys[v]

Addresses == {LargePage * f : f \in 0 .. Frames - 1} \cup {Unmapped}

SearchTypes ==
  /\ Search!Pages \in Nat /\ phys \in [0 .. Search!Pages - 1 -> Addresses]
  /\ page \in Nat /\ sought \in Nat
  /\ currentRegion \in Region /\ maxRegion \in Region

\* The block in progress ends before the page that is looked at next; the other search
\* keeps no block.
Blocks ==
  /\ \E v, n \in Nat : Block(currentRegion, v, n)
                     /\ (task = "find" /\ n > 0 => v + n = page)
  /\ \E v, n \in Nat : Block(maxRegion, v, n)

SearchInv == SearchTypes /\ Blocks

------------------------------------------------------------------------------
(* The search *)

\* A whole number of pages, divided by the page size.
LEMMA PagesOf ==
  ASSUME NEW n \in Nat
  PROVE  /\ (n * LargePage) \div LargePage = n
         /\ n * LargePage \in Nat
         /\ n * LargePage > 0 <=> n > 0
<1>1. LargePage \in Nat \ {0}
  BY PagesAssumption
<1>2. (n * LargePage) \div LargePage = n /\ n * LargePage \in Nat
  BY <1>1
<1>3. n > 0 => n * LargePage > 0
  BY <1>1
<1> QED BY <1>1, <1>2, <1>3

\* Addresses are numbers, and no frame lies where the failure of a translation is.
LEMMA AddressesAreNat ==
  /\ Addresses \subseteq Nat
  /\ \A a \in Addresses : a # Unmapped => a + LargePage # Unmapped
<1>1. LargePage \in Nat \ {0} /\ Frames \in Nat /\ Unmapped \in Nat
      /\ Unmapped > 2 * LargePage * Frames
  BY PagesAssumption
<1>2. ASSUME NEW f \in 0 .. Frames - 1
      PROVE  LargePage * f \in Nat /\ LargePage * f + LargePage < Unmapped
  <2>1. LargePage * Frames = LargePage * f + LargePage + LargePage * (Frames - 1 - f)
    BY <1>1
  <2>2. LargePage * (Frames - 1 - f) >= 0 /\ LargePage * f \in Nat /\ LargePage * Frames \in Nat
    BY <1>1
  <2>3. 2 * LargePage * Frames >= LargePage * Frames
    BY <1>1, <2>2
  <2>4. 2 * LargePage * Frames \in Nat /\ LargePage * (Frames - 1 - f) \in Nat
    BY <1>1, <2>2
  <2> QED BY <1>1, <2>1, <2>2, <2>3, <2>4
<1> QED BY <1>1, <1>2 DEF Addresses

\* No block is a block of no page.
LEMMA NoBlock ==
  ASSUME Search!Pages \in Nat
  PROVE  Block(Search!NoRegion, 0, 0) /\ Search!NoRegion \in Region
<1>1. LargePage \in Nat
  BY PagesAssumption
<1> QED BY <1>1 DEF Block, Search!Run, Search!NoRegion, Region

\* The search counts pages as one expects.
LEMMA SameCardinality ==
  ASSUME NEW S
  PROVE  Search!Cardinality(S) = Cardinality(S)
BY DEF Search!Cardinality, Cardinality

\* A search that starts has a translation and has kept nothing.
LEMMA CallInv ==
  ASSUME NEW operation, NEW size \in Nat, NEW m \in Nat,
         NEW t \in [0 .. m - 1 -> Addresses], Search!Call(operation, size, t)
  PROVE  SearchInv' /\ Search!Pages' = m
<1>1. /\ phys' = t /\ page' = 0 /\ sought' = size
      /\ currentRegion' = Search!NoRegion /\ maxRegion' = Search!NoRegion
  BY DEF Search!Call
<1>2. Cardinality(0 .. m - 1) = m
  BY FS_Interval
<1>3. Search!Pages' = m
  BY <1>1, <1>2, SameCardinality DEF Search!Pages
<1>4. LargePage \in Nat
  BY PagesAssumption
<1>5. SearchTypes'
  BY <1>1, <1>3 DEF SearchTypes, Search!NoRegion, Region
<1>6. Block(Search!NoRegion, 0, 0)'
  BY <1>3, <1>4 DEF Block, Search!Run, Search!NoRegion
<1>7. Block(currentRegion, 0, 0)' /\ Block(maxRegion, 0, 0)'
  BY <1>1, <1>6 DEF Block, Search!NoRegion
<1> QED BY <1>3, <1>5, <1>7 DEF SearchInv, Blocks

\* Taking a page extends the block in progress by it or starts a block with it.
LEMMA TakePageInv ==
  ASSUME SearchInv, Search!TakePage
  PROVE  SearchInv'
<1> USE DEF SearchInv, SearchTypes
<1>1. LargePage \in Nat \ {0}
  BY PagesAssumption
<1>2. /\ page < Search!Pages /\ phys[page] # Unmapped
      /\ page' = page + 1 /\ UNCHANGED <<phys, sought>>
      /\ currentRegion' = Search!Extended(currentRegion, page)
      /\ maxRegion' \in {currentRegion', maxRegion}
  BY DEF Search!TakePage, Search!arguments
<1>3. Search!Pages' = Search!Pages /\ page \in DOMAIN phys /\ phys[page] \in Nat
  <2>1. Search!Pages' = Search!Pages
    BY <1>2 DEF Search!Pages
  <2>2. page \in 0 .. Search!Pages - 1
    BY <1>2
  <2>3. phys[page] \in Addresses
    BY <2>2
  <2> QED BY <2>1, <2>2, <2>3, AddressesAreNat
<1>4. \A v, n : Search!Run(v, n)' <=> Search!Run(v, n)
  BY <1>2, <1>3 DEF Search!Run
<1>5. PICK v \in Nat, n \in Nat : Block(currentRegion, v, n) /\ (n > 0 => v + n = page)
  BY DEF Blocks, Search!TakePage
<1>6. \E w, k \in Nat :
         /\ k > 0 /\ w + k = page' /\ currentRegion' \in Region
         /\ Block(currentRegion, w, k)'
  <2>1. CASE Search!Follows(currentRegion, phys[page])
    <3>1. n > 0 /\ v + n = page /\ phys[page] = phys[v] + n * LargePage
      BY <2>1, <1>1, <1>5, PagesOf DEF Search!Follows, Block
    <3>2. currentRegion' = [currentRegion EXCEPT !.size = @ + LargePage]
      BY <2>1, <1>2 DEF Search!Extended
    <3>3. currentRegion' \in Region /\ currentRegion'.vaddr = currentRegion.vaddr
          /\ currentRegion'.paddr = currentRegion.paddr
          /\ currentRegion'.size = currentRegion.size + LargePage
      BY <3>2, <1>1, SMTT(20) DEF Region
    <3>4. n * LargePage + LargePage = (n + 1) * LargePage
      BY <1>1
    <3>5. Search!Run(v, n + 1)
      <4>1. v + (n + 1) <= Search!Pages
        BY <3>1, <1>2
      <4>2. ASSUME NEW k \in 0 .. (n + 1) - 1
            PROVE  phys[v + k] # Unmapped /\ phys[v + k] = phys[v] + k * LargePage
        <5>1. CASE k = n
          BY <5>1, <3>1, <1>2
        <5>2. CASE k # n
          BY <5>2, <1>5 DEF Block, Search!Run
        <5> QED BY <5>1, <5>2
      <4> QED BY <4>1, <4>2 DEF Search!Run
    <3>6. Block(currentRegion, v, n + 1)'
      BY <3>3, <3>4, <3>5, <3>1, <1>2, <1>4, <1>5 DEF Block
    <3> QED BY <3>1, <3>3, <3>6, <1>2
  <2>2. CASE ~Search!Follows(currentRegion, phys[page])
    <3>1. currentRegion' = [vaddr |-> page * LargePage, paddr |-> phys[page],
                            size |-> LargePage]
      BY <2>2, <1>2 DEF Search!Extended
    <3>2. currentRegion' \in Region
      BY <3>1, <1>1, <1>3, PagesOf DEF Region
    <3>3. Search!Run(page, 1)
      <4>1. ASSUME NEW k \in 0 .. 1 - 1
            PROVE  phys[page + k] # Unmapped /\ phys[page + k] = phys[page] + k * LargePage
        <5>1. k = 0 /\ page + k = page /\ k * LargePage = 0
          BY <1>1
        <5> QED BY <5>1, <1>2, <1>3
      <4> QED BY <4>1, <1>2 DEF Search!Run
    <3>4. PICK w \in Nat : w = page
      OBVIOUS
    <3>5. Search!Run(w, 1)' /\ 1 * LargePage = LargePage /\ phys'[w] = phys[page]
      BY <3>3, <3>4, <1>1, <1>2, <1>4
    <3>6. Block(currentRegion, w, 1)'
      BY <3>1, <3>4, <3>5 DEF Block
    <3> QED BY <3>2, <3>4, <3>6, <1>2
  <2> QED BY <2>1, <2>2
<1>7. \E w, k \in Nat : maxRegion' \in Region /\ Block(maxRegion, w, k)'
  <2>1. CASE maxRegion' = currentRegion'
    BY <2>1, <1>6 DEF Block
  <2>2. CASE maxRegion' = maxRegion
    BY <2>2, <1>2, <1>4 DEF Blocks, Block
  <2> QED BY <2>1, <2>2, <1>2
<1> QED BY <1>2, <1>3, <1>6, <1>7 DEF Blocks

\* Steps that leave the translation and the blocks alone keep the invariant.
LEMMA BlocksUntouched ==
  ASSUME SearchInv, page' \in Nat, page' = page \/ task # "find",
         UNCHANGED <<task, phys, sought, currentRegion, maxRegion>>
  PROVE  SearchInv' /\ Search!Pages' = Search!Pages
<1>1. Search!Pages' = Search!Pages
  BY DEF Search!Pages
<1>2. SearchTypes'
  BY <1>1 DEF SearchInv, SearchTypes
<1>3. \A v, n : /\ Block(currentRegion, v, n)' <=> Block(currentRegion, v, n)
                /\ Block(maxRegion, v, n)' <=> Block(maxRegion, v, n)
  BY <1>1 DEF Block, Search!Run
<1>4. Blocks'
  BY <1>3 DEF SearchInv, Blocks
<1> QED BY <1>1, <1>2, <1>4 DEF SearchInv

\* Every step of a search keeps its invariant and its translation.
LEMMA SearchNextInv ==
  ASSUME SearchInv, Search!Next
  PROVE  SearchInv' /\ Search!Pages' = Search!Pages
<1>1. CASE Search!TakePage
  BY <1>1, TakePageInv DEF Search!TakePage, Search!arguments, Search!Pages
<1>2. CASE Search!SkipUnmapped
  <2>1. /\ UNCHANGED <<phys, sought, maxRegion>> /\ page' = page + 1
        /\ currentRegion' = Search!NoRegion
    BY <1>2 DEF Search!SkipUnmapped, Search!arguments
  <2>2. Search!Pages' = Search!Pages
    BY <2>1 DEF Search!Pages
  <2>3. Block(Search!NoRegion, 0, 0) /\ Search!NoRegion \in Region
    BY NoBlock DEF SearchInv, SearchTypes
  <2>4. \A v, n : Search!Run(v, n)' <=> Search!Run(v, n)
    BY <2>1, <2>2 DEF Search!Run
  <2>5. Block(currentRegion, 0, 0)'
    BY <2>1, <2>3, <2>4 DEF Block
  <2>6. \A v, n : Block(maxRegion, v, n) => Block(maxRegion, v, n)'
    BY <2>1, <2>4 DEF Block
  <2>7. SearchTypes'
    BY <2>1, <2>2, <2>3 DEF SearchInv, SearchTypes
  <2>8. Blocks'
    BY <2>5, <2>6 DEF SearchInv, Blocks
  <2> QED BY <2>2, <2>7, <2>8 DEF SearchInv
<1>3. CASE Search!FindEnds \/ Search!VerifyEnds
  BY <1>3, BlocksUntouched DEF Search!FindEnds, Search!VerifyEnds, Search!Finish,
       Search!arguments, Search!regions, SearchInv, SearchTypes
<1>4. CASE Search!VerifyFirst
  BY <1>4, BlocksUntouched DEF Search!VerifyFirst, Search!arguments, Search!regions
<1>5. CASE Search!VerifyNext
  BY <1>5, BlocksUntouched DEF Search!VerifyNext, Search!arguments, Search!regions,
       SearchInv, SearchTypes
<1> QED BY <1>1, <1>2, <1>3, <1>4, <1>5 DEF Search!Next

\* The invariant says of both blocks what the search promises.
LEMMA BlocksAreContiguous == SearchInv => Search!RegionIsContiguous
<1> SUFFICES ASSUME SearchInv, NEW r \in {currentRegion, maxRegion}
             PROVE  LET v == r.vaddr \div LargePage  n == r.size \div LargePage
                    IN Search!Run(v, n) /\ (n > 0 => r.paddr = phys[v])
  BY DEF Search!RegionIsContiguous
<1>1. PICK v \in Nat, n \in Nat : Block(r, v, n)
  BY DEF SearchInv, Blocks
<1> QED BY <1>1, PagesOf DEF Block

------------------------------------------------------------------------------
(* The allocators *)

AllocTypes ==
  /\ strategy \in {"min", "max", "plain", "find", "verify"} /\ request \in Nat
  /\ pc \in {"begin", "search", "tooSmall", "found", "shrink", "returned", "freed"}
  /\ granted \in Nat /\ live \subseteq Nat \ {0} /\ attempt \in Nat /\ virtaddr \in Nat
  /\ multiplier \in Int /\ (strategy = "min" => multiplier \in Nat)

\* What is held at each place: nothing between two attempts, the attempt while it is
\* looked at, and what the caller got.  allocateLargePageMax has no part in this.
HeldInPhase ==
  strategy # "max" =>
    /\ pc # "shrink" /\ (strategy \in {"find", "verify"} => live = {})
    /\ pc \in {"begin", "freed"} => live = {}
    /\ pc \in {"search", "tooSmall", "found"} => live \subseteq {attempt}
    /\ pc = "returned" => live \subseteq {virtaddr}

\* An attempt of allocateLargePageMin: its pages, its block, and that it is still held.
MinInPhase ==
  strategy = "min" =>
    /\ sizeInBytes \in Nat /\ Search!Pages * LargePage <= sizeInBytes
    /\ pc \in {"search", "tooSmall", "found"} /\ attempt # 0 => attempt \in live
    /\ pc = "found" => physMem = maxRegion /\ request <= physMem.size
    /\ pc = "returned" /\ virtaddr # 0 =>
         virtaddr \in live /\ physMem = maxRegion /\ request <= physMem.size

Inv == SearchInv /\ AllocTypes /\ HeldInPhase /\ MinInPhase

\* A share of the memory is a size.
LEMMA ShareSize ==
  ASSUME NEW p \in Nat, NEW a \in Nat
  PROVE  Share(p, a, LargePage) \in Nat
<1>1. LargePage \in Nat \ {0}
  BY PagesAssumption
<1> DEFINE k == (p * a) \div 100 + LargePage - 1
<1>2. k \in Nat
  <2>1. p * a \in Nat
    OBVIOUS
  <2> QED BY <2>1, <1>1
<1> HIDE DEF k
<1>3. k \div LargePage \in Nat
  BY <1>1, <1>2
<1>4. (k \div LargePage) * LargePage \in Nat
  BY <1>1, <1>3
<1> QED BY <1>4 DEF Share, RoundUp, k

\* The whole pages of a size are no larger than it.
LEMMA WholePages ==
  ASSUME NEW s \in Nat
  PROVE  s \div LargePage \in Nat /\ (s \div LargePage) * LargePage <= s
BY PagesAssumption

\* Before the call nothing is held and no search has run.
LEMMA InitInv == Init => Inv
<1> SUFFICES ASSUME Init PROVE Inv
  OBVIOUS
<1>1. LargePage \in Nat \ {0}
  BY PagesAssumption
<1>2. /\ phys = Search!NoTranslation /\ page = 0 /\ sought = 0
      /\ currentRegion = Search!NoRegion /\ maxRegion = Search!NoRegion
  BY DEF Init, Search!Init
<1>3. DOMAIN phys = {}
  BY <1>2 DEF Search!NoTranslation
<1>4. Search!Pages = 0
  BY <1>3, SameCardinality, FS_EmptySet DEF Search!Pages
<1>5. phys \in [0 .. Search!Pages - 1 -> Addresses]
  <2>1. 0 .. 0 - 1 = {}
    OBVIOUS
  <2>2. phys = [x \in {} |-> Unmapped]
    BY <1>2 DEF Search!NoTranslation
  <2> QED BY <2>1, <2>2, <1>4
<1>6. Block(Search!NoRegion, 0, 0) /\ Search!NoRegion \in Region
  BY <1>4, NoBlock
<1>7. SearchInv
  BY <1>2, <1>4, <1>5, <1>6 DEF SearchInv, SearchTypes, Blocks
<1>8. AllocTypes /\ HeldInPhase
  BY PagesAssumption DEF Init, AllocTypes, HeldInPhase
<1>9. MinInPhase
  BY <1>1, <1>4, PagesAssumption DEF Init, MinInPhase
<1> QED BY <1>7, <1>8, <1>9 DEF Inv

\* An attempt holds what was granted, and runs a search of its own.
LEMMA MinAttemptInv ==
  ASSUME Inv, MinAttempt
  PROVE  Inv'
<1> USE DEF Inv
<1>1. /\ strategy = "min" /\ pc = "begin" /\ live = {} /\ multiplier \in Nat
      /\ pc' = "search" /\ UNCHANGED <<strategy, request, multiplier, virtaddr, physMem>>
  BY DEF MinAttempt, AllocTypes, HeldInPhase, call
<1>2. sizeInBytes' \in Nat
  BY <1>1, ShareSize, PagesAssumption DEF MinAttempt
<1>3. /\ granted' \in Nat /\ attempt' \in Nat
      /\ live' = IF attempt' = 0 THEN {} ELSE {attempt'}
  BY <1>1 DEF MinAttempt, Grant, Refuse, AllocTypes
<1> DEFINE m == sizeInBytes' \div LargePage
<1>4. m \in Nat /\ m * LargePage <= sizeInBytes'
  BY <1>2, WholePages
<1>5. \E t \in [0 .. m - 1 -> Addresses] : Search!Call("find", 0, t)
  <2>1. PICK t \in Search!Translations(m) : Search!Call("find", 0, t)
    BY DEF MinAttempt
  <2>2. Search!Translations(m) \subseteq [0 .. m - 1 -> Addresses]
    BY DEF Search!Translations, Addresses
  <2>3. t \in [0 .. m - 1 -> Addresses]
    BY <2>1, <2>2 DEF Addresses
  <2> QED BY <2>1, <2>3
<1>6. SearchInv' /\ Search!Pages' = m
  BY <1>4, <1>5, CallInv
<1>7. AllocTypes'
  BY <1>1, <1>3 DEF AllocTypes
<1>8. HeldInPhase'
  BY <1>1, <1>3 DEF HeldInPhase
<1>9. MinInPhase'
  BY <1>1, <1>2, <1>3, <1>4, <1>6 DEF MinInPhase
<1> QED BY <1>6, <1>7, <1>8, <1>9

\* A search changes nothing that is held.
LEMMA SearchingInv ==
  ASSUME Inv, Searching
  PROVE  Inv'
<1>1. SearchInv' /\ Search!Pages' = Search!Pages
  BY SearchNextInv DEF Inv, Searching
<1>2. UNCHANGED <<strategy, request, multiplier, granted, live, attempt, virtaddr,
                  sizeInBytes, physMem, pc>> /\ pc = "search"
  BY DEF Searching, call, result
<1> QED BY <1>1, <1>2 DEF Inv, AllocTypes, HeldInPhase, MinInPhase

\* No other step changes what the search has found.
LEMMA SearchUntouched ==
  ASSUME SearchInv, UNCHANGED search
  PROVE  SearchInv' /\ Search!Pages' = Search!Pages
<1>1. UNCHANGED <<task, phys, sought, page, currentRegion, maxRegion>>
  BY DEF search
<1> QED BY <1>1, BlocksUntouched DEF SearchInv, SearchTypes

\* The rest of allocateLargePageMin.
LEMMA MinInv ==
  ASSUME Inv, MinVerdict \/ MinRelease \/ MinFound \/ MinGivesUp
  PROVE  Inv'
<1> USE DEF Inv
<1>1. UNCHANGED search /\ UNCHANGED <<strategy, request, granted, attempt, sizeInBytes>>
  BY DEF MinVerdict, MinRelease, MinFound, MinGivesUp, call, result
<1>2. SearchInv' /\ Search!Pages' = Search!Pages /\ maxRegion' = maxRegion
  BY <1>1, SearchUntouched DEF search
<1>3. maxRegion.size \in Nat
  BY DEF SearchInv, SearchTypes, Region
<1>4. CASE MinVerdict
  <2>1. /\ pc = "search" /\ physMem' = maxRegion /\ UNCHANGED <<multiplier, live, virtaddr>>
        /\ pc' \in {"tooSmall", "found"}
        /\ pc' = "found" => ~(maxRegion.size < request)
    BY <1>4 DEF MinVerdict
  <2>2. AllocTypes' /\ HeldInPhase'
    BY <1>1, <2>1 DEF AllocTypes, HeldInPhase
  <2>3. MinInPhase'
    BY <1>1, <1>2, <1>3, <2>1 DEF MinInPhase, AllocTypes
  <2> QED BY <1>2, <2>2, <2>3
<1>5. CASE MinRelease
  <2>1. /\ pc = "tooSmall" /\ pc' = "begin" /\ live' = live \ {attempt}
        /\ multiplier' = multiplier + 1 /\ UNCHANGED <<virtaddr, physMem>>
    BY <1>5 DEF MinRelease, result
  <2>2. AllocTypes'
    BY <1>1, <2>1 DEF AllocTypes
  <2>3. HeldInPhase'
    BY <1>1, <2>1 DEF HeldInPhase
  <2>4. MinInPhase'
    BY <1>1, <1>2, <2>1 DEF MinInPhase
  <2> QED BY <1>2, <2>2, <2>3, <2>4
<1>6. CASE MinFound
  <2>1. /\ pc = "found" /\ pc' = "returned" /\ virtaddr' = attempt
        /\ UNCHANGED <<multiplier, live, physMem>>
    BY <1>6 DEF MinFound
  <2> QED BY <1>1, <1>2, <2>1 DEF AllocTypes, HeldInPhase, MinInPhase
<1>7. CASE MinGivesUp
  <2>1. /\ pc = "begin" /\ pc' = "returned" /\ virtaddr' = 0
        /\ UNCHANGED <<multiplier, live, physMem>>
    BY <1>7 DEF MinGivesUp
  <2> QED BY <1>1, <1>2, <2>1 DEF AllocTypes, HeldInPhase, MinInPhase
<1> QED BY <1>4, <1>5, <1>6, <1>7

\* allocateLargePageMax, of which only the types matter here, and allocateLargePage.
LEMMA OtherAllocatorsInv ==
  ASSUME Inv, MaxHuge \/ MaxAttempt \/ Allocate
  PROVE  Inv'
<1> USE DEF Inv
<1>1. UNCHANGED search /\ UNCHANGED <<strategy, request>>
  BY DEF MaxHuge, MaxAttempt, Allocate, call
<1>2. SearchInv'
  BY <1>1, SearchUntouched
<1>3. strategy # "min" /\ (pc = "shrink" => strategy = "max")
  BY DEF MaxHuge, MaxAttempt, Allocate, HeldInPhase
<1>4. /\ granted' \in Nat /\ live' \subseteq Nat \ {0} /\ attempt' \in Nat
      /\ live' \subseteq live \cup {attempt'}
  <2>1. Grant \/ Refuse
    BY DEF MaxHuge, MaxAttempt, Allocate
  <2>2. CASE Grant
    <3>1. granted' = granted + 1 /\ live' = live \cup {granted'} /\ attempt' = granted'
      BY <2>2 DEF Grant
    <3>2. granted \in Nat /\ live \subseteq Nat \ {0}
      BY DEF AllocTypes
    <3>3. granted' \in Nat \ {0}
      BY <3>1, <3>2
    <3> QED BY <3>1, <3>2, <3>3
  <2>3. CASE Refuse
    BY <2>3 DEF Refuse, AllocTypes
  <2> QED BY <2>1, <2>2, <2>3
<1>5. multiplier' \in Int
  BY PagesAssumption DEF MaxHuge, MaxAttempt, Allocate, AllocTypes
<1>6. virtaddr' \in {virtaddr, attempt'} /\ pc' \in {"shrink", "returned"}
  BY DEF MaxHuge, MaxAttempt, Allocate
<1>7. AllocTypes'
  BY <1>1, <1>3, <1>4, <1>5, <1>6 DEF AllocTypes
<1>8. HeldInPhase'
  <2>1. CASE strategy = "max"
    BY <2>1, <1>1 DEF HeldInPhase
  <2>2. CASE strategy # "max"
    <3>1. Allocate
      BY <2>2, <1>3 DEF MaxHuge, MaxAttempt
    <3>2. virtaddr' = attempt' /\ pc = "begin" /\ pc' = "returned"
      BY <3>1 DEF Allocate
    <3>3. live' \subseteq {virtaddr'}
      BY <2>2, <3>2, <1>4 DEF HeldInPhase
    <3>4. strategy \notin {"find", "verify"} /\ strategy' = strategy
      BY <1>1, <3>1 DEF Allocate
    <3> QED BY <3>2, <3>3, <3>4 DEF HeldInPhase
  <2> QED BY <2>1, <2>2
<1>9. MinInPhase'
  BY <1>1, <1>3 DEF MinInPhase
<1> QED BY <1>2, <1>7, <1>8, <1>9

\* The direct calls of the searches.
LEMMA SearchCallsInv ==
  ASSUME Inv, SearchCalled \/ SearchReturns
  PROVE  Inv'
<1> USE DEF Inv
<1>1. /\ strategy \in {"find", "verify"} /\ live = {}
      /\ pc \in {"begin", "search"} /\ pc' \in {"search", "returned"}
      /\ UNCHANGED <<strategy, request, multiplier, granted, live, attempt, virtaddr>>
  BY DEF SearchCalled, SearchReturns, call, result, HeldInPhase
<1>2. CASE SearchCalled
  <2>1. PICK m \in SearchPages : \E t \in Search!Translations(m) :
               Search!Call(strategy, request, t)
    BY <1>2 DEF SearchCalled
  <2>2. LargePage \in Nat /\ Unmapped \in Nat /\ m \in Nat
    BY PagesAssumption
  <2>3. PICK t \in Search!Translations(m) : Search!Call(strategy, request, t)
    BY <2>1
  <2>4. t \in [0 .. m - 1 -> Addresses]
    BY DEF Search!Translations, Addresses
  <2>5. SearchInv'
    BY <2>2, <2>3, <2>4, CallInv DEF AllocTypes
  <2>6. pc = "begin" /\ pc' = "search"
    BY <1>2 DEF SearchCalled
  <2> QED BY <1>1, <2>5, <2>6 DEF AllocTypes, HeldInPhase, MinInPhase
<1>3. CASE SearchReturns
  <2>1. UNCHANGED search
    BY <1>3 DEF SearchReturns
  <2>2. SearchInv' /\ pc = "search" /\ pc' = "returned" /\ virtaddr = virtaddr'
    BY <1>3, <2>1, SearchUntouched, <1>1 DEF SearchReturns
  <2> QED BY <1>1, <2>2 DEF AllocTypes, HeldInPhase, MinInPhase
<1> QED BY <1>2, <1>3

\* The release by the caller.
LEMMA FreeInv ==
  ASSUME Inv, freeLargePage
  PROVE  Inv'
<1>1. /\ UNCHANGED search /\ pc = "returned" /\ pc' = "freed"
      /\ live' = live \ {virtaddr}
      /\ UNCHANGED <<strategy, request, multiplier, granted, attempt, virtaddr,
                     sizeInBytes, physMem>>
  BY DEF freeLargePage, call, result
<1>2. SearchInv' /\ Search!Pages' = Search!Pages
  BY <1>1, SearchUntouched DEF Inv
<1> QED BY <1>1, <1>2 DEF Inv, AllocTypes, HeldInPhase, MinInPhase

\* Every step keeps the invariant.
LEMMA NextInv == Inv /\ [Next]_vars => Inv'
<1> SUFFICES ASSUME Inv, [Next]_vars PROVE Inv'
  OBVIOUS
<1>1. CASE UNCHANGED vars
  <2>1. UNCHANGED search /\ maxRegion' = maxRegion
        /\ UNCHANGED <<strategy, request, multiplier, granted, live, attempt, virtaddr,
                       sizeInBytes, physMem, pc>>
    BY <1>1 DEF vars, search
  <2>2. SearchInv' /\ Search!Pages' = Search!Pages
    BY <2>1, SearchUntouched DEF Inv
  <2> QED BY <2>1, <2>2 DEF Inv, AllocTypes, HeldInPhase, MinInPhase
<1>2. CASE Next
  BY <1>2, MinAttemptInv, SearchingInv, MinInv, OtherAllocatorsInv, SearchCallsInv, FreeInv
     DEF Next
<1> QED BY <1>1, <1>2

\* The invariant of the allocators and of their search, for every page size, amount of
\* memory and translation.
THEOREM PagesInv == Spec => []Inv
BY InitInv, NextInv, PTL DEF Spec

------------------------------------------------------------------------------
\* Both blocks of a search are contiguous memory of the allocation at every moment
\* (utilities.hpp, lines 313-334).
THEOREM PagesRegionIsContiguous == Spec => []RegionIsContiguous
<1>1. Inv => RegionIsContiguous
  BY BlocksAreContiguous DEF Inv, RegionIsContiguous
<1> QED BY <1>1, PagesInv, PTL

\* No attempt of allocateLargePageMin is left behind (utilities.hpp, lines 391-394).
THEOREM PagesNothingLeftBehind == Spec => []NothingLeftBehind
<1>1. Inv => NothingLeftBehind
  BY DEF Inv, AllocTypes, HeldInPhase, NothingLeftBehind, Expected
<1> QED BY <1>1, PagesInv, PTL

\* What allocateLargePageMin returns is held, contiguous, inside the allocation and as
\* large as asked for (utilities.hpp, lines 384-403).
THEOREM PagesMinSatisfiesRequest == Spec => []MinSatisfiesRequest
<1>1. Inv => MinSatisfiesRequest
  <2> SUFFICES ASSUME Inv, strategy = "min", pc = "returned"
               PROVE  IF virtaddr = 0 THEN live = {}
                      ELSE /\ virtaddr \in live
                           /\ request <= physMem.size
                           /\ physMem.vaddr + physMem.size <= sizeInBytes
                           /\ Search!Run(physMem.vaddr \div LargePage,
                                         physMem.size \div LargePage)
    BY DEF MinSatisfiesRequest
  <2>1. CASE virtaddr = 0
    BY <2>1 DEF Inv, HeldInPhase, AllocTypes
  <2>2. CASE virtaddr # 0
    <3>1. /\ virtaddr \in live /\ physMem = maxRegion /\ request <= physMem.size
          /\ sizeInBytes \in Nat /\ Search!Pages * LargePage <= sizeInBytes
      BY <2>2 DEF Inv, MinInPhase
    <3>2. PICK v \in Nat, n \in Nat : Block(maxRegion, v, n)
      BY DEF Inv, SearchInv, Blocks
    <3>3. LargePage \in Nat \ {0} /\ Search!Pages \in Nat
      BY PagesAssumption DEF Inv, SearchInv, SearchTypes
    <3>4. v + n <= Search!Pages
      BY <3>2 DEF Block, Search!Run
    <3>5. v * LargePage + n * LargePage <= Search!Pages * LargePage
      <4>1. Search!Pages * LargePage
              = v * LargePage + n * LargePage + (Search!Pages - (v + n)) * LargePage
        BY <3>3
      <4>2. (Search!Pages - (v + n)) * LargePage >= 0
        BY <3>3, <3>4
      <4>3. v * LargePage \in Nat /\ n * LargePage \in Nat
        BY <3>3
      <4> QED BY <4>1, <4>2, <4>3, <3>3
    <3>6. physMem.vaddr + physMem.size <= sizeInBytes
      <4>1. v * LargePage \in Nat /\ n * LargePage \in Nat /\ Search!Pages * LargePage \in Nat
        BY <3>3
      <4> QED BY <3>1, <3>2, <3>5, <4>1 DEF Block
    <3> QED BY <2>2, <3>1, <3>2, <3>6, PagesOf DEF Block
  <2> QED BY <2>1, <2>2
<1> QED BY <1>1, PagesInv, PTL

------------------------------------------------------------------------------
(* The verdict of verifyHugePageIsContiguous *)

Last == IF Search!PageCount > 1 THEN Search!PageCount ELSE 1

\* What the verdict says after each page.
VerifyInv ==
  task = "verify" =>
    /\ Search!PageCount \in Nat /\ Last <= Search!Pages
    /\ page = 0 => isContiguous = TRUE /\ searchPc = "scan"
    /\ isContiguous \in BOOLEAN /\ page <= Last
    /\ page > 0 => (isContiguous <=> Search!Run(0, page))
    /\ searchPc = "done" => (isContiguous <=> Search!Run(0, Last))

\* One page at least is looked at.
LEMMA MaxOfCount ==
  ASSUME Search!PageCount \in Nat
  PROVE  Search!Max({1, Search!PageCount}) = Last
<1>1. Last \in {1, Search!PageCount} /\ \A y \in {1, Search!PageCount} : Last >= y
  BY DEF Last
<1>2. \A x \in {1, Search!PageCount} :
        (\A y \in {1, Search!PageCount} : x >= y) => x = Last
  BY DEF Last
<1> QED BY <1>1, <1>2 DEF Search!Max

\* A run of pages is one page longer where the next frame follows.
LEMMA RunGrows ==
  ASSUME SearchTypes, NEW n \in Nat \ {0}, n + 1 <= Search!Pages
  PROVE  Search!Run(0, n + 1) <=> Search!Run(0, n) /\ phys[n - 1] + LargePage = phys[n]
<1>1. LargePage \in Nat \ {0}
  BY PagesAssumption
<1>2. \A k \in 0 .. n : phys[k] \in Addresses /\ phys[k] \in Nat
  <2>1. \A k \in 0 .. n : k \in 0 .. Search!Pages - 1
    BY DEF SearchTypes
  <2>2. \A k \in 0 .. n : phys[k] \in Addresses
    BY <2>1 DEF SearchTypes
  <2> QED BY <2>2, AddressesAreNat
<1>3. phys[0] + (n - 1) * LargePage + LargePage = phys[0] + n * LargePage
  BY <1>1, <1>2
<1>4. ASSUME Search!Run(0, n + 1)
      PROVE  Search!Run(0, n) /\ phys[n - 1] + LargePage = phys[n]
  <2>1. \A k \in 0 .. n : phys[k] # Unmapped /\ phys[k] = phys[0] + k * LargePage
    BY <1>4 DEF Search!Run
  <2>2. phys[n - 1] = phys[0] + (n - 1) * LargePage /\ phys[n] = phys[0] + n * LargePage
    BY <2>1
  <2>3. Search!Run(0, n)
    BY <2>1, <1>4 DEF Search!Run, SearchTypes
  <2> QED BY <2>2, <2>3, <1>3
<1>5. ASSUME Search!Run(0, n), phys[n - 1] + LargePage = phys[n]
      PROVE  Search!Run(0, n + 1)
  <2>1. \A k \in 0 .. n - 1 : phys[k] # Unmapped /\ phys[k] = phys[0] + k * LargePage
    BY <1>5 DEF Search!Run
  <2>2. phys[n] = phys[0] + n * LargePage
    BY <2>1, <1>3, <1>5
  <2>3. phys[n] # Unmapped
    BY <2>1, <1>2, <1>5, AddressesAreNat
  <2>4. \A k \in 0 .. n : phys[k] # Unmapped /\ phys[k] = phys[0] + k * LargePage
    BY <2>1, <2>2, <2>3
  <2> QED BY <2>4 DEF Search!Run
<1> QED BY <1>4, <1>5

\* Longer runs contain the shorter ones.
LEMMA RunShrinks ==
  ASSUME NEW n \in Nat, NEW m \in Nat, m <= n, Search!Pages \in Nat, Search!Run(0, n)
  PROVE  Search!Run(0, m)
BY DEF Search!Run

\* The steps of the verification keep the verdict exact, also where they leave early.
LEMMA VerifySteps ==
  ASSUME SearchInv, VerifyInv,
         Search!VerifyFirst \/ Search!VerifyNext \/ Search!VerifyEnds
  PROVE  VerifyInv'
<1> USE DEF VerifyInv, SearchInv
<1>1. /\ task = "verify" /\ searchPc = "scan" /\ UNCHANGED <<task, sought, phys>>
      /\ Search!PageCount \in Nat /\ Last <= Search!Pages /\ Last \in Nat \ {0}
      /\ page \in Nat /\ Search!Pages \in Nat
  BY DEF Search!VerifyFirst, Search!VerifyNext, Search!VerifyEnds, Search!Finish,
         Search!arguments, Last, SearchTypes
<1>2. /\ Search!PageCount' = Search!PageCount /\ Last' = Last /\ Search!Pages' = Search!Pages
      /\ \A v, n : Search!Run(v, n)' <=> Search!Run(v, n)
  BY <1>1 DEF Search!PageCount, Last, Search!Pages, Search!Run
<1>3. CASE Search!VerifyFirst
  <2>1. page' = 1 /\ isContiguous' = (phys[0] # Unmapped) /\ searchPc' = "scan"
    BY <1>1, <1>3 DEF Search!VerifyFirst
  <2>2. Search!Run(0, 1) <=> phys[0] # Unmapped
    <3>1. LargePage \in Nat /\ phys[0] \in Nat
      <4>1. 0 \in 0 .. Search!Pages - 1
        BY <1>1
      <4>2. phys[0] \in Addresses
        BY <4>1 DEF SearchTypes
      <4> QED BY <4>2, PagesAssumption, AddressesAreNat
    <3>2. \A k \in 0 .. 1 - 1 : k = 0 /\ 0 + k = 0 /\ k * LargePage = 0
      BY <3>1
    <3>3. 0 + 1 <= Search!Pages
      BY <1>1
    <3> QED BY <3>1, <3>2, <3>3 DEF Search!Run
  <2>3. Search!Run(0, page)' <=> Search!Run(0, 1)
    BY <2>1, <1>2 DEF Search!Run
  <2>4. isContiguous' \in BOOLEAN /\ (isContiguous' <=> Search!Run(0, page)')
    BY <2>1, <2>2, <2>3
  <2> QED BY <1>1, <1>2, <2>1, <2>4
<1>4. CASE Search!VerifyNext
  <2>1. /\ page \in 1 .. Search!PageCount - 1 /\ page' = page + 1
        /\ isContiguous' = (isContiguous /\ phys[page - 1] + LargePage = phys[page])
        /\ searchPc' = IF phys[page] = Unmapped \/ ~isContiguous' THEN "done" ELSE "scan"
    BY <1>4 DEF Search!VerifyNext
  <2>2. page + 1 <= Last /\ page \in Nat \ {0} /\ page + 1 <= Search!Pages
    BY <1>1, <2>1 DEF Last
  <2>3. isContiguous' <=> Search!Run(0, page + 1)
    <3>1. Search!Run(0, page + 1) <=> Search!Run(0, page) /\ phys[page - 1] + LargePage = phys[page]
      BY <2>2, RunGrows
    <3>2. isContiguous <=> Search!Run(0, page)
      BY <1>1, <2>2
    <3> QED BY <2>1, <3>1, <3>2
  <2>4. Search!Run(0, page)' <=> Search!Run(0, page + 1)
    BY <2>1, <1>2 DEF Search!Run
  <2>5. isContiguous' => searchPc' = "scan"
    <3>1. Search!Run(0, page + 1) => phys[page] # Unmapped
      BY <2>2 DEF Search!Run
    <3> QED BY <2>1, <2>3, <3>1
  <2>6. ~isContiguous' => ~Search!Run(0, Last)
    BY <2>2, <2>3, <1>1, RunShrinks
  <2>7. isContiguous' \in BOOLEAN
    BY <2>1
  <2> QED BY <1>1, <1>2, <2>1, <2>2, <2>3, <2>4, <2>5, <2>6, <2>7
<1>5. CASE Search!VerifyEnds
  <2>1. /\ page >= Search!Max({1, Search!PageCount})
        /\ searchPc' = "done" /\ UNCHANGED <<page, isContiguous>>
    BY <1>5 DEF Search!VerifyEnds, Search!Finish
  <2>2. page = Last
    BY <1>1, <2>1, MaxOfCount
  <2>3. Search!Run(0, page)' <=> Search!Run(0, page)
    BY <2>1, <1>2 DEF Search!Run
  <2>4. Search!Run(0, Last)' <=> Search!Run(0, Last)
    BY <1>2 DEF Search!Run
  <2> QED BY <1>1, <1>2, <2>1, <2>2, <2>3, <2>4
<1> QED BY <1>3, <1>4, <1>5

\* A size inside m pages is rounded up to m pages at most.
LEMMA CountInside ==
  ASSUME NEW m \in Nat, NEW k \in Nat, k <= m * LargePage
  PROVE  /\ (k + LargePage - 1) \div LargePage \in Nat
         /\ (k + LargePage - 1) \div LargePage <= m
<1>1. LargePage \in Nat \ {0}
  BY PagesAssumption
<1> DEFINE n == k + LargePage - 1
           q == n \div LargePage
<1>2. n \in Nat /\ m * LargePage \in Nat /\ n < m * LargePage + LargePage
  BY <1>1
<1>3. n < (m + 1) * LargePage
  BY <1>1, <1>2
<1> HIDE DEF n
<1>4. q \in Nat /\ q * LargePage <= n
  BY <1>1, <1>2
<1>5. ASSUME q >= m + 1
      PROVE  FALSE
  <2> HIDE DEF q
  <2>1. q * LargePage = (m + 1) * LargePage + (q - (m + 1)) * LargePage
    BY <1>1, <1>4
  <2>2. (q - (m + 1)) * LargePage >= 0 /\ (m + 1) * LargePage \in Nat
    BY <1>1, <1>4, <1>5
  <2> QED BY <2>1, <2>2, <1>2, <1>3, <1>4, <1>1
<1>6. q <= m
  <2> HIDE DEF q
  <2> QED BY <1>4, <1>5
<1> QED BY <1>4, <1>6 DEF n

\* The verification is called with a size inside the allocation, and has seen nothing yet.
LEMMA VerifyCalled ==
  ASSUME Inv, SearchCalled
  PROVE  VerifyInv'
<1>1. SUFFICES ASSUME task' = "verify" PROVE VerifyInv'
  BY DEF VerifyInv
<1>2. PICK m \in SearchPages :
         /\ strategy = "verify" => request <= m * LargePage
         /\ \E t \in Search!Translations(m) : Search!Call(strategy, request, t)
  BY DEF SearchCalled
<1>3. PICK t \in Search!Translations(m) : Search!Call(strategy, request, t)
  BY <1>2
<1>4. m \in Nat \ {0} /\ t \in [0 .. m - 1 -> Addresses]
  BY PagesAssumption DEF Search!Translations, Addresses
<1>5. /\ strategy = "verify" /\ sought' = request /\ page' = 0
      /\ isContiguous' = TRUE /\ searchPc' = "scan"
  BY <1>1, <1>3 DEF Search!Call
<1>6. request \in Nat /\ Search!Pages' = m
  BY <1>3, <1>4, CallInv DEF Inv, AllocTypes
<1>7. Search!PageCount' \in Nat /\ Search!PageCount' <= m
  BY <1>2, <1>4, <1>5, <1>6, CountInside DEF Search!PageCount
<1>8. Last' <= Search!Pages' /\ 0 <= Last'
  BY <1>4, <1>6, <1>7 DEF Last
<1> QED BY <1>5, <1>7, <1>8 DEF VerifyInv

\* Steps that do not touch the search keep what it says.
LEMMA VerifyUntouched ==
  ASSUME VerifyInv, UNCHANGED search
  PROVE  VerifyInv'
BY DEF VerifyInv, search, Last, Search!PageCount, Search!Pages, Search!Run

\* Every step keeps the verdict exact.
LEMMA NextVerify == Inv /\ VerifyInv /\ [Next]_vars => VerifyInv'
<1> SUFFICES ASSUME Inv, VerifyInv, [Next]_vars PROVE VerifyInv'
  OBVIOUS
<1>1. CASE MinAttempt
  <2>1. task' = "find"
    BY <1>1 DEF MinAttempt, Search!Call
  <2> QED BY <2>1 DEF VerifyInv
<1>2. CASE Searching
  <2>1. CASE Search!SkipUnmapped \/ Search!TakePage \/ Search!FindEnds
    <3>1. task' = "find"
      BY <2>1 DEF Search!SkipUnmapped, Search!TakePage, Search!FindEnds, Search!Finish,
           Search!arguments
    <3> QED BY <3>1 DEF VerifyInv
  <2>2. CASE Search!VerifyFirst \/ Search!VerifyNext \/ Search!VerifyEnds
    BY <2>2, VerifySteps DEF Inv
  <2> QED BY <1>2, <2>1, <2>2 DEF Searching, Search!Next
<1>3. CASE SearchCalled
  BY <1>3, VerifyCalled
<1>4. CASE \/ MinVerdict \/ MinRelease \/ MinFound \/ MinGivesUp \/ MaxHuge \/ MaxAttempt
           \/ Allocate \/ SearchReturns \/ freeLargePage \/ UNCHANGED vars
  <2>1. UNCHANGED search
    BY <1>4 DEF MinVerdict, MinRelease, MinFound, MinGivesUp, MaxHuge, MaxAttempt,
         Allocate, SearchReturns, freeLargePage, vars
  <2> QED BY <2>1, VerifyUntouched
<1> QED BY <1>1, <1>2, <1>3, <1>4 DEF Next

\* verifyHugePageIsContiguous says TRUE of contiguous memory and of nothing else
\* (utilities.hpp, lines 256-286).
THEOREM PagesVerdictIsExact == Spec => []VerdictIsExact
<1>1. Init => VerifyInv
  BY DEF Init, Search!Init, VerifyInv
<1>2. VerifyInv => VerdictIsExact
  BY MaxOfCount DEF VerifyInv, VerdictIsExact, Search!VerdictIsExact
<1> QED BY <1>1, <1>2, NextVerify, PagesInv, PTL DEF Spec

------------------------------------------------------------------------------
(* The block of FindLargestPhysicalRegion *)

\* No block that ends before the next page is larger than the one kept, and none that
\* ends there is larger than the one in progress.
Seen == \A v, n \in Nat :
          v + n <= page /\ Search!Run(v, n) => n * LargePage <= maxRegion.size
Ending == \A v, n \in Nat :
            v + n = page /\ Search!Run(v, n) => n * LargePage <= currentRegion.size

\* The search goes on while that is all that is known, and ends with the pages, with a
\* block that is large enough, or at once with a size below one page.
FindInv ==
  task = "find" =>
    /\ page <= Search!Pages /\ searchPc \in {"scan", "done"}
    /\ searchPc = "scan" =>
         Seen /\ Ending /\ currentRegion.size <= maxRegion.size
    /\ searchPc = "done" =>
         \/ page = Search!Pages /\ Seen
         \/ maxRegion.size >= Search!desiredSizeBytes
         \/ Search!Refused

\* A nonempty set of numbers that do not exceed a bound has a largest one.
LEMMA BoundedHasMax ==
  ASSUME NEW b \in Nat, NEW S \in SUBSET (0 .. b), S # {}
  PROVE  \E x \in S : \A y \in S : x >= y
<1> DEFINE Above(x) == (x + 1) .. b
           T == {Above(x) : x \in S}
<1>1. T \subseteq FiniteSubsetsOf(Nat)
  <2>1. ASSUME NEW x \in S
        PROVE  Above(x) \in FiniteSubsetsOf(Nat)
    <3>1. x \in Nat /\ x + 1 \in Int /\ b \in Int
      OBVIOUS
    <3>2. IsFiniteSet(Above(x)) /\ Above(x) \subseteq Nat
      BY <3>1, FS_Interval
    <3> QED BY <3>2 DEF FiniteSubsetsOf
  <2> QED BY <2>1
<1>2. PICK t \in T : \A u \in T : <<u, t>> \notin StrictSubsetOrdering(Nat)
  <2>1. T # {}
    OBVIOUS
  <2> HIDE DEF T
  <2> QED BY <1>1, <2>1, FS_StrictSubsetOrderingWellFounded, WFMin
<1>3. PICK x \in S : t = Above(x)
  OBVIOUS
<1>4. ASSUME NEW y \in S, ~(x >= y)
      PROVE  FALSE
  <2>1. x \in 0 .. b /\ y \in 0 .. b /\ y > x
    BY <1>4
  <2>2. Above(y) \subseteq Above(x) /\ y \in Above(x) /\ y \notin Above(y)
    BY <2>1
  <2>3. Above(x) \subseteq Nat /\ Above(y) \subseteq Nat
    BY <2>1
  <2>4. <<Above(y), Above(x)>> \in StrictSubsetOrdering(Nat)
    <3> HIDE DEF Above
    <3>1. Above(y) # Above(x)
      BY <2>2
    <3> QED BY <2>2, <2>3, <3>1 DEF StrictSubsetOrdering
  <2>5. Above(y) \in T
    OBVIOUS
  <2> QED BY <1>2, <1>3, <2>4, <2>5
<1> QED BY <1>4

\* The longest run is one, and the longest.
LEMMA LongestIsLongest ==
  ASSUME Search!Pages \in Nat
  PROVE  /\ Search!LongestRun \in 0 .. Search!Pages
         /\ \E v \in Nat : Search!Run(v, Search!LongestRun)
         /\ \A v, n \in Nat : Search!Run(v, n) => n <= Search!LongestRun
<1> DEFINE S == {n \in 0 .. Search!Pages : \E v \in 0 .. Search!Pages : Search!Run(v, n)}
<1>1. Search!Run(0, 0)
  BY DEF Search!Run
<1>2. 0 \in S
  BY <1>1
<1>3. \E x \in S : \A y \in S : x >= y
  BY <1>2, BoundedHasMax
<1>4. Search!LongestRun \in S /\ \A y \in S : Search!LongestRun >= y
  <2>1. Search!LongestRun = CHOOSE x \in S : \A y \in S : x >= y
    BY DEF Search!LongestRun, Search!Max
  <2> HIDE DEF S
  <2> QED BY <1>3, <2>1
<1>5. ASSUME NEW v \in Nat, NEW n \in Nat, Search!Run(v, n)
      PROVE  n \in S
  <2>1. v + n <= Search!Pages
    BY <1>5 DEF Search!Run
  <2> QED BY <1>5, <2>1
<1> QED BY <1>4, <1>5

\* Numbers of pages are compared like their sizes.
LEMMA SizesCompare ==
  ASSUME NEW m \in Nat, NEW n \in Nat
  PROVE  m <= n <=> m * LargePage <= n * LargePage
<1>1. LargePage \in Nat \ {0}
  BY PagesAssumption
<1>2. ASSUME NEW i \in Nat, NEW j \in Nat, i <= j
      PROVE  i * LargePage <= j * LargePage
  <2>1. j * LargePage = i * LargePage + (j - i) * LargePage
    BY <1>1
  <2>2. (j - i) * LargePage \in Nat /\ i * LargePage \in Nat /\ j * LargePage \in Nat
    BY <1>1, <1>2
  <2> QED BY <2>1, <2>2
<1>3. ASSUME n + 1 <= m
      PROVE  n * LargePage < m * LargePage
  <2>1. (n + 1) * LargePage <= m * LargePage
    BY <1>2, <1>3
  <2>2. (n + 1) * LargePage = n * LargePage + LargePage
    BY <1>1
  <2>3. n * LargePage \in Nat /\ m * LargePage \in Nat
    BY <1>1
  <2> QED BY <1>1, <2>1, <2>2, <2>3
<1>4. m * LargePage \in Nat /\ n * LargePage \in Nat
  BY <1>1
<1> QED BY <1>2, <1>3, <1>4

\* A run of pages without its last one is a run; the last one follows it.
LEMMA RunBefore ==
  ASSUME SearchTypes, NEW v \in Nat, NEW n \in Nat \ {0}, Search!Run(v, n)
  PROVE  /\ Search!Run(v, n - 1) /\ phys[v + n - 1] # Unmapped
         /\ n > 1 => phys[v + n - 1] = phys[v + n - 2] + LargePage
<1>1. LargePage \in Nat \ {0} /\ Search!Pages \in Nat
  BY PagesAssumption DEF SearchTypes
<1>2. /\ v + n <= Search!Pages
      /\ \A k \in 0 .. n - 1 : /\ phys[v + k] # Unmapped
                               /\ phys[v + k] = phys[v] + k * LargePage
  BY DEF Search!Run
<1>3. Search!Run(v, n - 1)
  BY <1>1, <1>2 DEF Search!Run
<1>4. n - 1 \in 0 .. n - 1 /\ v + (n - 1) = v + n - 1
  OBVIOUS
<1>5. ASSUME n > 1
      PROVE  phys[v + n - 1] = phys[v + n - 2] + LargePage
  <2>1. n - 2 \in 0 .. n - 1 /\ v + (n - 2) = v + n - 2
    BY <1>5
  <2>2. /\ phys[v + n - 1] = phys[v] + (n - 1) * LargePage
        /\ phys[v + n - 2] = phys[v] + (n - 2) * LargePage
    BY <1>2, <1>4, <2>1
  <2>3. phys[v] \in Nat
    <3>1. v \in 0 .. Search!Pages - 1
      BY <1>1, <1>2
    <3> QED BY <3>1, AddressesAreNat DEF SearchTypes
  <2>4. (n - 1) * LargePage = (n - 2) * LargePage + LargePage /\ (n - 2) * LargePage \in Nat
    BY <1>1, <1>5
  <2> QED BY <1>1, <2>2, <2>3, <2>4
<1> QED BY <1>2, <1>3, <1>4, <1>5

\* A page without a frame ends every run.
LEMMA SkipFind ==
  ASSUME SearchInv, FindInv, Search!SkipUnmapped
  PROVE  FindInv'
<1>1. /\ task = "find" /\ searchPc = "scan" /\ page < Search!Pages /\ phys[page] = Unmapped
      /\ page' = page + 1 /\ currentRegion' = Search!NoRegion
      /\ UNCHANGED <<task, sought, phys, maxRegion, searchPc>>
  BY DEF Search!SkipUnmapped, Search!arguments
<1>2. /\ Search!Pages' = Search!Pages /\ page \in Nat /\ Search!Pages \in Nat
      /\ \A v, n : Search!Run(v, n)' <=> Search!Run(v, n)
  BY <1>1 DEF Search!Pages, Search!Run, SearchInv, SearchTypes
<1>3. LargePage \in Nat /\ maxRegion.size \in Nat
  BY PagesAssumption DEF SearchInv, SearchTypes, Region
<1>4. ASSUME NEW v \in Nat, NEW n \in Nat, v + n = page + 1, Search!Run(v, n)
      PROVE  n * LargePage = 0
  <2>1. CASE n = 0
    BY <2>1, <1>3
  <2>2. CASE n # 0
    <3>1. phys[v + n - 1] # Unmapped /\ v + n - 1 = page
      BY <2>2, <1>4, <1>2, RunBefore DEF SearchInv
    <3> QED BY <3>1, <1>1
  <2> QED BY <2>1, <2>2
<1>5. Ending'
  BY <1>1, <1>2, <1>4 DEF Ending, Search!NoRegion
<1>6. Seen'
  <2>1. ASSUME NEW v \in Nat, NEW n \in Nat, v + n <= page + 1, Search!Run(v, n)
        PROVE  n * LargePage <= maxRegion.size
    <3>1. CASE v + n <= page
      BY <3>1, <2>1, <1>1 DEF FindInv, Seen
    <3>2. CASE v + n = page + 1
      BY <3>2, <2>1, <1>3, <1>4
    <3> QED BY <3>1, <3>2, <2>1, <1>2
  <2> QED BY <2>1, <1>1, <1>2 DEF Seen
<1>7. page' <= Search!Pages' /\ currentRegion'.size <= maxRegion'.size
  BY <1>1, <1>2, <1>3 DEF Search!NoRegion
<1> QED BY <1>1, <1>5, <1>6, <1>7 DEF FindInv

\* The block that is extended or started with a page is the largest that ends with it.
LEMMA TakeEnding ==
  ASSUME SearchInv, FindInv, Search!TakePage, NEW v \in Nat, NEW n \in Nat,
         v + n = page + 1, Search!Run(v, n)
  PROVE  n * LargePage <= currentRegion'.size
<1>1. /\ task = "find" /\ searchPc = "scan" /\ page \in Nat
      /\ currentRegion' = Search!Extended(currentRegion, page) /\ Ending
      /\ currentRegion \in Region
  BY DEF Search!TakePage, FindInv, SearchInv, SearchTypes
<1>2. LargePage \in Nat \ {0} /\ currentRegion.size \in Nat
  BY <1>1, PagesAssumption DEF Region
<1>3. CASE n = 0
  <2>1. n * LargePage = 0
    BY <1>2, <1>3
  <2>2. currentRegion'.size \in {currentRegion.size + LargePage, LargePage}
    BY <1>1 DEF Search!Extended, Region
  <2> QED BY <1>2, <2>1, <2>2
<1>4. CASE n # 0
  <2>1. /\ Search!Run(v, n - 1) /\ v + n - 1 = page
        /\ n > 1 => phys[page] = phys[v + n - 2] + LargePage
    BY <1>1, <1>4, RunBefore DEF SearchInv
  <2>2. (n - 1) * LargePage <= currentRegion.size
    <3>1. n - 1 \in Nat /\ v + (n - 1) = page
      BY <1>4, <2>1
    <3> QED BY <3>1, <2>1, <1>1 DEF Ending
  <2>3. n * LargePage = (n - 1) * LargePage + LargePage /\ (n - 1) * LargePage \in Nat
    BY <1>2, <1>4
  <2>4. CASE Search!Follows(currentRegion, phys[page])
    <3>1. currentRegion'.size = currentRegion.size + LargePage
      BY <2>4, <1>1 DEF Search!Extended, Region
    <3> QED BY <3>1, <2>2, <2>3, <1>2
  <2>5. CASE ~Search!Follows(currentRegion, phys[page])
    <3>1. currentRegion'.size = LargePage
      BY <2>5, <1>1 DEF Search!Extended
    <3>2. ASSUME n > 1
          PROVE  FALSE
      <4>1. PICK w \in Nat, k \in Nat :
                  Block(currentRegion, w, k) /\ (k > 0 => w + k = page)
        BY <1>1 DEF SearchInv, Blocks
      <4>2. k > 0
        <5>1. (n - 1) * LargePage > 0
          BY <3>2, <1>2
        <5>2. currentRegion.size > 0
          BY <5>1, <2>2, <2>3, <1>2
        <5>3. currentRegion.size = k * LargePage
          BY <4>1 DEF Block
        <5> QED BY <5>2, <5>3, PagesOf
      <4>3. w + k = page /\ currentRegion.paddr = phys[w] /\ currentRegion.size = k * LargePage
        BY <4>1, <4>2 DEF Block
      <4>4. phys[w + (k - 1)] = phys[w] + (k - 1) * LargePage
        BY <4>1, <4>2 DEF Block, Search!Run
      <4>5. phys[page] = phys[page - 1] + LargePage
        <5>1. v + n - 2 = page - 1
          BY <2>1
        <5> QED BY <5>1, <2>1, <3>2
      <4>6. w + (k - 1) = page - 1 /\ k * LargePage = (k - 1) * LargePage + LargePage
            /\ (k - 1) * LargePage \in Nat
        BY <4>2, <4>3, <1>2
      <4>7. phys[w] \in Nat
        BY <4>3, <1>1 DEF Region
      <4>8. phys[page] = currentRegion.paddr + currentRegion.size
        BY <4>3, <4>4, <4>5, <4>6, <4>7, <1>2
      <4>9. currentRegion.size > 0
        BY <4>2, <4>3, PagesOf
      <4> QED BY <4>8, <4>9, <2>5 DEF Search!Follows
    <3>3. n = 1
      BY <3>2, <1>4
    <3> QED BY <3>1, <3>3, <1>2
  <2> QED BY <2>4, <2>5
<1> QED BY <1>3, <1>4

\* Taking a page keeps both facts, and ends the search only with a block that suffices.
LEMMA TakeFind ==
  ASSUME SearchInv, FindInv, Search!TakePage
  PROVE  FindInv'
<1>1. /\ task = "find" /\ searchPc = "scan" /\ page < Search!Pages
      /\ page' = page + 1 /\ UNCHANGED <<task, sought, phys>>
      /\ maxRegion' = IF currentRegion'.size > maxRegion.size
                      THEN currentRegion' ELSE maxRegion
      /\ searchPc' = IF maxRegion'.size >= Search!desiredSizeBytes THEN "done" ELSE "scan"
  BY DEF Search!TakePage, Search!arguments
<1>2. /\ Search!Pages' = Search!Pages /\ page \in Nat /\ Search!Pages \in Nat
      /\ \A v, n : Search!Run(v, n)' <=> Search!Run(v, n)
      /\ Search!desiredSizeBytes' = Search!desiredSizeBytes
  BY <1>1 DEF Search!Pages, Search!Run, Search!desiredSizeBytes, SearchInv, SearchTypes
<1>3. maxRegion.size \in Nat /\ currentRegion'.size \in Nat
  BY TakePageInv DEF SearchInv, SearchTypes, Region
<1>4. Ending'
  BY <1>1, <1>2, TakeEnding DEF Ending
<1>5. currentRegion'.size <= maxRegion'.size /\ maxRegion.size <= maxRegion'.size
      /\ maxRegion'.size \in Nat
  BY <1>1, <1>3
<1>6. Seen'
  <2>1. ASSUME NEW v \in Nat, NEW n \in Nat, v + n <= page + 1, Search!Run(v, n)
        PROVE  n * LargePage <= maxRegion'.size
    <3>1. n * LargePage \in Nat
      BY PagesAssumption
    <3>2. CASE v + n <= page
      <4>1. n * LargePage <= maxRegion.size
        BY <3>2, <2>1, <1>1 DEF FindInv, Seen
      <4> QED BY <4>1, <3>1, <1>3, <1>5
    <3>3. CASE v + n = page + 1
      <4>1. n * LargePage <= currentRegion'.size
        BY <3>3, <2>1, TakeEnding
      <4> QED BY <4>1, <3>1, <1>3, <1>5
    <3> QED BY <3>2, <3>3, <2>1, <1>2
  <2> QED BY <2>1, <1>1, <1>2 DEF Seen
<1>7. page' <= Search!Pages' /\ searchPc' \in {"scan", "done"}
  BY <1>1, <1>2
<1>8. searchPc' = "done" => maxRegion'.size >= Search!desiredSizeBytes'
  BY <1>1, <1>2
<1> QED BY <1>4, <1>5, <1>6, <1>7, <1>8 DEF FindInv

\* The search ends after the last page, or without one where the size is refused.
LEMMA EndFind ==
  ASSUME SearchInv, FindInv, Search!FindEnds
  PROVE  FindInv'
<1>1. /\ task = "find" /\ searchPc = "scan" /\ searchPc' = "done"
      /\ Search!Refused \/ page = Search!Pages
      /\ UNCHANGED <<task, sought, phys, page, currentRegion, maxRegion>>
  BY DEF Search!FindEnds, Search!Finish, Search!arguments, Search!regions
<1>2. /\ Search!Pages' = Search!Pages /\ (Search!Refused)' = Search!Refused
      /\ \A v, n : Search!Run(v, n)' <=> Search!Run(v, n)
  BY <1>1 DEF Search!Pages, Search!Refused, Search!desiredSizeBytes, Search!Run
<1>3. Seen'
  BY <1>1, <1>2 DEF FindInv, Seen
<1> QED BY <1>1, <1>2, <1>3 DEF FindInv

\* A search that starts has looked at nothing.
LEMMA CallFind ==
  ASSUME NEW operation, NEW size \in Nat, NEW m \in Nat,
         NEW t \in [0 .. m - 1 -> Addresses], Search!Call(operation, size, t)
  PROVE  FindInv'
<1>1. /\ page' = 0 /\ searchPc' = "scan" /\ currentRegion'.size = 0 /\ maxRegion'.size = 0
  BY DEF Search!Call, Search!NoRegion
<1>2. Search!Pages' = m
  BY CallInv
<1>3. \A v, n \in Nat : v + n <= 0 => n = 0 /\ n * LargePage = 0
  BY PagesAssumption
<1>4. Seen' /\ Ending'
  BY <1>1, <1>3 DEF Seen, Ending
<1> QED BY <1>1, <1>2, <1>4 DEF FindInv

\* Every step keeps the invariant of the largest block.
LEMMA NextFind == Inv /\ FindInv /\ [Next]_vars => FindInv'
<1> SUFFICES ASSUME Inv, FindInv, [Next]_vars PROVE FindInv'
  OBVIOUS
<1>1. CASE MinAttempt
  <2> DEFINE m == sizeInBytes' \div LargePage
  <2>1. PICK t \in Search!Translations(m) : Search!Call("find", 0, t)
    BY <1>1 DEF MinAttempt
  <2>2. t \in [0 .. m - 1 -> Addresses]
    BY <2>1 DEF Search!Translations, Addresses
  <2>3. m \in Nat
    <3>1. strategy = "min" /\ multiplier \in Nat
      BY <1>1 DEF MinAttempt, Inv, AllocTypes
    <3>2. sizeInBytes' \in Nat
      BY <1>1, <3>1, ShareSize, PagesAssumption DEF MinAttempt
    <3> QED BY <3>2, WholePages
  <2> HIDE DEF m
  <2> QED BY <2>1, <2>2, <2>3, CallFind
<1>2. CASE Searching
  <2>1. CASE Search!VerifyFirst \/ Search!VerifyNext \/ Search!VerifyEnds
    <3>1. task' = "verify"
      BY <2>1 DEF Search!VerifyFirst, Search!VerifyNext, Search!VerifyEnds, Search!Finish,
           Search!arguments
    <3> QED BY <3>1 DEF FindInv
  <2>2. CASE Search!SkipUnmapped \/ Search!TakePage \/ Search!FindEnds
    BY <2>2, SkipFind, TakeFind, EndFind DEF Inv
  <2> QED BY <1>2, <2>1, <2>2 DEF Searching, Search!Next
<1>3. CASE SearchCalled
  <2>1. PICK m \in SearchPages : \E t \in Search!Translations(m) :
               Search!Call(strategy, request, t)
    BY <1>3 DEF SearchCalled
  <2>2. PICK t \in Search!Translations(m) : Search!Call(strategy, request, t)
    BY <2>1
  <2>3. m \in Nat /\ t \in [0 .. m - 1 -> Addresses] /\ request \in Nat
    BY PagesAssumption DEF Search!Translations, Addresses, Inv, AllocTypes
  <2> QED BY <2>2, <2>3, CallFind
<1>4. CASE \/ MinVerdict \/ MinRelease \/ MinFound \/ MinGivesUp \/ MaxHuge \/ MaxAttempt
           \/ Allocate \/ SearchReturns \/ freeLargePage \/ UNCHANGED vars
  <2>1. UNCHANGED search
    BY <1>4 DEF MinVerdict, MinRelease, MinFound, MinGivesUp, MaxHuge, MaxAttempt,
         Allocate, SearchReturns, freeLargePage, vars
  <2> QED BY <2>1 DEF FindInv, search, Seen, Ending, Search!Pages, Search!Refused,
             Search!desiredSizeBytes, Search!Run
<1> QED BY <1>1, <1>2, <1>3, <1>4 DEF Next

\* No block is as large as the size that stands for no size at all.
LEMMA BlockBelowFailure ==
  ASSUME SearchTypes, NEW v \in Nat, NEW n \in Nat, Search!Run(v, n)
  PROVE  n * LargePage < Unmapped /\ LargePage <= Unmapped
<1>1. /\ LargePage \in Nat \ {0} /\ Frames \in Nat \ {0} /\ Unmapped \in Nat
      /\ Unmapped > 2 * LargePage * Frames
  BY PagesAssumption
<1>2. LargePage * Frames < Unmapped /\ LargePage <= LargePage * Frames
      /\ LargePage * Frames \in Nat
  <2>1. 2 * LargePage * Frames = LargePage * Frames + LargePage * Frames
    BY <1>1
  <2>2. LargePage * Frames = LargePage + LargePage * (Frames - 1)
    BY <1>1
  <2>3. LargePage * Frames \in Nat /\ LargePage * (Frames - 1) \in Nat
    BY <1>1
  <2> QED BY <2>1, <2>2, <2>3, <1>1
<1>3. CASE n = 0
  BY <1>1, <1>2, <1>3
<1>4. CASE n # 0
  <2>1. /\ v + n <= Search!Pages /\ Search!Pages \in Nat
        /\ n - 1 \in 0 .. n - 1 /\ 0 \in 0 .. n - 1
    BY <1>4 DEF Search!Run, SearchTypes
  <2>2. phys[v + (n - 1)] = phys[v] + (n - 1) * LargePage /\ phys[v + (n - 1)] # Unmapped
    BY <2>1 DEF Search!Run
  <2>3. phys[v + (n - 1)] \in Addresses /\ phys[v] \in Nat
    <3>1. v + (n - 1) \in 0 .. Search!Pages - 1 /\ v \in 0 .. Search!Pages - 1
      BY <2>1, <1>4
    <3> QED BY <3>1, AddressesAreNat DEF SearchTypes
  <2>4. PICK f \in 0 .. Frames - 1 : phys[v + (n - 1)] = LargePage * f
    BY <2>2, <2>3 DEF Addresses
  <2>5. LargePage * f + LargePage + LargePage * (Frames - 1 - f) = LargePage * Frames
        /\ LargePage * (Frames - 1 - f) \in Nat /\ LargePage * f \in Nat
    BY <1>1
  <2>6. n * LargePage = (n - 1) * LargePage + LargePage /\ (n - 1) * LargePage \in Nat
    BY <1>1, <1>4
  <2> QED BY <1>1, <1>2, <2>2, <2>3, <2>4, <2>5, <2>6
<1> QED BY <1>3, <1>4

\* FindLargestPhysicalRegion returns a block that no other exceeds, and with a size a block
\* of that size exactly when there is one (utilities.hpp, lines 313-341).
THEOREM PagesFindsLargest == Spec => []FindsLargest
<1>1. Init => FindInv
  <2> SUFFICES ASSUME Init PROVE FindInv
    OBVIOUS
  <2>1. Inv
    BY InitInv
  <2>2. page = 0 /\ searchPc = "done" /\ phys = Search!NoTranslation /\ maxRegion.size = 0
    BY DEF Init, Search!Init, Search!NoRegion
  <2>3. Search!Pages = 0
    <3>1. DOMAIN phys = {}
      BY <2>2 DEF Search!NoTranslation
    <3> QED BY <3>1, SameCardinality, FS_EmptySet DEF Search!Pages
  <2>4. \A v, n \in Nat : v + n <= 0 => n = 0 /\ n * LargePage = 0
    BY PagesAssumption
  <2>5. Seen
    BY <2>2, <2>4 DEF Seen
  <2> QED BY <2>2, <2>3, <2>5 DEF FindInv
<1>2. Inv /\ FindInv => FindsLargest
  <2> SUFFICES ASSUME Inv, FindInv, task = "find", searchPc = "done"
               PROVE  IF sought = 0 THEN maxRegion.size = Search!LongestRun * LargePage
                      ELSE sought >= LargePage =>
                             (maxRegion.size >= sought
                               <=> Search!LongestRun * LargePage >= sought)
    BY DEF FindsLargest, Search!FindsLargest
  <2>1. /\ Search!Pages \in Nat /\ sought \in Nat /\ LargePage \in Nat \ {0}
        /\ Unmapped \in Nat /\ SearchTypes
    BY PagesAssumption DEF Inv, SearchInv, SearchTypes
  <2> DEFINE longest == Search!LongestRun
  <2>2. /\ longest \in Nat
        /\ \E v \in Nat : Search!Run(v, longest)
        /\ \A v, n \in Nat : Search!Run(v, n) => n <= longest
    BY <2>1, LongestIsLongest
  <2> HIDE DEF longest
  <2>3. PICK v \in Nat, n \in Nat : Block(maxRegion, v, n)
    BY DEF Inv, SearchInv, Blocks
  <2>4. maxRegion.size = n * LargePage /\ Search!Run(v, n)
    BY <2>3 DEF Block
  <2>5. /\ n * LargePage <= longest * LargePage
        /\ n * LargePage \in Nat /\ longest * LargePage \in Nat
    <3>1. n <= longest
      BY <2>2, <2>4
    <3> QED BY <3>1, <2>2, <2>1, SizesCompare
  <2>6. n * LargePage < Unmapped /\ LargePage <= Unmapped
    BY <2>1, <2>4, BlockBelowFailure
  <2>7. CASE page = Search!Pages /\ Seen
    <3>1. PICK w \in Nat : Search!Run(w, longest)
      BY <2>2
    <3>2. w + longest <= page
      BY <3>1, <2>7 DEF Search!Run
    <3>3. longest * LargePage <= maxRegion.size
      BY <3>1, <3>2, <2>2, <2>7 DEF Seen
    <3>4. maxRegion.size = longest * LargePage
      BY <3>3, <2>4, <2>5
    <3> QED BY <3>4 DEF longest
  <2>8. CASE maxRegion.size >= Search!desiredSizeBytes
    <3>1. sought # 0 /\ maxRegion.size >= sought
      BY <2>8, <2>1, <2>4, <2>5, <2>6 DEF Search!desiredSizeBytes
    <3>2. longest * LargePage >= sought
      BY <3>1, <2>1, <2>4, <2>5
    <3> QED BY <3>1, <3>2 DEF longest
  <2>9. CASE Search!Refused
    BY <2>9, <2>1, <2>6 DEF Search!Refused, Search!desiredSizeBytes
  <2> QED BY <2>7, <2>8, <2>9 DEF FindInv
<1> QED BY <1>1, <1>2, NextFind, PagesInv, PTL DEF Spec
==============================================================================
