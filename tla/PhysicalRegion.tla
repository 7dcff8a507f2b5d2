--------------------------- MODULE PhysicalRegion ---------------------------
(***************************************************************************)
(* Searching an allocation for physically contiguous memory                *)
(* (tailslayer/include/tailslayer/utilities.hpp, the Windows side):        *)
(* FindLargestPhysicalRegion scans the pages once and keeps the largest    *)
(* block so far; verifyHugePageIsContiguous compares neighbours and stops  *)
(* at the first that do not fit.  Addresses and sizes are in bytes from    *)
(* the start of the allocation.  The translation is VMMDLL_MemVirt2Phys,   *)
(* fixed while the large pages are locked; Unmapped is its failure.        *)
(* LargePages calls both, and states what is assumed of the constants:     *)
(* Call is the call, Next a step of what is called.                        *)
(***************************************************************************)
EXTENDS Integers, FiniteSetsExt

CONSTANTS PageSize,    \* vregionPageSizeBytes, GetLargePageMinimum()
          Frames,      \* bound on the physical page numbers
          Unmapped     \* UINT64_MAX

VARIABLES task,        \* the operation that runs: "find", "verify"
          request,     \* desiredSizeBytes, or sizeBytes; 0 is the default
          phys,        \* the translation of each page of the allocation
          page,        \* offset / PageSize, or lpage_offset
          currentRegion, maxRegion,
          isContiguous,
          pc

vars == <<task, request, phys, page, currentRegion, maxRegion, isContiguous, pc>>
arguments == <<task, request, phys>>
regions == <<currentRegion, maxRegion>>

NoRegion == [vaddr |-> 0, paddr |-> 0, size |-> 0]
Pages == Cardinality(DOMAIN phys)

\* No two pages of an allocation share a frame; 0 is the answer that "usually
\* indicates the page isn't present" and may be given for several.
Translations(pages) ==
  {t \in [0 .. pages - 1 -> {PageSize * f : f \in 0 .. Frames - 1} \cup {Unmapped}] :
     \A v, w \in DOMAIN t : v # w /\ t[v] = t[w] => t[v] \in {0, Unmapped}}

NoTranslation == [v \in {} |-> Unmapped]

Init ==
  /\ task = "find" /\ request = 0 /\ phys = NoTranslation
  /\ page = 0
  /\ currentRegion = NoRegion /\ maxRegion = NoRegion
  /\ isContiguous = TRUE
  /\ pc = "done"

Call(operation, size, translation) ==
  /\ pc = "done"
  /\ task' = operation /\ request' = size /\ phys' = translation
  /\ page' = 0
  /\ currentRegion' = NoRegion /\ maxRegion' = NoRegion
  /\ isContiguous' = TRUE
  /\ pc' = "scan"

Finish == pc' = "done" /\ UNCHANGED <<arguments, page, regions, isContiguous>>

------------------------------------------------------------------------------
(* FindLargestPhysicalRegion *)

desiredSizeBytes == IF request = 0 THEN Unmapped ELSE request

Refused == desiredSizeBytes < PageSize

\* mutant: compared with the frame after the first one of the block
FollowsStart(region, paddr) == region.size > 0 /\ paddr = region.paddr + PageSize

Follows(region, paddr) == region.size > 0 /\ paddr = region.paddr + region.size

Extended(region, v) ==
  IF Follows(region, phys[v])
  THEN [region EXCEPT !.size = @ + PageSize]
  ELSE [vaddr |-> v * PageSize, paddr |-> phys[v], size |-> PageSize]

SkipKeepingRegion ==   \* mutant: the block in progress survives a gap
  /\ task = "find" /\ pc = "scan" /\ ~Refused
  /\ page < Pages /\ phys[page] = Unmapped
  /\ page' = page + 1 /\ currentRegion' = currentRegion
  /\ UNCHANGED <<arguments, maxRegion, isContiguous, pc>>

SkipUnmapped ==
  /\ task = "find" /\ pc = "scan" /\ ~Refused
  /\ page < Pages /\ phys[page] = Unmapped
  /\ page' = page + 1 /\ currentRegion' = NoRegion
  /\ UNCHANGED <<arguments, maxRegion, isContiguous, pc>>

TakePage ==
  /\ task = "find" /\ pc = "scan" /\ ~Refused
  /\ page < Pages /\ phys[page] # Unmapped
  /\ page' = page + 1
  /\ currentRegion' = Extended(currentRegion, page)
  /\ maxRegion' = IF currentRegion'.size > maxRegion.size
                  THEN currentRegion' ELSE maxRegion
  /\ pc' = IF maxRegion'.size >= desiredSizeBytes THEN "done" ELSE "scan"
  /\ UNCHANGED <<arguments, isContiguous>>

FindEnds ==
  /\ task = "find" /\ pc = "scan"
  /\ Refused \/ page = Pages
  /\ Finish

------------------------------------------------------------------------------
(* verifyHugePageIsContiguous *)

\* The size rounded up to whole pages; one page at least is looked at.
PageCount == (request + PageSize - 1) \div PageSize

VerifyFirst ==
  /\ task = "verify" /\ pc = "scan" /\ page = 0
  /\ page' = 1 /\ isContiguous' = (phys[0] # Unmapped)
  /\ UNCHANGED <<arguments, regions, pc>>

VerifyLastOnly ==         \* mutant: the verdict forgets the earlier pages
  /\ task = "verify" /\ pc = "scan" /\ page \in 1 .. PageCount - 1
  /\ isContiguous' = (phys[page - 1] + PageSize = phys[page])
  /\ page' = page + 1
  /\ UNCHANGED <<arguments, regions, pc>>

VerifyNext ==
  /\ task = "verify" /\ pc = "scan" /\ page \in 1 .. PageCount - 1
  /\ isContiguous' = (isContiguous /\ phys[page - 1] + PageSize = phys[page])
  /\ page' = page + 1
  /\ pc' = IF phys[page] = Unmapped \/ ~isContiguous' THEN "done" ELSE "scan"
  /\ UNCHANGED <<arguments, regions>>

VerifyEnds ==
  /\ task = "verify" /\ pc = "scan" /\ page >= Max({1, PageCount})
  /\ Finish

Next ==
  \/ SkipUnmapped \/ TakePage \/ FindEnds
  \/ VerifyFirst \/ VerifyNext \/ VerifyEnds

------------------------------------------------------------------------------
(* What a contiguous block is, and what the two searches promise of one. *)

\* The n pages from page v on are mapped to consecutive frames.
Run(v, n) ==
  /\ v + n <= Pages
  /\ \A k \in 0 .. n - 1 : /\ phys[v + k] # Unmapped
                           /\ phys[v + k] = phys[v] + k * PageSize

LongestRun == Max({n \in 0 .. Pages : \E v \in 0 .. Pages : Run(v, n)})

\* At every moment the block kept, and the block in progress, are contiguous memory
\* that belongs to the allocation and starts at the address they say (lines 313-334).
RegionIsContiguous ==
  \A r \in {currentRegion, maxRegion} :
    LET v == r.vaddr \div PageSize  n == r.size \div PageSize
    IN /\ Run(v, n)
       /\ n > 0 => r.paddr = phys[v]

\* A search without a size returns a block that no other exceeds; one with a size
\* returns a block of that size exactly when there is one (lines 333-341).
FindsLargest ==
  task = "find" /\ pc = "done" =>
    IF request = 0 THEN maxRegion.size = LongestRun * PageSize
    ELSE request >= PageSize =>
           (maxRegion.size >= request <=> LongestRun * PageSize >= request)

\* The verdict is TRUE for contiguous memory and for nothing else, wherever the
\* first discontinuity is and although the loop leaves early (lines 256-286).
VerdictIsExact ==
  task = "verify" /\ pc = "done" =>
    (isContiguous <=> Run(0, Max({1, PageCount})))
=============================================================================
