----------------------------- MODULE LargePages -----------------------------
(***************************************************************************)
(* Obtaining large pages on Windows                                        *)
(* (tailslayer/include/tailslayer/utilities.hpp): the three strategies     *)
(* that fill an AllocationRequest, freeLargePage, and the two searches for *)
(* contiguous memory.  allocateLargePageMin really runs the search of      *)
(* PhysicalRegion over each of its attempts.                               *)
(*                                                                         *)
(* What the operating system grants, how much memory is available at each  *)
(* attempt, and the frames behind an allocation, differ from call to call. *)
(* Allocations are numbered from 1, and 0 is nullptr.  VirtualFree         *)
(* releases a live allocation and fails on anything else.                  *)
(***************************************************************************)
EXTENDS Integers, FiniteSetsExt

CONSTANTS Strategies,    \* the calls: "min", "max", "plain", "find", "verify"
          LargePage,     \* GetLargePageMinimum()
          HugePage,      \* 1 GiB
          Requests,      \* requested sizes
          SearchSizes, SearchPages,  \* size arguments and allocations of a direct search
          Frames, Unmapped,
          Available,     \* what ullAvailPhys may be
          MinFirst, MinEnd,      \* memMul, 5 .. 80
          MaxFirst, MaxStep      \* memoryMultiplier, 85 in steps of 5

ASSUME PagesAssumption ==
  /\ Strategies \subseteq {"min", "max", "plain", "find", "verify"}
  /\ LargePage \in Nat \ {0} /\ HugePage \in Nat \ {0}
  /\ Requests \subseteq Nat /\ Available \subseteq Nat
  /\ SearchSizes \subseteq Nat /\ SearchPages \subseteq Nat \ {0}
  /\ Frames \in Nat \ {0} /\ Unmapped \in Nat /\ Unmapped > 2 * LargePage * Frames
  /\ MinFirst \in Nat /\ MinEnd \in Nat /\ MinFirst <= MinEnd
  /\ MaxFirst \in Nat /\ MaxStep \in Nat \ {0} /\ MaxFirst % MaxStep = 0

VARIABLES strategy, request,      \* the call
          multiplier,             \* percentage of the available memory
          granted,                \* how many allocations were made
          live,                   \* those not released
          attempt,                \* outVirtAddr
          virtaddr, sizeInBytes,  \* of the AllocationRequest: the last attempt's size
          physMem,                \* what memBegin is set to
          task, sought, phys, page,              \* of PhysicalRegion
          currentRegion, maxRegion, isContiguous, searchPc,
          pc

search == <<task, sought, phys, page, currentRegion, maxRegion, isContiguous, searchPc>>
vars == <<strategy, request, multiplier, granted, live, attempt,
          virtaddr, sizeInBytes, physMem, search, pc>>
call == <<strategy, request>>
result == <<virtaddr, sizeInBytes, physMem>>

Search == INSTANCE PhysicalRegion WITH
            PageSize <- LargePage, request <- sought, pc <- searchPc

RoundUp(n, unit) == ((n + unit - 1) \div unit) * unit
Share(percentage, available, unit) == RoundUp((percentage * available) \div 100, unit)

\* VirtualAlloc and VirtualAlloc2 grant an allocation or return nullptr.
Grant == granted' = granted + 1 /\ live' = live \cup {granted'} /\ attempt' = granted'
Refuse == attempt' = 0 /\ UNCHANGED <<granted, live>>

Init ==
  /\ strategy \in Strategies
  /\ request \in IF strategy \in {"find", "verify"} THEN SearchSizes ELSE Requests
  /\ multiplier = IF strategy = "max" THEN MaxFirst ELSE MinFirst
  /\ granted = 0 /\ live = {} /\ attempt = 0
  /\ virtaddr = 0 /\ sizeInBytes = request
  /\ physMem = Search!NoRegion /\ Search!Init
  /\ pc = "begin"

-----------------------------------------------------------------------------
(* allocateLargePageMin: growing attempts until the contiguous part suffices *)

\* One iteration.  An attempt that was refused is searched as well, from address 0 on:
\* no page is mapped there, but what the process has further up may be, and may even
\* seem large enough.  The size of the search is the default.
MinAttempt ==
  /\ strategy = "min" /\ pc = "begin" /\ multiplier < MinEnd
  /\ \E available \in Available :
       /\ sizeInBytes' = Share(multiplier, available, LargePage)
       /\ Grant \/ Refuse
  /\ LET pages == sizeInBytes' \div LargePage IN
     \E t \in Search!Translations(pages) :
       /\ attempt' = 0 /\ pages > 0 => t[0] = Unmapped
       /\ Search!Call("find", 0, t)
  /\ pc' = "search"
  /\ UNCHANGED <<call, multiplier, virtaddr, physMem>>

Searching ==
  /\ pc = "search" /\ Search!Next
  /\ UNCHANGED <<call, multiplier, granted, live, attempt, result, pc>>

MinVerdict ==
  /\ strategy = "min" /\ pc = "search" /\ searchPc = "done"
  /\ physMem' = maxRegion
  /\ pc' = IF maxRegion.size < request THEN "tooSmall" ELSE "found"
  /\ UNCHANGED <<call, multiplier, granted, live, attempt, virtaddr, sizeInBytes, search>>

MinKeep ==            \* mutant: an attempt that is too small is not released
  /\ pc = "tooSmall"
  /\ multiplier' = multiplier + 1 /\ pc' = "begin"
  /\ UNCHANGED <<call, granted, live, attempt, result, search>>

MinRetry ==           \* mutant: the multiplier stays
  /\ pc = "tooSmall"
  /\ live' = live \ {attempt} /\ pc' = "begin"
  /\ UNCHANGED <<call, multiplier, granted, attempt, result, search>>

\* The release of a live allocation succeeds, so the loop around it runs once.
MinRelease ==
  /\ pc = "tooSmall"
  /\ live' = live \ {attempt}
  /\ multiplier' = multiplier + 1 /\ pc' = "begin"
  /\ UNCHANGED <<call, granted, attempt, result, search>>

MinFound ==
  /\ pc = "found"
  /\ virtaddr' = attempt /\ pc' = "returned"
  /\ UNCHANGED <<call, multiplier, granted, live, attempt, sizeInBytes, physMem, search>>

MinReturnLast ==      \* mutant: returns the last attempt, large enough or not
  /\ strategy = "min" /\ pc = "begin" /\ multiplier >= MinEnd
  /\ virtaddr' = attempt /\ pc' = "returned"
  /\ UNCHANGED <<call, multiplier, granted, live, attempt, sizeInBytes, physMem, search>>

MinGivesUp ==
  /\ strategy = "min" /\ pc = "begin" /\ multiplier >= MinEnd
  /\ virtaddr' = 0 /\ pc' = "returned"
  /\ UNCHANGED <<call, multiplier, granted, live, attempt, sizeInBytes, physMem, search>>

-----------------------------------------------------------------------------
(* allocateLargePageMax: huge pages first, then shrinking attempts *)

\* An attempt below the request is given up with VirtualFree(out.virtaddr), not
\* outVirtAddr.
MaxHuge ==
  /\ strategy = "max" /\ pc = "begin"
  /\ \E available \in Available :
       LET size == Share(80, available, HugePage)
           enough == size >= RoundUp(request, HugePage)
       IN \/ /\ Grant
             /\ IF enough
                THEN virtaddr' = attempt' /\ sizeInBytes' = size /\ pc' = "returned"
                ELSE pc' = "shrink" /\ UNCHANGED <<virtaddr, sizeInBytes>>
          \/ /\ Refuse
             /\ pc' = "shrink" /\ UNCHANGED <<virtaddr, sizeInBytes>>
  /\ UNCHANGED <<call, multiplier, physMem, search>>

MaxAttempt ==
  /\ pc = "shrink" /\ multiplier > 0
  /\ \E available \in Available :
       /\ sizeInBytes' = Share(multiplier, available, LargePage)
       /\ Grant \/ Refuse
  /\ virtaddr' = attempt'
  /\ multiplier' = multiplier - MaxStep
  /\ pc' = IF attempt' # 0 \/ multiplier' = 0 THEN "returned" ELSE "shrink"
  /\ UNCHANGED <<call, physMem, search>>

-----------------------------------------------------------------------------
\* allocateLargePage: VirtualAlloc2, and VirtualAlloc where that refuses.
Allocate ==
  /\ strategy = "plain" /\ pc = "begin"
  /\ sizeInBytes' = RoundUp(request, LargePage)
  /\ Grant \/ Refuse
  /\ virtaddr' = attempt' /\ pc' = "returned"
  /\ UNCHANGED <<call, multiplier, physMem, search>>

\* FindLargestPhysicalRegion and verifyHugePageIsContiguous called on an allocation;
\* a size that is verified lies inside it.
SearchCalled ==
  /\ strategy \in {"find", "verify"} /\ pc = "begin"
  /\ \E pages \in SearchPages :
       /\ strategy = "verify" => request <= pages * LargePage
       /\ \E t \in Search!Translations(pages) : Search!Call(strategy, request, t)
  /\ pc' = "search"
  /\ UNCHANGED <<call, multiplier, granted, live, attempt, result>>

SearchReturns ==
  /\ strategy \in {"find", "verify"} /\ pc = "search" /\ searchPc = "done"
  /\ pc' = "returned"
  /\ UNCHANGED <<call, multiplier, granted, live, attempt, result, search>>

\* The caller releases what it was given; virtaddr stays as it is.
freeLargePage ==
  /\ pc = "returned" /\ virtaddr # 0
  /\ live' = live \ {virtaddr} /\ pc' = "freed"
  /\ UNCHANGED <<call, multiplier, granted, attempt, result, search>>

Next ==
  \/ MinAttempt \/ Searching \/ MinVerdict \/ MinRelease \/ MinFound \/ MinGivesUp
  \/ MaxHuge \/ MaxAttempt
  \/ Allocate \/ SearchCalled \/ SearchReturns \/ freeLargePage

Allocating == Next /\ pc \notin {"returned", "freed"}

\* A call runs on; the caller may keep the memory for ever.
Spec == Init /\ [][Next]_vars /\ WF_vars(Allocating)

-----------------------------------------------------------------------------
TypeOK ==
  /\ multiplier \in 0 .. MaxFirst \cup MinFirst .. MinEnd
  /\ live \subseteq 1 .. granted
  /\ attempt \in 0 .. granted /\ virtaddr \in 0 .. granted
  /\ sizeInBytes \in Nat
  /\ {physMem, currentRegion, maxRegion} \subseteq [vaddr : Nat, paddr : Nat, size : Nat]
  /\ page \in 0 .. Search!Pages /\ searchPc \in {"scan", "done"}
  /\ pc \in {"begin", "search", "tooSmall", "found", "shrink", "returned", "freed"}

\* The promises of PhysicalRegion, for every search that is run here.
RegionIsContiguous == Search!RegionIsContiguous
FindsLargest == Search!FindsLargest
VerdictIsExact == Search!VerdictIsExact

Expected == IF pc \in {"returned", "freed"} THEN {virtaddr} ELSE {attempt}

\* Every allocation that is still held is the one being tried, and after the call
\* the one the caller was given: no attempt is left behind (lines 391-394).
NothingLeftBehind == strategy # "max" => live \subseteq Expected

\* What allocateLargePageMin returns is live, and memBegin names memory inside it,
\* frame after frame in the translation of just this allocation, of the size that
\* was asked for (lines 384-403); with nullptr it holds nothing.
MinSatisfiesRequest ==
  strategy = "min" /\ pc = "returned" =>
    IF virtaddr = 0 THEN live = {}
    ELSE /\ virtaddr \in live
         /\ request <= physMem.size /\ physMem.vaddr + physMem.size <= sizeInBytes
         /\ Search!Run(physMem.vaddr \div LargePage, physMem.size \div LargePage)

\* Every call returns, with memory or without.
Termination == <>(pc = "returned")
=============================================================================
