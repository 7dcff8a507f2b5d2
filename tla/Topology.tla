------------------------------ MODULE Topology ------------------------------
(***************************************************************************)
(* ProcessorConfigurationVector (tailslayer/include/tailslayer/proc.hpp,   *)
(* tailslayer/source/proc.cpp, the Windows side): reading the machine's    *)
(* cores and packages from the operating system into m_proc, the vector    *)
(* DynamicThreadManager is built on.                                       *)
(*                                                                         *)
(* A mask is the set of its bits, so a processor of the machine is a group *)
(* and a bit.  The operating system lists its records in some order that   *)
(* does not change; what the process may run on can change between calls.  *)
(***************************************************************************)
EXTENDS Integers, SequencesExt, FiniteSetsExt, Functions

CONSTANTS Buffers,       \* what GetLogicalProcessorInformationEx may return
          NoPackage,     \* UINT16_MAX, also the largest number of a group
          Undefined,     \* UINT32_MAX
          MaxInitialize  \* bound on the calls of initialize

Places(buffer, relationship) ==
  {i \in DOMAIN buffer : buffer[i].relationship = relationship}
Members(r) == UNION {{<<m.group, b>> : b \in m.mask} : m \in Range(r.groupMask)}
Cores(buffer) == {Members(buffer[i]) : i \in Places(buffer, "core")}
Packages(buffer) == {Members(buffer[i]) : i \in Places(buffer, "package")}
GroupsOf(processors) == {p[1] : p \in processors}

\* A record names each group it is about once, with a processor of it.
WellFormed(r) ==
  /\ r.groupMask \in Seq([group : 0 .. NoPackage, mask : (SUBSET (0 .. 63)) \ {{}}])
  /\ r.groupMask # <<>>
  /\ \A g, h \in DOMAIN r.groupMask : g # h => r.groupMask[g].group # r.groupMask[h].group

\* Cores do not overlap, packages do not either, and each core lies in one.  There
\* are 2^32 - 1 numbers for the at most 2^16 groups of 64 processors.
ASSUME BuffersAssumption ==
  /\ MaxInitialize \in Nat /\ NoPackage \in Nat /\ Undefined \in Nat
  /\ (NoPackage + 1) * 64 <= Undefined
  /\ \A buffer \in Buffers :
       /\ buffer \in Seq(Range(buffer)) /\ Places(buffer, "core") # {}
       /\ \A relationship \in {"core", "package"} : \A i, j \in Places(buffer, relationship) :
            /\ WellFormed(buffer[i])
            /\ i # j => Members(buffer[i]) \cap Members(buffer[j]) = {}
       /\ \A c \in Cores(buffer) : \E p \in Packages(buffer) : c \subseteq p
       /\ Cardinality(Places(buffer, "package")) <= NoPackage

VARIABLES buffer,     \* the machine, as the operating system lists it
          runnable,   \* the processors the process may run on
          primary,    \* corePrimaryGroup, group of the thread that asks
          affinity,   \* currProcAffinityMask
          groups,     \* currProcGroupMasks, as a set
          coreInfoOffset, pkgInfoOffset,  \* places of the records of each kind
          coreMap, packageMap,
          at,         \* position in the list the current loop walks
          group, bit, \* where the inner loops of the pass over the cores are
          config,     \* the object: m_proc and the three counts
          copied,     \* another object that is given copies of it
          calls, pc

vars == <<buffer, runnable, primary, affinity, groups, coreInfoOffset, pkgInfoOffset,
          coreMap, packageMap, at, group, bit, config, copied, calls, pc>>
os == <<runnable, primary, affinity, groups>>
maps == <<coreInfoOffset, pkgInfoOffset, coreMap, packageMap>>
loops == <<at, group, bit>>

Machine == UNION Cores(buffer)
EmptyMap == [k \in {} |-> 0]
NoConfig == [proc |-> <<>>, threads |-> Undefined, cores |-> Undefined,
             packages |-> NoPackage]

Init ==
  /\ buffer \in Buffers
  /\ runnable = {} /\ primary = 0 /\ affinity = {} /\ groups = {}
  /\ coreInfoOffset = <<>> /\ pkgInfoOffset = <<>>
  /\ coreMap = EmptyMap /\ packageMap = EmptyMap
  /\ at = 1 /\ group = 1 /\ bit = 0
  /\ config = NoConfig /\ copied = NoConfig
  /\ calls = 0 /\ pc = "idle"

-----------------------------------------------------------------------------
(* initialize and ProcessCurrentConfiguration *)

initialize ==
  /\ pc = "idle" /\ calls < MaxInitialize
  /\ config' = [config EXCEPT !.proc = <<>>]
  /\ coreInfoOffset' = <<>> /\ pkgInfoOffset' = <<>>
  /\ coreMap' = EmptyMap /\ packageMap' = EmptyMap
  /\ at' = 1 /\ group' = 1 /\ bit' = 0
  /\ calls' = calls + 1 /\ pc' = "query"
  /\ UNCHANGED <<buffer, os, copied>>

\* The records, or the affinity of the process, cannot be obtained.
QueryFails ==
  /\ pc = "query" /\ pc' = "idle"
  /\ UNCHANGED <<buffer, os, maps, loops, config, copied, calls>>

\* The process may run on any processors, of one group or more (affinity masks, job
\* objects).  The mask is that of its primary group, whatever group the thread that
\* asks runs in; some versions of Windows give an empty one when there are several.
\* Neither call for the groups is checked: the first may leave no room for any, the
\* second may leave the zeros that resize put there, all of them or the last ones.
Query ==
  /\ pc = "query"
  /\ \E set \in SUBSET Machine \ {{}} : \E here, home \in set :
       /\ runnable' = set /\ primary' = here[1]
       /\ \/ affinity' = {p[2] : p \in {q \in set : q[1] = home[1]}}
          \/ GroupsOf(set) # {home[1]} /\ affinity' = {}
       /\ groups' \in {GroupsOf(set), GroupsOf(set) \cup {0}, {0}, {}}
  /\ pc' = "scan"
  /\ UNCHANGED <<buffer, maps, loops, config, copied, calls>>

KeyByMask(r) == [r.groupMask[1] EXCEPT !.group = 0]  \* mutant: the group is left out
Key(r) == r.groupMask[1]

\* The maps number their keys in the order they come: nextCoreId, nextPackageId.
Numbered(map, key) ==
  [k \in DOMAIN map \cup {key} |->
     IF k \in DOMAIN map THEN map[k] ELSE Cardinality(DOMAIN map)]

Advance(list, pass) ==
  IF at < Len(list) THEN at' = at + 1 /\ pc' = pc ELSE at' = 1 /\ pc' = pass

Scan ==
  /\ pc = "scan"
  /\ LET r == buffer[at] IN
       \/ /\ r.relationship = "core"
          /\ coreInfoOffset' = Append(coreInfoOffset, at)
          /\ coreMap' = Numbered(coreMap, Key(r))
          /\ UNCHANGED <<pkgInfoOffset, packageMap>>
       \/ /\ r.relationship = "package"
          /\ pkgInfoOffset' = Append(pkgInfoOffset, at)
          /\ packageMap' = Numbered(packageMap, Key(r))
          /\ UNCHANGED <<coreInfoOffset, coreMap>>
       \/ r.relationship \notin {"core", "package"} /\ UNCHANGED maps
  /\ Advance(buffer, "emit")
  /\ UNCHANGED <<buffer, os, group, bit, config, copied, calls>>

UsableByGroup(p) == p[1] \in groups  \* mutant
Usable(p) == p[1] \in groups /\ (p[1] = primary => p[2] \in affinity)

\* The record, and its entry, that the pass over the cores is at.
core == buffer[coreInfoOffset[at]]
entry == core.groupMask[group]
BitsLeft == {b \in entry.mask : b >= bit}

\* One logical processor for each bit set, the lowest first.
Emit ==
  /\ pc = "emit" /\ BitsLeft # {}
  /\ LET lowest == Min(BitsLeft)
         lp == [globalID |-> Undefined, coreID |-> coreMap[Key(core)], pkgID |-> NoPackage,
                usable |-> Usable(<<entry.group, lowest>>), mask |-> <<entry.group, lowest>>]
     IN config' = [config EXCEPT !.proc = Append(@, lp)] /\ bit' = lowest + 1
  /\ UNCHANGED <<buffer, os, maps, at, group, copied, calls, pc>>

NextEntry ==
  /\ pc = "emit" /\ BitsLeft = {}
  /\ bit' = 0
  /\ IF group < Len(core.groupMask) THEN group' = group + 1 /\ UNCHANGED <<at, pc>>
     ELSE group' = 1 /\ Advance(coreInfoOffset, "packages")
  /\ UNCHANGED <<buffer, os, maps, config, copied, calls>>

MatchesFirst(r, lp) ==  \* mutant: only the first group of the package
  lp.mask[1] = r.groupMask[1].group /\ lp.mask[2] \in r.groupMask[1].mask
\* GroupPair == NativeAffinityMask, for one of the record's groups.
Matches(r, lp) ==
  \E m \in Range(r.groupMask) : lp.mask[1] = m.group /\ lp.mask[2] \in m.mask

AssignPackages ==
  /\ pc = "packages"
  /\ LET r == buffer[pkgInfoOffset[at]] IN
       config' = [config EXCEPT !.proc = [i \in DOMAIN @ |->
                    IF Matches(r, @[i]) THEN [@[i] EXCEPT !.pkgID = packageMap[Key(r)]]
                    ELSE @[i]]]
  /\ Advance(pkgInfoOffset, "finish")
  /\ UNCHANGED <<buffer, os, maps, group, bit, copied, calls>>

Finish ==
  /\ pc = "finish"
  /\ config' = [proc |-> [i \in DOMAIN config.proc |->
                            [config.proc[i] EXCEPT !.globalID = i - 1]],
                threads |-> Len(config.proc),
                cores |-> Cardinality(DOMAIN coreMap),
                packages |-> Cardinality(DOMAIN packageMap)]
  /\ pc' = "idle"
  /\ UNCHANGED <<buffer, os, maps, loops, copied, calls>>

destroy ==
  /\ pc = "idle"
  /\ config' = [config EXCEPT !.proc = <<>>]
  /\ UNCHANGED <<buffer, os, maps, loops, copied, calls, pc>>

copyProcessors ==  \* mutant: the counts are not copied
  /\ pc = "idle"
  /\ copied' = [copied EXCEPT !.proc = config.proc]
  /\ UNCHANGED <<buffer, os, maps, loops, config, calls, pc>>

copy ==
  /\ pc = "idle"
  /\ copied' = config
  /\ UNCHANGED <<buffer, os, maps, loops, config, calls, pc>>

Next ==
  \/ initialize \/ QueryFails \/ Query \/ Scan \/ Emit \/ NextEntry \/ AssignPackages
  \/ Finish
  \/ destroy \/ copy

Spec == Init /\ [][Next]_vars

-----------------------------------------------------------------------------
(* What the object answers. *)

logicalCoreCount(c) == IF c.proc = <<>> THEN Undefined ELSE c.threads
physicalCoreCount(c) == IF c.proc = <<>> THEN Undefined ELSE c.cores
packageCount(c) == IF c.proc = <<>> THEN Undefined ELSE c.packages
uniqueCoreID(lp) == <<lp.pkgID, lp.coreID>>

\* What the elements at the places of a set hold, in their order.
AffinitiesAt(proc, own) ==
  [k \in 1 .. Cardinality(own) |->
     LET i == CHOOSE i \in own : Cardinality({j \in own : j <= i}) = k IN proc[i].mask]

MasksBelowLast(c, coreID) ==  \* mutant: >= for >
  IF c.proc = <<>> \/ coreID >= Last(c.proc).coreID THEN <<>>
  ELSE AffinitiesAt(c.proc, {i \in DOMAIN c.proc : c.proc[i].coreID = coreID})
getPhysicalCoreThreadAffinity(c, coreID) ==
  IF c.proc = <<>> \/ coreID > Last(c.proc).coreID THEN <<>>
  ELSE AffinitiesAt(c.proc, {i \in DOMAIN c.proc : c.proc[i].coreID = coreID})

-----------------------------------------------------------------------------
(* The properties are about the object between calls, and about its copy. *)

Filled == {c \in {copied} \cup (IF pc = "idle" THEN {config} ELSE {}) : c.proc # <<>>}
Together(parts, p, q) == \E s \in parts : p \in s /\ q \in s

\* The fields of LogicalProcessor and of the object, in their widths.
Processor == [globalID : 0 .. Undefined, coreID : 0 .. Undefined, pkgID : 0 .. NoPackage,
              usable : BOOLEAN, mask : (0 .. NoPackage) \X (0 .. 63)]
Configuration == [proc : Seq(Processor), threads : 0 .. Undefined,
                  cores : 0 .. Undefined, packages : 0 .. NoPackage]

TypeOK ==
  /\ buffer \in Buffers /\ runnable \subseteq Machine /\ affinity \subseteq 0 .. 63
  /\ groups \subseteq Nat
  /\ config \in Configuration /\ copied \in Configuration
  /\ at \in Nat \ {0} /\ group \in Nat \ {0} /\ bit \in 0 .. 64
  /\ pc \in {"idle", "query", "scan", "emit", "packages", "finish"}

\* Every logical processor of the machine is in m_proc once, under its own index,
\* and two have the same package ID exactly if they sit in the same package, in
\* whatever order the records came (lines 236-332).
EveryProcessorOnce ==
  \A c \in Filled :
    /\ Len(c.proc) = Cardinality(Machine)
    /\ {lp.mask : lp \in Range(c.proc)} = Machine
    /\ \A i, j \in DOMAIN c.proc :
         /\ c.proc[i].globalID = i - 1 /\ c.proc[i].pkgID # NoPackage
         /\ c.proc[i].pkgID = c.proc[j].pkgID
              <=> Together(Packages(buffer), c.proc[i].mask, c.proc[j].mask)

\* uniqueCoreID, the key of the thread manager's maps, tells physical cores apart;
\* there are as many keys as the count the manager's m_freeCoreCount starts with; and
\* a core ID below that count has the masks of exactly one core's threads, a larger one
\* none: comparing with the last element's ID (line 16) cuts nothing off.
CoresIdentified ==
  \A c \in Filled :
    /\ \A lp, other \in Range(c.proc) :
         uniqueCoreID(lp) = uniqueCoreID(other)
           <=> Together(Cores(buffer), lp.mask, other.mask)
    /\ physicalCoreCount(c) = Cardinality({uniqueCoreID(lp) : lp \in Range(c.proc)})
    /\ \A coreID \in 0 .. Cardinality(Machine) :
         LET masks == getPhysicalCoreThreadAffinity(c, coreID) IN
         IF coreID < physicalCoreCount(c)
         THEN IsInjective(masks) /\ Range(masks) \in Cores(buffer)
         ELSE masks = <<>>

\* Counts that are not UINT32_MAX describe the processors that are listed, also
\* after a failed initialize, a destroy, and in a copy (proc.hpp, lines 128-156).
CountsDescribe ==
  \A c \in {copied} \cup (IF pc = "idle" THEN {config} ELSE {}) :
    IF c.proc = <<>> THEN {logicalCoreCount(c), physicalCoreCount(c), packageCount(c)} = {Undefined}
    ELSE /\ logicalCoreCount(c) = Len(c.proc)
         /\ physicalCoreCount(c) = Cardinality(Cores(buffer))
         /\ packageCount(c) = Cardinality(Packages(buffer))

\* Once the groups were obtained (lines 190-192), m_usable is exact for a process with
\* all its processors in one group.  With more groups it is not, but no processor of a
\* group that has none for the process is usable, and of those that the process may
\* run on only some of the asking thread's group can be missing (lines 269-278).
UsableIsRunnable ==
  pc = "idle" /\ config.proc # <<>> /\ groups = GroupsOf(runnable) =>
    LET usable == {lp.mask : lp \in {p \in Range(config.proc) : p.usable}}
    IN IF groups = {primary} THEN usable = runnable
       ELSE /\ GroupsOf(usable) \subseteq groups
            /\ {p \in runnable : p[1] # primary} \subseteq usable
=============================================================================
