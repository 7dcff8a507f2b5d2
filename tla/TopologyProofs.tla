--------------------------- MODULE TopologyProofs ---------------------------
(***************************************************************************)
(* What Topology reads from the operating system is the machine, in        *)
(* whatever order the records come, for every machine of well-formed       *)
(* records.  The maps number the records of their kind in the order of     *)
(* the list, because no two of them have the same first entry; the pass    *)
(* over the cores adds each processor of the machine once.                 *)
(***************************************************************************)
EXTENDS Topology, FiniteSetTheorems, WellFoundedInduction, TLAPS

Kinds == {"core", "package"}

\* The types without the widths of the fields, which follow from what Inv says.
AnyProcessor == [globalID : Nat, coreID : Nat, pkgID : Nat, usable : BOOLEAN,
                 mask : Nat \X (0 .. 63)]
AnyConfiguration == [proc : Seq(AnyProcessor), threads : Nat, cores : Nat, packages : Nat]
Types ==
  /\ buffer \in Buffers /\ runnable \subseteq Machine /\ affinity \subseteq 0 .. 63
  /\ groups \subseteq Nat
  /\ config \in AnyConfiguration /\ copied \in AnyConfiguration
  /\ at \in Nat \ {0} /\ group \in Nat \ {0} /\ bit \in 0 .. 64
  /\ pc \in {"idle", "query", "scan", "emit", "packages", "finish"}

\* list names every element of set once.
Enumerates(list, set) ==
  /\ list \in Seq(Nat)
  /\ \A k \in 1 .. Len(list) : list[k] \in set
  /\ \A i \in set : \E k \in 1 .. Len(list) : list[k] = i
  /\ \A k, l \in 1 .. Len(list) : list[k] = list[l] => k = l

Numbers(b, map, list) ==
  /\ DOMAIN map = {Key(b[list[k]]) : k \in 1 .. Len(list)}
  /\ \A k \in 1 .. Len(list) : map[Key(b[list[k]])] = k - 1

\* The records before the n-th are known by their places and their keys.
Before(b, kind, n) == {i \in Places(b, kind) : i < n}
Known(n) ==
  /\ Enumerates(coreInfoOffset, Before(buffer, "core", n))
  /\ Enumerates(pkgInfoOffset, Before(buffer, "package", n))
  /\ Numbers(buffer, coreMap, coreInfoOffset) /\ Numbers(buffer, packageMap, pkgInfoOffset)

\* p is one of the processors of an entry.
In(p, m) == \E c \in m.mask : p = <<m.group, c>>

\* Bit c of the g-th entry of the k-th core comes after bit x of the h-th entry of the l-th.
After(k, g, c, l, h, x) == l < k \/ (l = k /\ (h < g \/ (h = g /\ x < c)))

\* The pass over the cores of cl, now at bit c of the g-th entry of its k-th core, has been
\* at the processor p.
Passed(b, cl, k, g, c, p) ==
  \E l \in 1 .. Len(cl) : \E h \in 1 .. Len(b[cl[l]].groupMask) :
    In(p, b[cl[l]].groupMask[h]) /\ After(k, g, c, l, h, p[2])

\* No processor twice, each with the number of its core among the cores of cl, in order.
InCores(b, proc, cl) ==
  /\ \A i, j \in 1 .. Len(proc) : proc[i].mask = proc[j].mask => i = j
  /\ \A i \in 1 .. Len(proc) : /\ proc[i].coreID + 1 \in 1 .. Len(cl)
                               /\ proc[i].mask \in Members(b[cl[proc[i].coreID + 1]])
  /\ \A i, j \in 1 .. Len(proc) : i < j => proc[i].coreID <= proc[j].coreID

\* Every processor is there.
AllThere(b, proc) == \A p \in UNION Cores(b) : \E i \in 1 .. Len(proc) : proc[i].mask = p

\* Each has the number of its package, among the packages before the n-th of pl.
InPackages(b, proc, pl, n) ==
  \A i \in 1 .. Len(proc) : \A k \in 1 .. Len(pl) :
    proc[i].mask \in Members(b[pl[k]])
      => proc[i].pkgID = IF k < n THEN k - 1 ELSE NoPackage

\* Those that were passed are there, without a package.
Emitted(b, proc, cl, k, g, c) ==
  /\ InCores(b, proc, cl)
  /\ \A i \in 1 .. Len(proc) : /\ Passed(b, cl, k, g, c, proc[i].mask) /\ proc[i].coreID < k
                               /\ proc[i].pkgID = NoPackage
  /\ \A p \in UNION Cores(b) :
       Passed(b, cl, k, g, c, p) => \E i \in 1 .. Len(proc) : proc[i].mask = p

\* An object that was filled describes the machine, with the records in some order.
Describes(b, c, cl, pl) ==
  /\ Enumerates(cl, Places(b, "core")) /\ Enumerates(pl, Places(b, "package"))
  /\ InCores(b, c.proc, cl) /\ AllThere(b, c.proc) /\ InPackages(b, c.proc, pl, Len(pl) + 1)
  /\ \A i \in 1 .. Len(c.proc) : c.proc[i].globalID = i - 1
  /\ c.threads = Len(c.proc) /\ c.cores = Len(cl) /\ c.packages = Len(pl)
Complete(b, c) == \E cl, pl \in Seq(Nat) : Describes(b, c, cl, pl)

\* The mask is that of the process's only group, if there is one; m_usable is what the
\* mask and the groups say.
Affinity ==
  /\ GroupsOf(runnable) = {primary} => affinity = {p[2] : p \in runnable}
  /\ \A i \in 1 .. Len(config.proc) : config.proc[i].usable = Usable(config.proc[i].mask)

Phases ==
  /\ pc \in {"query", "scan"} => /\ Known(at) /\ group = 1 /\ bit = 0 /\ config.proc = <<>>
                                 /\ at \in 1 .. Len(buffer)
  /\ pc = "query" => at = 1
  /\ pc \in {"emit", "packages", "finish"} => Known(Len(buffer) + 1)
  /\ pc = "emit" => /\ at \in 1 .. Len(coreInfoOffset) /\ group \in 1 .. Len(core.groupMask)
                    /\ Emitted(buffer, config.proc, coreInfoOffset, at, group, bit)
  /\ pc \in {"packages", "finish"} =>
       InCores(buffer, config.proc, coreInfoOffset) /\ AllThere(buffer, config.proc)
  /\ pc = "packages" => /\ at \in 1 .. Len(pkgInfoOffset)
                        /\ InPackages(buffer, config.proc, pkgInfoOffset, at)
  /\ pc = "finish" => InPackages(buffer, config.proc, pkgInfoOffset, Len(pkgInfoOffset) + 1)
  /\ pc = "idle" /\ config.proc # <<>> => Complete(buffer, config)
  /\ copied.proc # <<>> => Complete(buffer, copied)

Inv == Types /\ Affinity /\ Phases
------------------------------------------------------------------------------
(* The records *)

\* The processors of a record are those of its entries.
LEMMA MembersOf ==
  ASSUME NEW r, WellFormed(r)
  PROVE  \A p : p \in Members(r) <=> \E g \in 1 .. Len(r.groupMask) : In(p, r.groupMask[g])
<1>1. Range(r.groupMask) = {r.groupMask[g] : g \in 1 .. Len(r.groupMask)}
  BY DEF WellFormed, Range
<1>2. ASSUME NEW p
      PROVE  p \in Members(r) <=> \E m \in Range(r.groupMask) : In(p, m)
  BY DEF Members, In
<1> QED BY <1>1, <1>2

\* The entries of a record are groups of their own, each with a processor.
LEMMA Entries ==
  ASSUME NEW r, WellFormed(r)
  PROVE  /\ Len(r.groupMask) \in Nat \ {0}
         /\ \A g \in 1 .. Len(r.groupMask) :
              /\ r.groupMask[g].group \in 0 .. NoPackage /\ r.groupMask[g].group \in Nat
              /\ r.groupMask[g].mask \subseteq 0 .. 63 /\ r.groupMask[g].mask # {}
              /\ \A h \in 1 .. Len(r.groupMask) :
                   r.groupMask[g].group = r.groupMask[h].group => g = h
<1> DEFINE Entry == [group : 0 .. NoPackage, mask : (SUBSET (0 .. 63)) \ {{}}]
<1>1. r.groupMask \in Seq(Entry) /\ r.groupMask # <<>>
  BY DEF WellFormed
<1>2. \A m \in Entry : m.group \in 0 .. NoPackage /\ m.group \in Nat /\ m.mask \subseteq 0 .. 63 /\ m.mask # {}
  OBVIOUS
<1> HIDE DEF Entry
<1>3. Len(r.groupMask) \in Nat \ {0} /\ DOMAIN r.groupMask = 1 .. Len(r.groupMask)
  BY <1>1
<1>4. \A g \in 1 .. Len(r.groupMask) : r.groupMask[g] \in Entry
  BY <1>1
<1> QED BY <1>2, <1>3, <1>4 DEF WellFormed

\* Where the machine and its lists are what the operating system returns.
LEMMA Buffer ==
  ASSUME NEW b \in Buffers
  PROVE  /\ Len(b) \in Nat /\ DOMAIN b = 1 .. Len(b)
         /\ Places(b, "core") # {} /\ Places(b, "package") # {}
         /\ \A kind \in Kinds : \A i, j \in Places(b, kind) :
              /\ i \in 1 .. Len(b) /\ WellFormed(b[i])
              /\ i # j => Members(b[i]) \cap Members(b[j]) = {}
         /\ \A i \in Places(b, "core") : \E j \in Places(b, "package") :
              Members(b[i]) \subseteq Members(b[j])
<1>1. /\ b \in Seq(Range(b)) /\ Places(b, "core") # {}
      /\ \A c \in Cores(b) : \E p \in Packages(b) : c \subseteq p
      /\ \A kind \in Kinds : \A i, j \in Places(b, kind) :
           /\ WellFormed(b[i])
           /\ i # j => Members(b[i]) \cap Members(b[j]) = {}
  BY BuffersAssumption DEF Kinds
<1>2. Len(b) \in Nat /\ DOMAIN b = 1 .. Len(b)
  BY <1>1
<1>3. \A kind \in Kinds : \A i \in Places(b, kind) : i \in 1 .. Len(b)
  BY <1>2 DEF Places
<1>4. ASSUME NEW i \in Places(b, "core")
      PROVE  \E j \in Places(b, "package") : Members(b[i]) \subseteq Members(b[j])
  <2>1. Members(b[i]) \in Cores(b)
    BY DEF Cores
  <2>2. PICK p \in Packages(b) : Members(b[i]) \subseteq p
    BY <1>1, <2>1
  <2> QED BY <2>2 DEF Packages
<1>5. Places(b, "package") # {}
  BY <1>1, <1>4
<1> QED BY <1>1, <1>2, <1>3, <1>4, <1>5

\* A record has a processor, so two records of a kind differ in their first entry.
LEMMA KeysDiffer ==
  ASSUME NEW b \in Buffers, NEW kind \in Kinds, NEW i \in Places(b, kind)
  PROVE  /\ \E p : p \in Members(b[i])
         /\ \A j \in Places(b, kind) : Key(b[i]) = Key(b[j]) => i = j
<1>1. \A j \in Places(b, kind) : WellFormed(b[j])
  BY Buffer
<1>2. \A j \in Places(b, kind) :
        /\ 1 \in 1 .. Len(b[j].groupMask)
        /\ \E c : c \in b[j].groupMask[1].mask
  <2> TAKE j \in Places(b, kind)
  <2>1. Len(b[j].groupMask) \in Nat \ {0}
    BY <1>1, Entries
  <2>2. 1 \in 1 .. Len(b[j].groupMask)
    BY <2>1
  <2>3. b[j].groupMask[1].mask # {}
    BY <1>1, <2>2, Entries
  <2> QED BY <2>2, <2>3
<1>3. \A j \in Places(b, kind) : \A p :
        In(p, b[j].groupMask[1]) => p \in Members(b[j])
  BY <1>1, <1>2, MembersOf
<1>4. PICK c \in b[i].groupMask[1].mask : TRUE
  BY <1>2
<1> DEFINE p == <<b[i].groupMask[1].group, c>>
<1>5. p \in Members(b[i])
  BY <1>3 DEF In
<1>6. ASSUME NEW j \in Places(b, kind), Key(b[i]) = Key(b[j])
      PROVE  i = j
  <2>1. In(p, b[j].groupMask[1])
    BY <1>6 DEF In, Key
  <2>2. p \in Members(b[i]) \cap Members(b[j])
    BY <1>3, <1>5, <2>1
  <2> HIDE DEF p
  <2> QED BY <2>2, Buffer
<1> QED BY <1>5, <1>6

\* A processor belongs to one core and, in it, to one entry; it is a group and a bit.
LEMMA OneCore ==
  ASSUME NEW b \in Buffers, NEW p \in UNION Cores(b)
  PROVE  /\ p \in Nat \X (0 .. 63)
         /\ \E i \in Places(b, "core") : p \in Members(b[i])
         /\ \A kind \in Kinds : \A i, j \in Places(b, kind) :
              p \in Members(b[i]) /\ p \in Members(b[j]) => i = j
         /\ \A i \in Places(b, "core") :
              \A g, h \in 1 .. Len(b[i].groupMask) :
                In(p, b[i].groupMask[g]) /\ In(p, b[i].groupMask[h]) => g = h
<1>1. PICK i \in Places(b, "core") : p \in Members(b[i])
  BY DEF Cores
<1>2. \A j \in Places(b, "core") : WellFormed(b[j])
  BY Buffer DEF Kinds
<1>3. PICK g \in 1 .. Len(b[i].groupMask) : In(p, b[i].groupMask[g])
  BY <1>1, <1>2, MembersOf
<1>4. p \in Nat \X (0 .. 63)
  <2>1. PICK c \in b[i].groupMask[g].mask : p = <<b[i].groupMask[g].group, c>>
    BY <1>3 DEF In
  <2>2. c \in 0 .. 63 /\ b[i].groupMask[g].group \in Nat
    BY <1>2, <1>3, Entries
  <2> QED BY <2>1, <2>2
<1>5. \A kind \in Kinds : \A j, k \in Places(b, kind) :
        p \in Members(b[j]) /\ p \in Members(b[k]) => j = k
  BY Buffer
<1>6. ASSUME NEW j \in Places(b, "core"), NEW h \in 1 .. Len(b[j].groupMask),
             NEW k \in 1 .. Len(b[j].groupMask),
             In(p, b[j].groupMask[h]), In(p, b[j].groupMask[k])
      PROVE  h = k
  <2>1. b[j].groupMask[h].group = p[1] /\ b[j].groupMask[k].group = p[1]
    BY <1>6 DEF In
  <2> QED BY <1>2, <2>1, Entries
<1> QED BY <1>1, <1>4, <1>5, <1>6

------------------------------------------------------------------------------
(* The lists and the maps *)

\* What 1 .. n names once each has n elements.
LEMMA Counted ==
  ASSUME NEW n \in Nat, NEW S, NEW f \in [1 .. n -> S],
         \A k, l \in 1 .. n : f[k] = f[l] => k = l, \A s \in S : \E k \in 1 .. n : f[k] = s
  PROVE  IsFiniteSet(S) /\ Cardinality(S) = n
<1>1. ExistsBijection(1 .. n, S)
  BY DEF ExistsBijection, Bijection, Injection, Surjection, IsInjective
<1>2. IsFiniteSet(S)
  BY <1>1, FS_NatBijection
<1> QED BY <1>1, <1>2, FS_CountingElements

\* A map has a number for each record of its list.
LEMMA MapCounts ==
  ASSUME NEW b \in Buffers, NEW kind \in Kinds, NEW set \in SUBSET Places(b, kind),
         NEW list, NEW map, Enumerates(list, set), Numbers(b, map, list)
  PROVE  Cardinality(DOMAIN map) = Len(list)
<1>1. PICK n \in Nat : n = Len(list)
  BY DEF Enumerates
<1> DEFINE f == [k \in 1 .. n |-> Key(b[list[k]])]
<1>2. f \in [1 .. n -> DOMAIN map] /\ \A x \in DOMAIN map : \E k \in 1 .. n : f[k] = x
  BY <1>1 DEF Numbers
<1>3. ASSUME NEW k \in 1 .. n, NEW l \in 1 .. n, f[k] = f[l] PROVE k = l
  <2>1. list[k] \in Places(b, kind) /\ list[l] \in Places(b, kind)
    BY <1>1 DEF Enumerates
  <2>2. Key(b[list[k]]) = Key(b[list[l]])
    BY <1>3
  <2>3. list[k] = list[l]
    BY <2>1, <2>2, KeysDiffer
  <2> QED BY <1>1, <2>3 DEF Enumerates
<1> HIDE DEF f
<1> QED BY <1>1, <1>2, <1>3, Counted

\* The next record of a kind gets the next number.
LEMMA NextRecord ==
  ASSUME NEW b \in Buffers, NEW kind \in Kinds, NEW n \in Places(b, kind),
         NEW list, NEW map, Enumerates(list, Before(b, kind, n)), Numbers(b, map, list)
  PROVE  /\ Enumerates(Append(list, n), Before(b, kind, n + 1))
         /\ Numbers(b, Numbered(map, Key(b[n])), Append(list, n))
<1>1. PICK m \in Nat : m = Len(list)
  BY DEF Enumerates
<1> DEFINE longer == Append(list, n)
           key == Key(b[n])
<1>2. n \in Nat /\ \A i \in Places(b, kind) : i \in Nat
  BY Buffer
<1>3. /\ longer \in Seq(Nat) /\ Len(longer) = m + 1 /\ longer[m + 1] = n
      /\ \A k \in 1 .. m : longer[k] = list[k]
  BY <1>1, <1>2 DEF Enumerates
<1>4. Before(b, kind, n + 1) = Before(b, kind, n) \cup {n} /\ n \notin Before(b, kind, n)
  <2>1. \A i \in Nat : (i < n + 1 <=> i < n \/ i = n) /\ ~(n < n)
    BY <1>2
  <2> QED BY <1>2, <2>1, Zenon DEF Before
<1>5. \A k \in 1 .. m + 1 : k \in 1 .. m \/ k = m + 1
  BY <1>1
<1>6. Enumerates(longer, Before(b, kind, n + 1))
  <2>1. \A k \in 1 .. m + 1 : longer[k] \in Before(b, kind, n + 1)
    BY <1>1, <1>3, <1>4, <1>5 DEF Enumerates
  <2>2. \A i \in Before(b, kind, n + 1) : \E k \in 1 .. m + 1 : longer[k] = i
    <3>1. 1 .. m \subseteq 1 .. m + 1 /\ m + 1 \in 1 .. m + 1
      BY <1>1
    <3> HIDE DEF longer
    <3> QED BY <1>1, <1>3, <1>4, <3>1 DEF Enumerates
  <2>3. \A k, l \in 1 .. m + 1 : longer[k] = longer[l] => k = l
    BY <1>1, <1>3, <1>4, <1>5 DEF Enumerates
  <2> HIDE DEF longer
  <2> QED BY <1>3, <2>1, <2>2, <2>3 DEF Enumerates
<1>7. \A k \in 1 .. m : Key(b[list[k]]) # key
  <2> TAKE k \in 1 .. m
  <2>1. list[k] \in Before(b, kind, n)
    BY <1>1 DEF Enumerates
  <2>2. list[k] \in Places(b, kind) /\ list[k] # n
    BY <1>4, <2>1 DEF Before
  <2> QED BY <2>2, KeysDiffer
<1>8. Cardinality(DOMAIN map) = m
  <2>1. Before(b, kind, n) \in SUBSET Places(b, kind)
    BY DEF Before
  <2> QED BY <1>1, <2>1, MapCounts
<1>9. key \notin DOMAIN map
  BY <1>1, <1>7 DEF Numbers
<1>10. Numbers(b, Numbered(map, key), longer)
  <2>1. DOMAIN Numbered(map, key) = DOMAIN map \cup {key}
    BY DEF Numbered
  <2>2. \A x \in DOMAIN map : Numbered(map, key)[x] = map[x]
    BY DEF Numbered
  <2>3. Numbered(map, key)[key] = m
    BY <1>8, <1>9 DEF Numbered
  <2>4. DOMAIN map \cup {key} = {Key(b[longer[k]]) : k \in 1 .. m + 1}
    <3>1. 1 .. m + 1 = 1 .. m \cup {m + 1}
      BY <1>1
    <3>2. \A k \in 1 .. m : Key(b[longer[k]]) = Key(b[list[k]])
      BY <1>3
    <3>3. Key(b[longer[m + 1]]) = key
      BY <1>3
    <3>4. DOMAIN map = {Key(b[list[k]]) : k \in 1 .. m}
      BY <1>1 DEF Numbers
    <3> HIDE DEF longer, key
    <3> QED BY <3>1, <3>2, <3>3, <3>4, Zenon
  <2>5. ASSUME NEW k \in 1 .. m + 1 PROVE Numbered(map, key)[Key(b[longer[k]])] = k - 1
    <3>1. CASE k \in 1 .. m
      <4>1. Key(b[longer[k]]) = Key(b[list[k]])
        BY <1>3, <3>1
      <4>2. Key(b[list[k]]) \in DOMAIN map /\ map[Key(b[list[k]])] = k - 1
        BY <1>1, <3>1 DEF Numbers
      <4> QED BY <2>2, <4>1, <4>2
    <3>2. CASE k = m + 1
      BY <1>1, <1>3, <2>3, <3>2
    <3> QED BY <1>5, <3>1, <3>2
  <2> HIDE DEF longer, key
  <2> QED BY <1>3, <2>1, <2>4, <2>5 DEF Numbers
<1> QED BY <1>6, <1>10

\* A record of another kind leaves a list as it is.
LEMMA OtherRecord ==
  ASSUME NEW b \in Buffers, NEW kind \in Kinds, NEW n \in Nat, n \notin Places(b, kind)
  PROVE  Before(b, kind, n + 1) = Before(b, kind, n)
<1>1. \A i \in Places(b, kind) : i \in Nat
  BY Buffer
<1> QED BY <1>1 DEF Before

\* Before the first record there is none, and before the end there are all.
LEMMA Ends ==
  ASSUME NEW b \in Buffers, NEW kind \in Kinds
  PROVE  Before(b, kind, 1) = {} /\ Before(b, kind, Len(b) + 1) = Places(b, kind)
<1>1. Len(b) \in Nat /\ \A i \in Places(b, kind) : i \in 1 .. Len(b)
  BY Buffer
<1> QED BY <1>1 DEF Before

------------------------------------------------------------------------------
(* The pass over the cores *)

\* The records of cl are those of all cores.
LEMMA ListedCores ==
  ASSUME NEW b \in Buffers, NEW cl, Enumerates(cl, Places(b, "core"))
  PROVE  /\ \A k \in 1 .. Len(cl) :
              /\ cl[k] \in Places(b, "core") /\ WellFormed(b[cl[k]])
              /\ \A g \in 1 .. Len(b[cl[k]].groupMask) : \A p :
                   In(p, b[cl[k]].groupMask[g]) => p \in UNION Cores(b) /\ p \in Members(b[cl[k]])
         /\ \A p \in UNION Cores(b) : \E k \in 1 .. Len(cl) :
              /\ p \in Members(b[cl[k]])
              /\ \E g \in 1 .. Len(b[cl[k]].groupMask) : In(p, b[cl[k]].groupMask[g])
         /\ \A p \in UNION Cores(b) : \A k, l \in 1 .. Len(cl) :
              p \in Members(b[cl[k]]) /\ p \in Members(b[cl[l]]) => k = l
<1>1. \A k \in 1 .. Len(cl) : cl[k] \in Places(b, "core")
  BY DEF Enumerates
<1>2. \A k \in 1 .. Len(cl) : WellFormed(b[cl[k]])
  BY <1>1, Buffer DEF Kinds
<1>3. \A k \in 1 .. Len(cl) : Members(b[cl[k]]) \in Cores(b)
  BY <1>1 DEF Cores
<1>4. \A k \in 1 .. Len(cl) : \A p :
        p \in Members(b[cl[k]])
          <=> \E g \in 1 .. Len(b[cl[k]].groupMask) : In(p, b[cl[k]].groupMask[g])
  BY <1>2, MembersOf
<1>5. \A p \in UNION Cores(b) : \E k \in 1 .. Len(cl) : p \in Members(b[cl[k]])
  <2> TAKE p \in UNION Cores(b)
  <2>1. PICK i \in Places(b, "core") : p \in Members(b[i])
    BY OneCore
  <2>2. PICK k \in 1 .. Len(cl) : cl[k] = i
    BY DEF Enumerates
  <2> QED BY <2>1, <2>2
<1>6. ASSUME NEW p \in UNION Cores(b), NEW k \in 1 .. Len(cl), NEW l \in 1 .. Len(cl),
             p \in Members(b[cl[k]]), p \in Members(b[cl[l]])
      PROVE  k = l
  <2>1. cl[k] = cl[l]
    BY <1>1, <1>6, OneCore DEF Kinds
  <2> QED BY <2>1 DEF Enumerates
<1> QED BY <1>1, <1>2, <1>3, <1>4, <1>5, <1>6

\* A processor is passed when its entry is passed, or its bit in the entry that the pass
\* is at; it is in one entry.
LEMMA PassedWhen ==
  ASSUME NEW b \in Buffers, NEW cl, Enumerates(cl, Places(b, "core")),
         NEW l \in 1 .. Len(cl), NEW h \in 1 .. Len(b[cl[l]].groupMask),
         NEW p, In(p, b[cl[l]].groupMask[h])
  PROVE  \A k, g, c : Passed(b, cl, k, g, c, p) <=> After(k, g, c, l, h, p[2])
<1>1. ASSUME NEW m \in 1 .. Len(cl), NEW j \in 1 .. Len(b[cl[m]].groupMask),
             In(p, b[cl[m]].groupMask[j])
      PROVE  m = l /\ j = h
  <2>1. p \in UNION Cores(b) /\ p \in Members(b[cl[m]]) /\ p \in Members(b[cl[l]])
    BY <1>1, ListedCores
  <2>2. m = l
    BY <2>1, ListedCores
  <2>3. cl[l] \in Places(b, "core")
    BY ListedCores
  <2> QED BY <1>1, <2>1, <2>2, <2>3, OneCore
<1> QED BY <1>1 DEF Passed

\* What was passed is a processor of the machine.
LEMMA PassedIsThere ==
  ASSUME NEW b \in Buffers, NEW cl, Enumerates(cl, Places(b, "core")),
         NEW k, NEW g, NEW c, NEW p, Passed(b, cl, k, g, c, p)
  PROVE  p \in UNION Cores(b)
<1> PICK l \in 1 .. Len(cl) : \E h \in 1 .. Len(b[cl[l]].groupMask) : In(p, b[cl[l]].groupMask[h])
  BY DEF Passed
<1> PICK h \in 1 .. Len(b[cl[l]].groupMask) : In(p, b[cl[l]].groupMask[h])
  OBVIOUS
<1> QED BY ListedCores

\* The lowest bit of a mask from c on, if there is one.
IsNext(mask, c, low) == low \in mask /\ low >= c /\ \A x \in mask : x >= c => x >= low
NoneLeft(mask, c) == \A x \in mask : ~(x >= c)

\* The lowest bit that is left is the next processor.
LEMMA EmitsNext ==
  ASSUME NEW b \in Buffers, NEW S, NEW proc \in Seq(S),
         \A i \in 1 .. Len(proc) : proc[i].coreID \in Nat,
         NEW cl, Enumerates(cl, Places(b, "core")),
         NEW k \in 1 .. Len(cl), NEW g \in 1 .. Len(b[cl[k]].groupMask), NEW c \in Nat,
         Emitted(b, proc, cl, k, g, c),
         NEW low, IsNext(b[cl[k]].groupMask[g].mask, c, low),
         NEW lp \in S, lp.mask = <<b[cl[k]].groupMask[g].group, low>>, lp.coreID = k - 1,
         lp.pkgID = NoPackage
  PROVE  Emitted(b, Append(proc, lp), cl, k, g, low + 1)
<1>1. PICK n \in Nat : n = Len(proc)
  BY SMTT(20)
<1> DEFINE longer == Append(proc, lp)
<1>2. /\ Len(longer) = n + 1 /\ longer[n + 1] = lp
      /\ \A i \in 1 .. n : longer[i] = proc[i] /\ proc[i].coreID \in Nat
      /\ \A i \in 1 .. n + 1 : i \in 1 .. n \/ i = n + 1
      /\ 1 .. n \subseteq 1 .. n + 1 /\ n + 1 \in 1 .. n + 1
  <2>1. /\ Len(longer) = n + 1 /\ longer[n + 1] = lp
        /\ \A i \in 1 .. n : longer[i] = proc[i]
    BY <1>1
  <2>2. /\ \A i \in 1 .. n + 1 : i \in 1 .. n \/ i = n + 1
        /\ 1 .. n \subseteq 1 .. n + 1 /\ n + 1 \in 1 .. n + 1
    BY <1>1
  <2> QED BY <1>1, <2>1, <2>2
<1> HIDE DEF longer
<1>3. k \in Nat /\ Len(cl) \in Nat
  BY DEF Enumerates
<1>4. WellFormed(b[cl[k]])
  BY ListedCores
<1>5. b[cl[k]].groupMask[g].mask \subseteq 0 .. 63 /\ low \in 0 .. 63
  BY <1>4, Entries DEF IsNext
<1>6. In(lp.mask, b[cl[k]].groupMask[g]) /\ lp.mask[2] = low
  BY DEF In, IsNext
<1>7. ~Passed(b, cl, k, g, c, lp.mask) /\ Passed(b, cl, k, g, low + 1, lp.mask)
  <2>1. g \in Nat
    BY <1>4, Entries
  <2>2. \A d : Passed(b, cl, k, g, d, lp.mask) <=> After(k, g, d, k, g, low)
    BY <1>6, PassedWhen
  <2>3. low >= c
    BY DEF IsNext
  <2>4. ~(k < k) /\ ~(g < g) /\ ~(low < c) /\ low < low + 1
    BY <1>3, <1>5, <2>1, <2>3
  <2> QED BY <2>2, <2>4, Zenon DEF After
<1>8. \A p \in UNION Cores(b) :
        /\ Passed(b, cl, k, g, c, p) => Passed(b, cl, k, g, low + 1, p)
        /\ Passed(b, cl, k, g, low + 1, p) => Passed(b, cl, k, g, c, p) \/ p = lp.mask
  <2> TAKE p \in UNION Cores(b)
  <2> SUFFICES ASSUME NEW l \in 1 .. Len(cl), NEW h \in 1 .. Len(b[cl[l]].groupMask),
                      In(p, b[cl[l]].groupMask[h])
         PROVE  /\ Passed(b, cl, k, g, c, p) => Passed(b, cl, k, g, low + 1, p)
                /\ Passed(b, cl, k, g, low + 1, p) => Passed(b, cl, k, g, c, p) \/ p = lp.mask
    BY ListedCores
  <2>1. \A m, j, d : Passed(b, cl, m, j, d, p) <=> After(m, j, d, l, h, p[2])
    BY PassedWhen
  <2>2. PICK x \in b[cl[l]].groupMask[h].mask : p = <<b[cl[l]].groupMask[h].group, x>>
    BY DEF In
  <2>3. WellFormed(b[cl[l]])
    BY ListedCores
  <2>4. b[cl[l]].groupMask[h].mask \subseteq 0 .. 63
    BY <2>3, Entries
  <2>5. x \in Nat
    <3>1. 0 .. 63 \subseteq Nat
      OBVIOUS
    <3>2. x \in b[cl[l]].groupMask[h].mask
      BY <2>2
    <3> QED BY <2>4, <3>1, <3>2, Zenon
  <2>6. ASSUME l = k, h = g, x < low + 1, ~(x < c) PROVE p = lp.mask
    <3>1. x >= low
      BY <2>2, <2>5, <2>6 DEF IsNext
    <3>2. x = low
      BY <1>5, <2>5, <2>6, <3>1
    <3> QED BY <2>2, <2>6, <3>2
  <2>7. x < c => x < low + 1
    BY <1>5, <2>5 DEF IsNext
  <2>8. p[2] = x
    BY <2>2
  <2>9. \A d : Passed(b, cl, k, g, d, p) <=> After(k, g, d, l, h, x)
    BY <2>1, <2>8
  <2> QED BY <2>6, <2>7, <2>9 DEF After
<1>9. \A i \in 1 .. n : proc[i].mask \in UNION Cores(b)
  BY <1>1, PassedIsThere DEF Emitted
<1>10. InCores(b, longer, cl)
  <2>1. \A i \in 1 .. n : proc[i].mask # lp.mask
    BY <1>1, <1>7 DEF Emitted
  <2>2. \A i, j \in 1 .. n + 1 : longer[i].mask = longer[j].mask => i = j
    <3>1. \A i, j \in 1 .. n : proc[i].mask = proc[j].mask => i = j
      BY <1>1 DEF Emitted, InCores
    <3> QED BY <1>2, <2>1, <3>1
  <2>3. lp.mask \in Members(b[cl[k]])
    BY <1>6, ListedCores
  <2>4. \A i \in 1 .. n + 1 : /\ longer[i].coreID + 1 \in 1 .. Len(cl)
                              /\ longer[i].mask \in Members(b[cl[longer[i].coreID + 1]])
    <3>1. lp.coreID + 1 = k
      BY <1>3
    <3>2. \A i \in 1 .. n : /\ proc[i].coreID + 1 \in 1 .. Len(cl)
                            /\ proc[i].mask \in Members(b[cl[proc[i].coreID + 1]])
      BY <1>1 DEF Emitted, InCores
    <3>3. \A i \in 1 .. n + 1 : i \in 1 .. n \/ i = n + 1
      OBVIOUS
    <3> QED BY <1>2, <2>3, <3>1, <3>2, <3>3
  <2>5. \A i, j \in 1 .. n + 1 : i < j => longer[i].coreID <= longer[j].coreID
    <3>1. \A i \in 1 .. n : proc[i].coreID <= k - 1
      BY <1>1, <1>2, <1>3 DEF Emitted
    <3>2. \A i, j \in 1 .. n : i < j => proc[i].coreID <= proc[j].coreID
      BY <1>1 DEF Emitted, InCores
    <3> TAKE i, j \in 1 .. n + 1
    <3>3. HAVE i < j
    <3>4. i \in 1 .. n /\ (j \in 1 .. n \/ j = n + 1)
      BY <1>1, <3>3
    <3> QED BY <1>2, <3>1, <3>2, <3>3, <3>4
  <2> QED BY <1>2, <2>2, <2>4, <2>5 DEF InCores
<1>11. \A i \in 1 .. n + 1 : /\ Passed(b, cl, k, g, low + 1, longer[i].mask)
                             /\ longer[i].coreID < k /\ longer[i].pkgID = NoPackage
  <2>1. \A i \in 1 .. n : /\ Passed(b, cl, k, g, low + 1, proc[i].mask)
                          /\ proc[i].coreID < k /\ proc[i].pkgID = NoPackage
    BY <1>1, <1>8, <1>9 DEF Emitted
  <2>2. lp.coreID < k
    BY <1>3
  <2> QED BY <1>2, <1>7, <2>1, <2>2
<1>12. \A p \in UNION Cores(b) :
         Passed(b, cl, k, g, low + 1, p) => \E i \in 1 .. n + 1 : longer[i].mask = p
  BY <1>1, <1>2, <1>8 DEF Emitted
<1> QED BY <1>2, <1>10, <1>11, <1>12 DEF Emitted, longer

\* The end of an entry is the start of the next, in the record or in the next one; the end
\* of the last is the end of the pass, which has been at every processor.
LEMMA EntryEnds ==
  ASSUME NEW b \in Buffers, NEW proc, NEW cl, Enumerates(cl, Places(b, "core")),
         \A i \in 1 .. Len(proc) : proc[i].coreID \in Nat,
         NEW k \in 1 .. Len(cl), NEW g \in 1 .. Len(b[cl[k]].groupMask), NEW c \in Nat,
         Emitted(b, proc, cl, k, g, c),
         NoneLeft(b[cl[k]].groupMask[g].mask, c)
  PROVE  /\ Emitted(b, proc, cl, k, g + 1, 0)
         /\ g = Len(b[cl[k]].groupMask) => Emitted(b, proc, cl, k + 1, 1, 0)
         /\ g = Len(b[cl[k]].groupMask) /\ k = Len(cl) => AllThere(b, proc)
<1>1. k \in Nat /\ Len(cl) \in Nat
  BY DEF Enumerates
<1>2. WellFormed(b[cl[k]])
  BY ListedCores
<1>3. g \in Nat /\ Len(b[cl[k]].groupMask) \in Nat
  BY <1>2, Entries
<1>4. ASSUME NEW p \in UNION Cores(b)
      PROVE  /\ Passed(b, cl, k, g, c, p) <=> Passed(b, cl, k, g + 1, 0, p)
             /\ g = Len(b[cl[k]].groupMask) =>
                  (Passed(b, cl, k, g, c, p) <=> Passed(b, cl, k + 1, 1, 0, p))
             /\ g = Len(b[cl[k]].groupMask) /\ k = Len(cl) => Passed(b, cl, k, g, c, p)
  <2>0. \E l \in 1 .. Len(cl) : \E h \in 1 .. Len(b[cl[l]].groupMask) :
          In(p, b[cl[l]].groupMask[h])
    BY ListedCores
  <2> SUFFICES ASSUME NEW l \in 1 .. Len(cl), NEW h \in 1 .. Len(b[cl[l]].groupMask),
                      In(p, b[cl[l]].groupMask[h])
         PROVE  /\ Passed(b, cl, k, g, c, p) <=> Passed(b, cl, k, g + 1, 0, p)
                /\ g = Len(b[cl[k]].groupMask) =>
                     (Passed(b, cl, k, g, c, p) <=> Passed(b, cl, k + 1, 1, 0, p))
                /\ g = Len(b[cl[k]].groupMask) /\ k = Len(cl) => Passed(b, cl, k, g, c, p)
    BY <2>0, Zenon
  <2>1. \A m, j, d : Passed(b, cl, m, j, d, p) <=> After(m, j, d, l, h, p[2])
    BY PassedWhen
  <2>2. PICK x \in b[cl[l]].groupMask[h].mask : p = <<b[cl[l]].groupMask[h].group, x>>
    BY DEF In
  <2>3. WellFormed(b[cl[l]])
    BY ListedCores
  <2>4. /\ b[cl[l]].groupMask[h].mask \subseteq 0 .. 63 /\ Len(b[cl[l]].groupMask) \in Nat
    BY <2>3, Entries
  <2>5. /\ x \in Nat /\ p[2] = x /\ h \in Nat \ {0} /\ l \in Nat
        /\ h <= Len(b[cl[l]].groupMask) /\ l <= Len(cl)
    <3>1. x \in Nat /\ p[2] = x
      <4>1. 0 .. 63 \subseteq Nat
        OBVIOUS
      <4>2. x \in b[cl[l]].groupMask[h].mask /\ p[2] = x
        BY <2>2
      <4> QED BY <2>4, <4>1, <4>2, Zenon
    <3>2. h \in Nat \ {0} /\ h <= Len(b[cl[l]].groupMask)
      BY <2>4
    <3>3. l \in Nat /\ l <= Len(cl)
      BY <1>1
    <3> QED BY <3>1, <3>2, <3>3
  <2>6. l = k /\ h = g => x < c
    <3>1. l = k /\ h = g => ~(x >= c)
      BY <2>2, Zenon DEF NoneLeft
    <3> QED BY <2>5, <3>1
  <2>7. \A m, j, d : Passed(b, cl, m, j, d, p) <=> After(m, j, d, l, h, x)
    BY <2>1, <2>5
  <2>8. l = k => h <= Len(b[cl[k]].groupMask)
    BY <2>5
  <2>9. /\ After(k, g, c, l, h, x) <=> After(k, g + 1, 0, l, h, x)
        /\ g = Len(b[cl[k]].groupMask) =>
             (After(k, g, c, l, h, x) <=> After(k + 1, 1, 0, l, h, x))
        /\ g = Len(b[cl[k]].groupMask) /\ k = Len(cl) => After(k, g, c, l, h, x)
    BY <1>1, <1>3, <2>5, <2>6, <2>8 DEF After
  <2> QED BY <2>7, <2>9
<1>5. \A i \in 1 .. Len(proc) : proc[i].mask \in UNION Cores(b)
  BY PassedIsThere DEF Emitted
<1>6. \A i \in 1 .. Len(proc) : proc[i].coreID < k + 1
  BY <1>1 DEF Emitted
<1> QED BY <1>4, <1>5, <1>6 DEF Emitted, AllThere

------------------------------------------------------------------------------
(* The steps *)

\* Before the first core nothing was passed.
LEMMA PassStarts ==
  ASSUME NEW b \in Buffers, NEW cl, Enumerates(cl, Places(b, "core"))
  PROVE  Emitted(b, <<>>, cl, 1, 1, 0)
<1>1. Len(<<>>) = 0 /\ 1 .. 0 = {}
  OBVIOUS
<1>2. InCores(b, <<>>, cl)
  BY <1>1 DEF InCores
<1>3. ASSUME NEW p \in UNION Cores(b) PROVE ~Passed(b, cl, 1, 1, 0, p)
  <2>1. p[2] \in 0 .. 63
    BY OneCore
  <2>2. \A l \in 1 .. Len(cl) : ~(l < 1)
    BY DEF Enumerates
  <2>3. \A l \in 1 .. Len(cl) : WellFormed(b[cl[l]])
    BY ListedCores
  <2>4. \A l \in 1 .. Len(cl) : \A h \in 1 .. Len(b[cl[l]].groupMask) : ~(h < 1)
    BY <2>3, Entries
  <2>5. ~(p[2] < 0)
    BY <2>1
  <2> QED BY <2>2, <2>4, <2>5, Zenon DEF Passed, After
<1> QED BY <1>1, <1>2, <1>3 DEF Emitted

\* What is done to each element of a list of processors.
LEMMA EachRenewed ==
  ASSUME NEW proc \in Seq(AnyProcessor), NEW new, new = [i \in DOMAIN proc |-> new[i]],
         \A i \in 1 .. Len(proc) : new[i] \in AnyProcessor
  PROVE  new \in Seq(AnyProcessor) /\ Len(new) = Len(proc)
<1>1. PICK n \in Nat : n = Len(proc) /\ DOMAIN proc = 1 .. n
  OBVIOUS
<1> QED BY <1>1

\* The cores are those of the masks and core IDs.
LEMMA SameCores ==
  ASSUME NEW b, NEW cl, NEW proc, NEW new, Len(new) = Len(proc),
         \A i \in 1 .. Len(proc) : new[i].mask = proc[i].mask /\ new[i].coreID = proc[i].coreID,
         InCores(b, proc, cl), AllThere(b, proc)
  PROVE  InCores(b, new, cl) /\ AllThere(b, new)
BY DEF InCores, AllThere

\* The list of an object is replaced.
LEMMA Replaced ==
  ASSUME NEW c \in AnyConfiguration, NEW proc \in Seq(AnyProcessor)
  PROVE  /\ [c EXCEPT !.proc = proc] \in AnyConfiguration
         /\ [c EXCEPT !.proc = proc].proc = proc
BY DEF AnyConfiguration

\* A nonempty set of natural numbers has a least one.
LEMMA LeastExists ==
  ASSUME NEW S \in SUBSET Nat, S # {}
  PROVE  \E x \in S : \A y \in S : x <= y
<1> DEFINE Below(x) == 0 .. x - 1
           B == {Below(x) : x \in S}
<1>1. B \subseteq FiniteSubsetsOf(Nat)
  <2>1. ASSUME NEW x \in S
        PROVE  Below(x) \in FiniteSubsetsOf(Nat)
    <3>1. 0 \in Int /\ x - 1 \in Int
      OBVIOUS
    <3>2. IsFiniteSet(Below(x)) /\ Below(x) \subseteq Nat
      BY <3>1, FS_Interval
    <3> QED BY <3>2 DEF FiniteSubsetsOf
  <2> QED BY <2>1
<1>2. PICK b \in B : \A u \in B : <<u, b>> \notin StrictSubsetOrdering(Nat)
  <2>1. B # {}
    OBVIOUS
  <2> HIDE DEF B
  <2> QED BY <1>1, <2>1, FS_StrictSubsetOrderingWellFounded, WFMin
<1>3. PICK x \in S : b = Below(x)
  OBVIOUS
<1>4. ASSUME NEW y \in S, ~(x <= y)
      PROVE  FALSE
  <2>1. /\ Below(y) \subseteq Below(x) /\ y \in Below(x) /\ y \notin Below(y)
        /\ Below(x) \subseteq Nat /\ Below(y) \subseteq Nat
    BY <1>4
  <2>2. <<Below(y), Below(x)>> \in StrictSubsetOrdering(Nat)
    <3> HIDE DEF Below
    <3>1. Below(y) # Below(x)
      BY <2>1
    <3> QED BY <2>1, <3>1 DEF StrictSubsetOrdering
  <2>3. Below(y) \in B
    OBVIOUS
  <2> QED BY <1>2, <1>3, <2>2, <2>3
<1> QED BY <1>4

\* Min of a mask is the lowest of its bits.
LEMMA LowestOf ==
  ASSUME NEW set \in SUBSET (0 .. 63), set # {}
  PROVE  Min(set) \in set /\ \A x \in set : Min(set) <= x
<1>1. set \in SUBSET Nat
  OBVIOUS
<1>2. \E x \in set : \A y \in set : x <= y
  BY <1>1, LeastExists
<1> QED BY <1>2 DEF Min

\* Before the first call there is no configuration to describe.
LEMMA InitInv == Init => Inv
<1> SUFFICES ASSUME Init PROVE Inv
  OBVIOUS
<1> USE DEF Init
<1>1. Types
  BY BuffersAssumption DEF Types, NoConfig, AnyConfiguration
<1>2. Affinity
  BY DEF Affinity, NoConfig
<1>3. Phases
  BY DEF Phases, NoConfig
<1> QED BY <1>1, <1>2, <1>3 DEF Inv

\* A new call empties the vector and the maps; the copy is left alone.
LEMMA StepInitialize == Inv /\ initialize => Inv'
<1> SUFFICES ASSUME Inv, initialize PROVE Inv'
  OBVIOUS
<1>1. /\ config' \in AnyConfiguration /\ config'.proc = <<>>
      /\ at' = 1 /\ group' = 1 /\ bit' = 0 /\ pc' = "query"
      /\ UNCHANGED <<buffer, os, copied>>
  <2>1. config \in AnyConfiguration /\ <<>> \in Seq(AnyProcessor)
    BY DEF Inv, Types
  <2> QED BY <2>1, Replaced DEF initialize
<1>2. Types'
  BY <1>1 DEF Inv, Types, os, Machine
<1>3. Affinity'
  BY <1>1 DEF Inv, Affinity, os, Machine
<1>4. Len(buffer) \in Nat /\ 1 \in 1 .. Len(buffer)
  BY Buffer DEF Inv, Types, Kinds
<1>5. Known(at)'
  <2>1. Len(<<>>) = 0 /\ 1 .. 0 = {} /\ <<>> \in Seq(Nat)
    OBVIOUS
  <2>2. Before(buffer, "core", 1) = {} /\ Before(buffer, "package", 1) = {}
    BY Ends DEF Inv, Types, Kinds
  <2>3. Enumerates(<<>>, {}) /\ Numbers(buffer, EmptyMap, <<>>)
    BY <2>1 DEF Enumerates, Numbers, EmptyMap
  <2> QED BY <1>1, <2>2, <2>3 DEF Known, initialize
<1>6. Phases'
  BY <1>1, <1>4, <1>5 DEF Inv, Phases, initialize
<1> QED BY <1>2, <1>3, <1>6 DEF Inv

\* A failed query leaves an empty vector.
LEMMA StepQueryFails == Inv /\ QueryFails => Inv'
<1> SUFFICES ASSUME Inv, QueryFails PROVE Inv'
  OBVIOUS
<1>1. /\ pc = "query" /\ pc' = "idle" /\ config.proc = <<>>
      /\ UNCHANGED <<buffer, os, maps, loops, config, copied>>
  BY DEF Inv, Phases, QueryFails
<1>2. Types'
  BY <1>1 DEF Inv, Types, os, loops, Machine
<1>3. Affinity'
  BY <1>1 DEF Inv, Affinity, os, Machine, Usable
<1>4. Phases'
  BY <1>1 DEF Inv, Phases
<1> QED BY <1>2, <1>3, <1>4 DEF Inv

\* What the process may run on is known before any processor is listed.
LEMMA StepQuery == Inv /\ Query => Inv'
<1> SUFFICES ASSUME Inv, Query PROVE Inv'
  OBVIOUS
<1>1. /\ pc = "query" /\ pc' = "scan" /\ config.proc = <<>> /\ at = 1
      /\ UNCHANGED <<buffer, maps, loops, config, copied>>
  BY DEF Inv, Phases, Query
<1> PICK set \in SUBSET Machine \ {{}} : \E here, home \in set :
       /\ runnable' = set /\ primary' = here[1]
       /\ \/ affinity' = {p[2] : p \in {q \in set : q[1] = home[1]}}
          \/ GroupsOf(set) # {home[1]} /\ affinity' = {}
       /\ groups' \in {GroupsOf(set), GroupsOf(set) \cup {0}, {0}, {}}
  BY DEF Query
<1> PICK here, home \in set :
       /\ runnable' = set /\ primary' = here[1]
       /\ \/ affinity' = {p[2] : p \in {q \in set : q[1] = home[1]}}
          \/ GroupsOf(set) # {home[1]} /\ affinity' = {}
       /\ groups' \in {GroupsOf(set), GroupsOf(set) \cup {0}, {0}, {}}
  OBVIOUS
<1>3. /\ set \subseteq Machine /\ \A p \in set : p[1] \in Nat /\ p[2] \in 0 .. 63
  <2>1. set \subseteq Machine
    OBVIOUS
  <2>2. \A p \in Machine : p \in Nat \X (0 .. 63)
    BY OneCore DEF Inv, Types, Machine
  <2>3. \A p \in Nat \X (0 .. 63) : p[1] \in Nat /\ p[2] \in 0 .. 63
    OBVIOUS
  <2> QED BY <2>1, <2>2, <2>3, Zenon
<1>4. affinity' \subseteq 0 .. 63 /\ groups' \subseteq Nat
  <2>1. GroupsOf(set) \subseteq Nat
    BY <1>3 DEF GroupsOf
  <2>2. {p[2] : p \in {q \in set : q[1] = home[1]}} \subseteq 0 .. 63
    BY <1>3
  <2> QED BY <2>1, <2>2
<1>5. Types'
  <2>1. Machine' = Machine
    BY <1>1 DEF Machine
  <2> QED BY <1>1, <1>3, <1>4, <2>1 DEF Inv, Types, loops
<1>6. Affinity'
  <2> SUFFICES ASSUME GroupsOf(set) = {here[1]}
               PROVE  affinity' = {p[2] : p \in set}
    BY <1>1 DEF Affinity
  <2>1. \A p \in set : p[1] \in {here[1]}
    <3>1. \A p \in set : p[1] \in GroupsOf(set)
      BY DEF GroupsOf
    <3> QED BY <3>1
  <2>2. {q \in set : q[1] = home[1]} = set /\ GroupsOf(set) = {home[1]}
    BY <2>1
  <2> QED BY <2>2
<1>7. Phases'
  BY <1>1 DEF Inv, Phases, Known, maps, loops
<1> QED BY <1>5, <1>6, <1>7 DEF Inv

\* A record is of one kind or of none; its place joins the list of its kind.
LEMMA ScanKnows ==
  ASSUME Inv, Scan, NEW n, n = at
  PROVE  Known(n + 1)' /\ n \in 1 .. Len(buffer) /\ UNCHANGED buffer
<1>1. n \in 1 .. Len(buffer) /\ Known(n) /\ UNCHANGED buffer
  BY DEF Inv, Phases, Scan, Known
<1> USE DEF Kinds
<1>2. buffer \in Buffers /\ n \in Nat /\ DOMAIN buffer = 1 .. Len(buffer)
  BY Buffer DEF Inv, Types
<1>3. CASE buffer[n].relationship = "core"
  <2>1. n \in Places(buffer, "core") /\ n \notin Places(buffer, "package")
    BY <1>1, <1>2, <1>3 DEF Places
  <2>2. /\ coreInfoOffset' = Append(coreInfoOffset, n)
        /\ coreMap' = Numbered(coreMap, Key(buffer[n])) /\ UNCHANGED <<pkgInfoOffset, packageMap>>
    BY <1>3 DEF Scan, maps
  <2>3. /\ Enumerates(coreInfoOffset', Before(buffer, "core", n + 1))
        /\ Numbers(buffer, coreMap', coreInfoOffset')
    BY <1>1, <1>2, <2>1, <2>2, NextRecord DEF Known
  <2>4. Before(buffer, "package", n + 1) = Before(buffer, "package", n)
    BY <1>2, <2>1, OtherRecord
  <2> QED BY <1>1, <2>2, <2>3, <2>4 DEF Known
<1>4. CASE buffer[n].relationship = "package"
  <2>1. n \in Places(buffer, "package") /\ n \notin Places(buffer, "core")
    BY <1>1, <1>2, <1>4 DEF Places
  <2>2. /\ pkgInfoOffset' = Append(pkgInfoOffset, n)
        /\ packageMap' = Numbered(packageMap, Key(buffer[n]))
        /\ UNCHANGED <<coreInfoOffset, coreMap>>
    BY <1>4 DEF Scan, maps
  <2>3. /\ Enumerates(pkgInfoOffset', Before(buffer, "package", n + 1))
        /\ Numbers(buffer, packageMap', pkgInfoOffset')
    BY <1>1, <1>2, <2>1, <2>2, NextRecord DEF Known
  <2>4. Before(buffer, "core", n + 1) = Before(buffer, "core", n)
    BY <1>2, <2>1, OtherRecord
  <2> QED BY <1>1, <2>2, <2>3, <2>4 DEF Known
<1>5. CASE buffer[n].relationship \notin {"core", "package"}
  <2>1. n \notin Places(buffer, "package") /\ n \notin Places(buffer, "core")
    BY <1>5 DEF Places
  <2>2. UNCHANGED maps
    BY <1>5 DEF Scan
  <2>3. /\ Before(buffer, "package", n + 1) = Before(buffer, "package", n)
        /\ Before(buffer, "core", n + 1) = Before(buffer, "core", n)
    BY <1>2, <2>1, OtherRecord
  <2> QED BY <1>1, <2>2, <2>3 DEF Known, maps
<1> QED BY <1>1, <1>3, <1>4, <1>5

\* Each record is added to the list and the map of its kind, or to none.
LEMMA StepScan == Inv /\ Scan => Inv'
<1> SUFFICES ASSUME Inv, Scan PROVE Inv'
  OBVIOUS
<1> PICK n : n = at
  OBVIOUS
<1>1. /\ pc = "scan" /\ config.proc = <<>> /\ group = 1 /\ bit = 0
      /\ UNCHANGED <<buffer, os, group, bit, config, copied>>
  BY DEF Inv, Phases, Scan
<1>2. buffer \in Buffers /\ Len(buffer) \in Nat /\ n \in 1 .. Len(buffer)
  BY ScanKnows, Buffer DEF Inv, Types
<1>3. \/ n < Len(buffer) /\ at' = n + 1 /\ pc' = "scan"
      \/ n = Len(buffer) /\ at' = 1 /\ pc' = "emit"
  BY <1>1, <1>2 DEF Scan, Advance
<1>4. Types'
  BY <1>1, <1>2, <1>3 DEF Inv, Types, os, Machine
<1>5. Affinity'
  BY <1>1 DEF Inv, Affinity, os, Machine
<1>6. CASE pc' = "scan"
  <2>1. Known(at)' /\ at' \in 1 .. Len(buffer)
    BY <1>2, <1>3, <1>6, ScanKnows DEF Known
  <2>2. Phases'
    BY <1>1, <1>6, <2>1 DEF Inv, Phases
  <2> QED BY <1>4, <1>5, <2>2 DEF Inv
<1>7. CASE pc' = "emit"
  <2>1. at' = 1 /\ n + 1 = Len(buffer') + 1
    BY <1>1, <1>3, <1>7
  <2>2. Known(Len(buffer) + 1)'
    BY <1>1, <2>1, ScanKnows DEF Known
  <2>3. Enumerates(coreInfoOffset', Places(buffer, "core"))
    BY <1>1, <1>2, <2>2, Ends DEF Known, Kinds
  <2>4. 1 \in 1 .. Len(coreInfoOffset')
    <3>1. Places(buffer, "core") # {}
      BY <1>2, Buffer
    <3> QED BY <2>3, <3>1 DEF Enumerates
  <2>5. 1 \in 1 .. Len(buffer[coreInfoOffset'[1]].groupMask)
    <3>1. WellFormed(buffer[coreInfoOffset'[1]])
      BY <1>2, <2>3, <2>4, ListedCores
    <3> QED BY <3>1, Entries
  <2>6. Emitted(buffer, <<>>, coreInfoOffset', 1, 1, 0)
    BY <1>2, <2>3, PassStarts
  <2>7. Phases'
    BY <1>1, <1>7, <2>1, <2>2, <2>4, <2>5, <2>6 DEF Inv, Phases, core
  <2> QED BY <1>4, <1>5, <2>7 DEF Inv
<1> QED BY <1>3, <1>6, <1>7

\* In the pass over the cores.
LEMMA AtEntry ==
  ASSUME Inv, pc = "emit"
  PROVE  /\ buffer \in Buffers /\ Enumerates(coreInfoOffset, Places(buffer, "core"))
         /\ at \in 1 .. Len(coreInfoOffset) /\ group \in 1 .. Len(core.groupMask)
         /\ bit \in Nat /\ at \in Nat /\ group \in Nat
         /\ core = buffer[coreInfoOffset[at]] /\ entry = core.groupMask[group]
         /\ coreMap[Key(core)] = at - 1 /\ at - 1 \in Nat
         /\ entry.group \in 0 .. NoPackage /\ entry.group \in Nat /\ entry.mask \subseteq 0 .. 63
         /\ Emitted(buffer, config.proc, coreInfoOffset, at, group, bit)
         /\ config.proc \in Seq(AnyProcessor) /\ config \in AnyConfiguration
         /\ \A i \in 1 .. Len(config.proc) : config.proc[i].coreID \in Nat
<1>1. buffer \in Buffers /\ bit \in Nat /\ at \in Nat /\ group \in Nat /\ config \in AnyConfiguration
  BY DEF Inv, Types
<1>2. /\ Known(Len(buffer) + 1) /\ at \in 1 .. Len(coreInfoOffset)
      /\ group \in 1 .. Len(core.groupMask)
      /\ Emitted(buffer, config.proc, coreInfoOffset, at, group, bit)
  BY DEF Inv, Phases
<1>3. Enumerates(coreInfoOffset, Places(buffer, "core")) /\ Numbers(buffer, coreMap, coreInfoOffset)
  BY <1>1, <1>2, Ends DEF Known, Kinds
<1>4. coreMap[Key(core)] = at - 1 /\ at - 1 \in Nat
  BY <1>1, <1>2, <1>3, SMTT(20) DEF Numbers, core
<1>5. /\ entry.group \in 0 .. NoPackage /\ entry.group \in Nat
      /\ entry.mask \subseteq 0 .. 63
  <2>1. WellFormed(core)
    BY <1>1, <1>2, <1>3, ListedCores DEF core
  <2> QED BY <1>2, <2>1, Entries DEF entry
<1>6. config.proc \in Seq(AnyProcessor)
  BY <1>1 DEF AnyConfiguration
<1>7. \A i \in 1 .. Len(config.proc) : config.proc[i].coreID \in Nat
  <2>1. \A lp \in AnyProcessor : lp.coreID \in Nat
    BY DEF AnyProcessor
  <2> QED BY <1>6, <2>1
<1> QED BY <1>1, <1>2, <1>3, <1>4, <1>5, <1>6, <1>7 DEF core, entry

\* The next bit of the entry becomes the next processor.
LEMMA StepEmit == Inv /\ Emit => Inv'
<1> SUFFICES ASSUME Inv, Emit PROVE Inv'
  OBVIOUS
<1>1. /\ pc = "emit" /\ pc' = "emit" /\ BitsLeft # {}
      /\ UNCHANGED <<buffer, os, maps, at, group, copied>>
  BY DEF Emit
<1> DEFINE low == Min(BitsLeft)
           lp == [globalID |-> Undefined, coreID |-> coreMap[Key(core)], pkgID |-> NoPackage,
                  usable |-> Usable(<<entry.group, low>>), mask |-> <<entry.group, low>>]
<1>2. config' = [config EXCEPT !.proc = Append(@, lp)] /\ bit' = low + 1
  BY DEF Emit
<1>3. IsNext(entry.mask, bit, low) /\ low \in 0 .. 63
  <2>1. BitsLeft \subseteq 0 .. 63
    BY <1>1, AtEntry DEF BitsLeft
  <2>2. low \in BitsLeft /\ \A x \in BitsLeft : low <= x
    BY <1>1, <2>1, LowestOf
  <2> HIDE DEF low
  <2>3. IsNext(entry.mask, bit, low)
    BY <1>1, <2>1, <2>2, AtEntry DEF IsNext, BitsLeft
  <2> QED BY <2>1, <2>2, <2>3
<1> HIDE DEF low
<1>4. lp \in AnyProcessor /\ lp.mask = <<entry.group, low>> /\ lp.coreID = at - 1
      /\ lp.pkgID = NoPackage /\ lp.usable = Usable(lp.mask)
  BY <1>1, <1>3, AtEntry, BuffersAssumption DEF AnyProcessor, Usable
<1> HIDE DEF lp
<1>5. Append(config.proc, lp) \in Seq(AnyProcessor)
  BY <1>1, <1>4, AtEntry
<1>6. config' \in AnyConfiguration /\ config'.proc = Append(config.proc, lp)
  <2>1. config' = [config EXCEPT !.proc = Append(config.proc, lp)]
    BY <1>1, <1>2, AtEntry DEF AnyConfiguration
  <2> QED BY <1>1, <1>5, <2>1, AtEntry, Replaced
<1>7. Types'
  <2>1. bit' \in 0 .. 64
    <3>1. bit' = low + 1
      BY <1>2
    <3> QED BY <1>3, <3>1
  <2> QED BY <1>1, <1>6, <2>1 DEF Inv, Types, os, Machine
<1>8. Affinity'
  <2>1. \A i \in 1 .. Len(config.proc) : config.proc[i].usable = Usable(config.proc[i].mask)
    BY DEF Inv, Affinity
  <2>2. PICK n \in Nat : n = Len(config.proc)
    BY <1>1, AtEntry
  <2>3. /\ Len(config'.proc) = n + 1 /\ config'.proc[n + 1] = lp
        /\ \A i \in 1 .. n : config'.proc[i] = config.proc[i]
    BY <1>1, <1>4, <1>6, <2>2, AtEntry
  <2>4. \A i \in 1 .. n + 1 : i \in 1 .. n \/ i = n + 1
    OBVIOUS
  <2>5. \A i \in 1 .. n + 1 : config'.proc[i].usable = Usable(config'.proc[i].mask)
    BY <1>4, <2>1, <2>2, <2>3, <2>4
  <2>6. \A i \in 1 .. Len(config'.proc) :
          config'.proc[i].usable = Usable(config'.proc[i].mask)
    BY <2>3, <2>5
  <2> QED BY <1>1, <2>6 DEF Inv, Affinity, Usable, os
<1>9. Emitted(buffer, config'.proc, coreInfoOffset, at, group, low + 1)
  BY <1>1, <1>3, <1>4, <1>6, AtEntry, EmitsNext
<1>10. Phases'
  BY <1>1, <1>2, <1>9 DEF Inv, Phases, Known, maps, core
<1> QED BY <1>7, <1>8, <1>10 DEF Inv

\* At the end of an entry all its bits were passed; at the end of the cores, all of Machine.
LEMMA StepNextEntry == Inv /\ NextEntry => Inv'
<1> SUFFICES ASSUME Inv, NextEntry PROVE Inv'
  OBVIOUS
<1>1. /\ pc = "emit" /\ BitsLeft = {} /\ bit' = 0
      /\ UNCHANGED <<buffer, os, maps, config, copied>>
  BY DEF NextEntry
<1>2. NoneLeft(entry.mask, bit)
  BY <1>1 DEF NoneLeft, BitsLeft
<1>3. PICK k, g : k = at /\ g = group
  OBVIOUS
<1>4. /\ buffer \in Buffers /\ Enumerates(coreInfoOffset, Places(buffer, "core"))
      /\ k \in 1 .. Len(coreInfoOffset) /\ g \in 1 .. Len(buffer[coreInfoOffset[k]].groupMask)
      /\ Len(coreInfoOffset) \in Nat /\ k \in Nat /\ g \in Nat
      /\ core = buffer[coreInfoOffset[k]]
  <2>1. /\ buffer \in Buffers /\ Enumerates(coreInfoOffset, Places(buffer, "core"))
        /\ k \in 1 .. Len(coreInfoOffset) /\ g \in 1 .. Len(core.groupMask)
        /\ k \in Nat /\ g \in Nat
        /\ core = buffer[coreInfoOffset[k]]
    BY <1>1, <1>3, AtEntry
  <2>2. Len(coreInfoOffset) \in Nat
    BY <2>1 DEF Enumerates
  <2> QED BY <2>1, <2>2, Zenon
<1>5. /\ Emitted(buffer, config.proc, coreInfoOffset, k, g + 1, 0)
      /\ g = Len(core.groupMask) => Emitted(buffer, config.proc, coreInfoOffset, k + 1, 1, 0)
      /\ g = Len(core.groupMask) /\ k = Len(coreInfoOffset) => AllThere(buffer, config.proc)
  BY <1>1, <1>2, <1>3, <1>4, AtEntry, EntryEnds
<1>6. Len(core.groupMask) \in Nat
  BY <1>4, ListedCores, Entries
<1>7. \/ g < Len(core.groupMask) /\ at' = k /\ group' = g + 1 /\ pc' = "emit"
      \/ /\ g = Len(core.groupMask) /\ k < Len(coreInfoOffset)
         /\ at' = k + 1 /\ group' = 1 /\ pc' = "emit"
      \/ /\ g = Len(core.groupMask) /\ k = Len(coreInfoOffset)
         /\ at' = 1 /\ group' = 1 /\ pc' = "packages"
  <2>1. \/ g < Len(core.groupMask) /\ group' = g + 1 /\ UNCHANGED <<at, pc>>
        \/ ~(g < Len(core.groupMask)) /\ group' = 1 /\ Advance(coreInfoOffset, "packages")
    BY <1>3 DEF NextEntry
  <2>2. ~(g < Len(core.groupMask)) => g = Len(core.groupMask)
    BY <1>4, <1>6
  <2>3. Advance(coreInfoOffset, "packages") =>
           \/ k < Len(coreInfoOffset) /\ at' = k + 1 /\ pc' = pc
           \/ k = Len(coreInfoOffset) /\ at' = 1 /\ pc' = "packages"
    BY <1>3, <1>4 DEF Advance
  <2> QED BY <1>1, <1>3, <2>1, <2>2, <2>3
<1>8. Types'
  <2>1. at' \in Nat \ {0} /\ group' \in Nat \ {0} /\ pc' \in {"emit", "packages"}
    BY <1>4, <1>7
  <2> QED BY <1>1, <2>1 DEF Inv, Types, os, Machine
<1>9. Affinity'
  BY <1>1 DEF Inv, Affinity, Usable, os, Machine
<1>10. Known(Len(buffer) + 1)'
  BY <1>1 DEF Inv, Phases, Known, maps
<1>11. CASE g < Len(core.groupMask) /\ at' = k /\ group' = g + 1 /\ pc' = "emit"
  <2>1. g + 1 \in 1 .. Len(buffer[coreInfoOffset[k]].groupMask)
    BY <1>4, <1>6, <1>11
  <2>2. Phases'
    BY <1>1, <1>4, <1>5, <1>10, <1>11, <2>1 DEF Inv, Phases, maps, core
  <2> QED BY <1>8, <1>9, <2>2 DEF Inv
<1>12. CASE /\ g = Len(core.groupMask) /\ k < Len(coreInfoOffset)
            /\ at' = k + 1 /\ group' = 1 /\ pc' = "emit"
  <2>1. k + 1 \in 1 .. Len(coreInfoOffset)
    BY <1>4, <1>12
  <2>2. WellFormed(buffer[coreInfoOffset[k + 1]])
    BY <1>4, <2>1, ListedCores
  <2>3. 1 \in 1 .. Len(buffer[coreInfoOffset[k + 1]].groupMask)
    BY <2>2, Entries
  <2>4. Phases'
    BY <1>1, <1>5, <1>10, <1>12, <2>1, <2>3 DEF Inv, Phases, maps, core
  <2> QED BY <1>8, <1>9, <2>4 DEF Inv
<1>13. CASE /\ g = Len(core.groupMask) /\ k = Len(coreInfoOffset)
            /\ at' = 1 /\ group' = 1 /\ pc' = "packages"
  <2>1. InCores(buffer, config.proc, coreInfoOffset) /\ AllThere(buffer, config.proc)
    BY <1>5, <1>13 DEF Emitted
  <2>2. Enumerates(pkgInfoOffset, Places(buffer, "package"))
    BY <1>1, <1>4, Ends DEF Inv, Phases, Known, Kinds
  <2>3. 1 \in 1 .. Len(pkgInfoOffset)
    <3>1. Places(buffer, "package") # {}
      BY <1>4, Buffer
    <3> QED BY <2>2, <3>1 DEF Enumerates
  <2>4. InPackages(buffer, config.proc, pkgInfoOffset, 1)
    <3>1. \A i \in 1 .. Len(config.proc) : config.proc[i].pkgID = NoPackage
      BY <1>5 DEF Emitted
    <3>2. \A l \in 1 .. Len(pkgInfoOffset) : ~(l < 1)
      BY <2>2 DEF Enumerates
    <3> QED BY <3>1, <3>2 DEF InPackages
  <2>5. Phases'
    BY <1>1, <1>10, <1>13, <2>1, <2>3, <2>4 DEF Inv, Phases, maps
  <2> QED BY <1>8, <1>9, <2>5 DEF Inv
<1> QED BY <1>7, <1>11, <1>12, <1>13

\* The pass over the packages and what follows it.
LEMMA AfterCores ==
  ASSUME Inv, pc \in {"packages", "finish"}
  PROVE  /\ buffer \in Buffers /\ config \in AnyConfiguration /\ config.proc \in Seq(AnyProcessor)
         /\ Enumerates(coreInfoOffset, Places(buffer, "core"))
         /\ Enumerates(pkgInfoOffset, Places(buffer, "package"))
         /\ Cardinality(DOMAIN coreMap) = Len(coreInfoOffset)
         /\ Cardinality(DOMAIN packageMap) = Len(pkgInfoOffset)
         /\ Numbers(buffer, packageMap, pkgInfoOffset)
         /\ InCores(buffer, config.proc, coreInfoOffset) /\ AllThere(buffer, config.proc)
         /\ \A i \in 1 .. Len(config.proc) :
              config.proc[i].mask \in UNION Cores(buffer) /\ config.proc[i] \in AnyProcessor
<1>1. buffer \in Buffers /\ config \in AnyConfiguration /\ config.proc \in Seq(AnyProcessor)
  BY DEF Inv, Types, AnyConfiguration
<1>2. /\ Known(Len(buffer) + 1) /\ InCores(buffer, config.proc, coreInfoOffset)
      /\ AllThere(buffer, config.proc)
  BY DEF Inv, Phases
<1>3. /\ Enumerates(coreInfoOffset, Places(buffer, "core"))
      /\ Enumerates(pkgInfoOffset, Places(buffer, "package"))
      /\ Numbers(buffer, coreMap, coreInfoOffset) /\ Numbers(buffer, packageMap, pkgInfoOffset)
  BY <1>1, <1>2, Ends DEF Known, Kinds
<1>4. /\ Cardinality(DOMAIN coreMap) = Len(coreInfoOffset)
      /\ Cardinality(DOMAIN packageMap) = Len(pkgInfoOffset)
  BY <1>1, <1>3, MapCounts DEF Kinds
<1>5. \A i \in 1 .. Len(config.proc) : config.proc[i].mask \in UNION Cores(buffer)
  <2>1. \A k \in 1 .. Len(coreInfoOffset) : Members(buffer[coreInfoOffset[k]]) \in Cores(buffer)
    BY <1>3 DEF Enumerates, Cores
  <2> QED BY <1>2, <2>1 DEF InCores
<1> QED BY <1>1, <1>2, <1>3, <1>4, <1>5

\* A processor matches a record of a package exactly if it is one of the package's.
LEMMA MatchesMembers ==
  ASSUME NEW r, WellFormed(r), NEW lp \in AnyProcessor
  PROVE  Matches(r, lp) <=> lp.mask \in Members(r)
<1>1. lp.mask = <<lp.mask[1], lp.mask[2]>>
  BY DEF AnyProcessor
<1>2. \A m : In(lp.mask, m) <=> lp.mask[1] = m.group /\ lp.mask[2] \in m.mask
  BY <1>1 DEF In
<1>3. Range(r.groupMask) = {r.groupMask[g] : g \in 1 .. Len(r.groupMask)}
  BY DEF WellFormed, Range
<1> QED BY <1>2, <1>3, MembersOf DEF Matches

\* The processors of the next package get its number, and no others.
LEMMA StepAssignPackages == Inv /\ AssignPackages => Inv'
<1> SUFFICES ASSUME Inv, AssignPackages PROVE Inv'
  OBVIOUS
<1>1. /\ pc = "packages" /\ UNCHANGED <<buffer, os, maps, group, bit, copied>>
  BY DEF AssignPackages
<1>2. PICK n : n = at
  OBVIOUS
<1> DEFINE r == buffer[pkgInfoOffset[n]]
           proc == config.proc
           new == [i \in DOMAIN proc |-> IF Matches(r, proc[i])
                     THEN [proc[i] EXCEPT !.pkgID = packageMap[Key(r)]] ELSE proc[i]]
<1>3. /\ n \in 1 .. Len(pkgInfoOffset) /\ InPackages(buffer, proc, pkgInfoOffset, n)
      /\ Len(pkgInfoOffset) \in Nat /\ n \in Nat /\ pkgInfoOffset[n] \in Places(buffer, "package")
  BY <1>1, <1>2, AfterCores DEF Inv, Phases, Enumerates
<1>4. WellFormed(r) /\ packageMap[Key(r)] = n - 1 /\ n - 1 \in Nat
  <2>1. WellFormed(r)
    BY <1>1, <1>3, AfterCores, Buffer DEF Kinds
  <2>2. packageMap[Key(r)] = n - 1
    BY <1>1, <1>3, AfterCores DEF Numbers
  <2> QED BY <1>3, <2>1, <2>2
<1>5. config' = [config EXCEPT !.proc = new]
  BY <1>1, <1>2, AfterCores DEF AssignPackages, AnyConfiguration
<1>6. DOMAIN proc = 1 .. Len(proc) /\ Len(proc) \in Nat
  BY <1>1, AfterCores
<1>7. \A i \in 1 .. Len(proc) :
        /\ new[i] = IF proc[i].mask \in Members(r) THEN [proc[i] EXCEPT !.pkgID = n - 1]
                    ELSE proc[i]
        /\ new[i] \in AnyProcessor
        /\ new[i].mask = proc[i].mask /\ new[i].coreID = proc[i].coreID
        /\ new[i].usable = proc[i].usable
        /\ new[i].pkgID = IF proc[i].mask \in Members(r) THEN n - 1 ELSE proc[i].pkgID
  <2> TAKE i \in 1 .. Len(proc)
  <2>1. proc[i] \in AnyProcessor
    BY <1>1, AfterCores
  <2>2. new[i] = IF proc[i].mask \in Members(r) THEN [proc[i] EXCEPT !.pkgID = n - 1]
                 ELSE proc[i]
    BY <1>4, <1>6, <2>1, MatchesMembers
  <2> HIDE DEF new
  <2> QED BY <1>4, <2>1, <2>2 DEF AnyProcessor
<1>8. new = [i \in DOMAIN proc |-> new[i]]
  OBVIOUS
<1> HIDE DEF new
<1>9. new \in Seq(AnyProcessor) /\ Len(new) = Len(proc)
  BY <1>1, <1>7, <1>8, AfterCores, EachRenewed
<1>10. config' \in AnyConfiguration /\ config'.proc = new
  BY <1>1, <1>5, <1>9, AfterCores, Replaced
<1>11. InCores(buffer, new, coreInfoOffset) /\ AllThere(buffer, new)
  BY <1>1, <1>7, <1>9, AfterCores, SameCores
<1>12. InPackages(buffer, new, pkgInfoOffset, n + 1)
  <2> SUFFICES ASSUME NEW i \in 1 .. Len(new), NEW k \in 1 .. Len(pkgInfoOffset),
                      new[i].mask \in Members(buffer[pkgInfoOffset[k]])
               PROVE  new[i].pkgID = IF k < n + 1 THEN k - 1 ELSE NoPackage
    BY DEF InPackages
  <2>1. proc[i].mask \in Members(buffer[pkgInfoOffset[k]]) /\ proc[i].mask \in UNION Cores(buffer)
    BY <1>1, <1>7, <1>9, AfterCores
  <2>2. proc[i].pkgID = IF k < n THEN k - 1 ELSE NoPackage
    BY <1>3, <1>9, <2>1 DEF InPackages
  <2>3. proc[i].mask \in Members(r) => k = n
    <3>1. HAVE proc[i].mask \in Members(r)
    <3>2. pkgInfoOffset[k] \in Places(buffer, "package")
      BY <1>1, AfterCores DEF Enumerates
    <3>3. pkgInfoOffset[k] = pkgInfoOffset[n]
      BY <1>1, <1>3, <2>1, <3>1, <3>2, AfterCores, OneCore DEF Kinds
    <3> QED BY <1>1, <1>3, <3>3, AfterCores DEF Enumerates
  <2>4. new[i].pkgID = IF k = n THEN n - 1 ELSE proc[i].pkgID
    BY <1>7, <1>9, <2>1, <2>3
  <2>5. k < n + 1 <=> k < n \/ k = n
    BY <1>3
  <2> QED BY <2>2, <2>4, <2>5
<1>13. \/ n < Len(pkgInfoOffset) /\ at' = n + 1 /\ pc' = "packages"
       \/ n = Len(pkgInfoOffset) /\ at' = 1 /\ pc' = "finish"
  BY <1>1, <1>2, <1>3 DEF AssignPackages, Advance
<1>14. Types'
  <2>1. at' \in Nat \ {0}
    BY <1>3, <1>13
  <2> QED BY <1>1, <1>10, <1>13, <2>1 DEF Inv, Types, os, Machine
<1>15. Affinity'
  <2>1. \A i \in 1 .. Len(new) : new[i].usable = Usable(new[i].mask)
    BY <1>7, <1>9 DEF Inv, Affinity
  <2> QED BY <1>1, <1>10, <2>1 DEF Inv, Affinity, Usable, os, Machine
<1>16. Known(Len(buffer) + 1)'
  BY <1>1 DEF Inv, Phases, Known, maps
<1>17. Phases'
  <2>1. CASE n < Len(pkgInfoOffset) /\ at' = n + 1 /\ pc' = "packages"
    <3>1. n + 1 \in 1 .. Len(pkgInfoOffset)
      BY <1>3, <2>1
    <3> QED BY <1>1, <1>10, <1>11, <1>12, <1>16, <2>1, <3>1 DEF Inv, Phases, maps
  <2>2. CASE n = Len(pkgInfoOffset) /\ at' = 1 /\ pc' = "finish"
    BY <1>1, <1>10, <1>11, <1>12, <1>16, <2>2 DEF Inv, Phases, maps
  <2> QED BY <1>13, <2>1, <2>2
<1> QED BY <1>14, <1>15, <1>17 DEF Inv

\* The last pass makes the object describe the machine.
LEMMA StepFinish == Inv /\ Finish => Inv'
<1> SUFFICES ASSUME Inv, Finish PROVE Inv'
  OBVIOUS
<1>1. /\ pc = "finish" /\ pc' = "idle" /\ UNCHANGED <<buffer, os, maps, loops, copied>>
  BY DEF Finish
<1> DEFINE proc == config.proc
           new == [i \in DOMAIN proc |-> [proc[i] EXCEPT !.globalID = i - 1]]
<1>2. config' = [proc |-> new, threads |-> Len(proc), cores |-> Len(coreInfoOffset),
                 packages |-> Len(pkgInfoOffset)]
  BY <1>1, AfterCores DEF Finish
<1>3. DOMAIN proc = 1 .. Len(proc) /\ Len(proc) \in Nat
      /\ Len(coreInfoOffset) \in Nat /\ Len(pkgInfoOffset) \in Nat
  BY <1>1, AfterCores DEF Enumerates
<1>4. \A i \in 1 .. Len(proc) :
        /\ new[i] \in AnyProcessor /\ new[i].globalID = i - 1
        /\ new[i].mask = proc[i].mask /\ new[i].coreID = proc[i].coreID
        /\ new[i].usable = proc[i].usable /\ new[i].pkgID = proc[i].pkgID
  <2> TAKE i \in 1 .. Len(proc)
  <2>1. proc[i] \in AnyProcessor
    BY <1>1, AfterCores
  <2>2. new[i] = [proc[i] EXCEPT !.globalID = i - 1] /\ i - 1 \in Nat
    BY <1>3
  <2> HIDE DEF new
  <2> QED BY <2>1, <2>2 DEF AnyProcessor
<1>5. new = [i \in DOMAIN proc |-> new[i]]
  OBVIOUS
<1> HIDE DEF new
<1>6. new \in Seq(AnyProcessor) /\ Len(new) = Len(proc)
  BY <1>1, <1>4, <1>5, AfterCores, EachRenewed
<1>7. InCores(buffer, new, coreInfoOffset) /\ AllThere(buffer, new)
  BY <1>1, <1>4, <1>6, AfterCores, SameCores
<1>8. InPackages(buffer, new, pkgInfoOffset, Len(pkgInfoOffset) + 1)
  BY <1>1, <1>4, <1>6 DEF Inv, Phases, InPackages
<1>9. Types'
  <2>1. config' \in AnyConfiguration
    BY <1>2, <1>3, <1>6 DEF AnyConfiguration
  <2> QED BY <1>1, <2>1 DEF Inv, Types, os, loops, Machine
<1>10. Affinity'
  <2>1. \A i \in 1 .. Len(new) : new[i].usable = Usable(new[i].mask)
    BY <1>4, <1>6 DEF Inv, Affinity
  <2>2. \A i \in 1 .. Len(config'.proc) :
          config'.proc[i].usable = Usable(config'.proc[i].mask)
    BY <1>2, <2>1
  <2> QED BY <1>1, <2>2 DEF Inv, Affinity, Usable, os
<1>11. Phases'
  <2>1. Describes(buffer, config', coreInfoOffset, pkgInfoOffset)
    BY <1>1, <1>2, <1>4, <1>6, <1>7, <1>8, AfterCores DEF Describes
  <2>2. coreInfoOffset \in Seq(Nat) /\ pkgInfoOffset \in Seq(Nat)
    BY <1>1, AfterCores DEF Enumerates
  <2>3. Complete(buffer, config')
    BY <2>1, <2>2 DEF Complete
  <2> QED BY <1>1, <2>3 DEF Inv, Phases
<1> QED BY <1>9, <1>10, <1>11 DEF Inv

\* An empty vector describes nothing.
LEMMA StepDestroy == Inv /\ destroy => Inv'
<1> SUFFICES ASSUME Inv, destroy PROVE Inv'
  OBVIOUS
<1>1. /\ pc = "idle" /\ config' \in AnyConfiguration /\ config'.proc = <<>>
      /\ UNCHANGED <<buffer, os, loops, copied, pc>>
  <2>1. config \in AnyConfiguration /\ <<>> \in Seq(AnyProcessor)
    BY DEF Inv, Types
  <2> QED BY <2>1, Replaced DEF destroy
<1>2. Types'
  BY <1>1 DEF Inv, Types, os, loops, Machine
<1>3. Affinity'
  BY <1>1 DEF Inv, Affinity, os, Machine
<1>4. Phases'
  BY <1>1 DEF Inv, Phases
<1> QED BY <1>2, <1>3, <1>4 DEF Inv

\* A copy describes what the object describes.
LEMMA StepCopy == Inv /\ copy => Inv'
<1> SUFFICES ASSUME Inv, copy PROVE Inv'
  OBVIOUS
<1>1. /\ pc = "idle" /\ copied' = config /\ UNCHANGED <<buffer, os, loops, config, pc>>
  BY DEF copy
<1>2. Types'
  BY <1>1 DEF Inv, Types, os, loops, Machine
<1>3. Affinity'
  BY <1>1 DEF Inv, Affinity, Usable, os, Machine
<1>4. Phases'
  BY <1>1 DEF Inv, Phases
<1> QED BY <1>2, <1>3, <1>4 DEF Inv

\* Every step keeps what is known of the machine.
LEMMA NextInv == Inv /\ [Next]_vars => Inv'
<1> SUFFICES ASSUME Inv, [Next]_vars PROVE Inv'
  OBVIOUS
<1>1. CASE UNCHANGED vars
  <2>1. UNCHANGED <<buffer, os, maps, loops, config, copied, pc>>
    BY <1>1 DEF vars, os, maps, loops
  <2>2. Types'
    BY <2>1 DEF Inv, Types, os, loops, Machine
  <2>3. Affinity'
    BY <2>1 DEF Inv, Affinity, Usable, os, Machine
  <2>4. Phases'
    BY <2>1 DEF Inv, Phases, Known, maps, loops, core
  <2> QED BY <2>2, <2>3, <2>4 DEF Inv
<1> QED BY <1>1, StepInitialize, StepQueryFails, StepQuery, StepScan, StepEmit, StepNextEntry,
           StepAssignPackages, StepFinish, StepDestroy, StepCopy DEF Next

------------------------------------------------------------------------------
(* The theorems *)

\* Inv is an invariant.
LEMMA AlwaysInv == Spec => []Inv
<1> QED BY InitInv, NextInv, PTL DEF Spec

\* Once the groups were obtained, m_usable is exact for a process with all its processors
\* in one group; with more groups no processor of a group that has none for the process is
\* usable, and all that the process may run on outside the asking thread's group are
\* (proc.cpp, lines 269-278).
THEOREM MachineUsableIsRunnable == Spec => []UsableIsRunnable
<1>1. Inv => UsableIsRunnable
  <2> SUFFICES ASSUME Inv, pc = "idle", config.proc # <<>>, groups = GroupsOf(runnable)
               PROVE  LET usable == {lp.mask : lp \in {p \in Range(config.proc) : p.usable}}
                      IN IF groups = {primary} THEN usable = runnable
                         ELSE /\ GroupsOf(usable) \subseteq groups
                              /\ {p \in runnable : p[1] # primary} \subseteq usable
    BY DEF UsableIsRunnable
  <2> DEFINE proc == config.proc
             usable == {lp.mask : lp \in {p \in Range(proc) : p.usable}}
  <2>1. /\ proc \in Seq(AnyProcessor) /\ DOMAIN proc = 1 .. Len(proc) /\ buffer \in Buffers
        /\ runnable \subseteq Machine
    BY DEF Inv, Types, AnyConfiguration
  <2>2. \A i \in 1 .. Len(proc) : proc[i].usable = Usable(proc[i].mask)
    BY DEF Inv, Affinity
  <2>3. \A p : p \in usable <=> \E i \in 1 .. Len(proc) : p = proc[i].mask /\ Usable(p)
    <3>1. Range(proc) = {proc[i] : i \in 1 .. Len(proc)}
      BY <2>1 DEF Range
    <3>2. \A p : p \in usable <=> \E i \in 1 .. Len(proc) : p = proc[i].mask /\ proc[i].usable
      <4> HIDE DEF proc
      <4> QED BY <3>1, Zenon
    <3> HIDE DEF usable, proc
    <3> QED BY <2>2, <3>2
  <2>4. PICK cl, pl \in Seq(Nat) : Describes(buffer, config, cl, pl)
    BY DEF Inv, Phases, Complete
  <2>5. \A p \in Machine : \E i \in 1 .. Len(proc) : proc[i].mask = p
    BY <2>4 DEF Describes, AllThere, Machine
  <2>6. \A i \in 1 .. Len(proc) : proc[i].mask \in Machine
    <3>1. \A k \in 1 .. Len(cl) : Members(buffer[cl[k]]) \in Cores(buffer)
      BY <2>4 DEF Describes, Enumerates, Cores
    <3> QED BY <2>4, <3>1 DEF Describes, InCores, Machine
  <2>7. \A p : p \in usable <=> p \in Machine /\ Usable(p)
    <3> HIDE DEF usable, proc
    <3> QED BY <2>3, <2>5, <2>6
  <2> HIDE DEF usable, proc
  <2>8. \A p \in runnable : p[1] \in groups
    BY DEF GroupsOf
  <2>9. CASE groups = {primary}
    <3>1. affinity = {p[2] : p \in runnable}
      BY <2>9 DEF Inv, Affinity
    <3>2. \A p \in Machine : p = <<p[1], p[2]>>
      BY <2>1, OneCore DEF Machine
    <3>3. ASSUME NEW p \in Machine
          PROVE  Usable(p) <=> p \in runnable
      <4>1. Usable(p) <=> p[1] = primary /\ p[2] \in affinity
        BY <2>9 DEF Usable
      <4>2. p \in runnable => p[1] = primary /\ p[2] \in affinity
        BY <2>8, <2>9, <3>1
      <4>3. ASSUME p[1] = primary, p[2] \in affinity
            PROVE  p \in runnable
        <5>1. PICK q \in runnable : q[2] = p[2]
          BY <3>1, <4>3
        <5>2. q[1] = p[1]
          BY <2>8, <2>9, <4>3
        <5>3. q = <<q[1], q[2]>> /\ p = <<p[1], p[2]>>
          BY <2>1, <3>2
        <5> QED BY <5>1, <5>2, <5>3, Zenon
      <4> QED BY <4>1, <4>2, <4>3
    <3>4. usable = runnable
      BY <2>1, <2>7, <3>3
    <3> QED BY <2>9, <3>4 DEF usable, proc
  <2>10. CASE groups # {primary}
    <3>1. GroupsOf(usable) \subseteq groups
      BY <2>7 DEF GroupsOf, Usable
    <3>2. {p \in runnable : p[1] # primary} \subseteq usable
      BY <2>1, <2>7, <2>8 DEF Usable
    <3> QED BY <2>10, <3>1, <3>2 DEF usable, proc
  <2> QED BY <2>9, <2>10
<1> QED BY <1>1, AlwaysInv, PTL

------------------------------------------------------------------------------
(* What an object that was filled describes *)

\* The vector and the counts of an object with processors are those of the machine.
LEMMA FilledDescribes ==
  ASSUME Inv, NEW c \in Filled
  PROVE  /\ buffer \in Buffers /\ c \in AnyConfiguration /\ c.proc # <<>>
         /\ \E cl, pl \in Seq(Nat) : Describes(buffer, c, cl, pl)
BY DEF Filled, Inv, Types, Phases, Complete

\* As many records as the list has, and as many sets of processors.
LEMMA ListCounts ==
  ASSUME NEW b \in Buffers, NEW kind \in Kinds, NEW list, Enumerates(list, Places(b, kind))
  PROVE  /\ Cardinality(Places(b, kind)) = Len(list) /\ Len(list) \in Nat
         /\ Cardinality({Members(b[i]) : i \in Places(b, kind)}) = Len(list)
<1>1. PICK n \in Nat : n = Len(list)
  BY DEF Enumerates
<1> DEFINE sets == {Members(b[i]) : i \in Places(b, kind)}
           place == [k \in 1 .. n |-> list[k]]
           set == [k \in 1 .. n |-> Members(b[list[k]])]
<1>2. Cardinality(Places(b, kind)) = n
  <2>1. /\ place \in [1 .. n -> Places(b, kind)]
        /\ \A k, l \in 1 .. n : place[k] = place[l] => k = l
        /\ \A i \in Places(b, kind) : \E k \in 1 .. n : place[k] = i
    BY <1>1 DEF Enumerates
  <2> HIDE DEF place
  <2> QED BY <2>1, Counted
<1>3. \A k \in 1 .. n : list[k] \in Places(b, kind)
  BY <1>1 DEF Enumerates
<1>4. Cardinality(sets) = n
  <2>1. set \in [1 .. n -> sets]
    BY <1>3
  <2>2. \A s \in sets : \E k \in 1 .. n : set[k] = s
    BY <1>1 DEF Enumerates
  <2>3. ASSUME NEW k \in 1 .. n, NEW l \in 1 .. n, set[k] = set[l] PROVE k = l
    <3>1. Members(b[list[k]]) = Members(b[list[l]])
      BY <2>3
    <3>2. PICK p : p \in Members(b[list[k]])
      BY <1>3, KeysDiffer
    <3>3. p \in Members(b[list[k]]) \cap Members(b[list[l]])
      BY <3>1, <3>2
    <3>4. list[k] = list[l]
      BY <1>3, <3>3, Buffer
    <3> QED BY <1>1, <3>4 DEF Enumerates
  <2> HIDE DEF set, sets
  <2> QED BY <2>1, <2>2, <2>3, Counted
<1> QED BY <1>1, <1>2, <1>4

\* Counts that are not UINT32_MAX describe the processors that are listed, also after a
\* failed initialize, a destroy, and in a copy (proc.hpp, lines 128-156).
THEOREM MachineCountsDescribe == Spec => []CountsDescribe
<1>1. Inv => CountsDescribe
  <2> SUFFICES ASSUME Inv, NEW c \in {copied} \cup (IF pc = "idle" THEN {config} ELSE {})
               PROVE  IF c.proc = <<>>
                      THEN {logicalCoreCount(c), physicalCoreCount(c), packageCount(c)}
                             = {Undefined}
                      ELSE /\ logicalCoreCount(c) = Len(c.proc)
                           /\ physicalCoreCount(c) = Cardinality(Cores(buffer))
                           /\ packageCount(c) = Cardinality(Packages(buffer))
    BY DEF CountsDescribe
  <2>1. CASE c.proc = <<>>
    BY <2>1 DEF logicalCoreCount, physicalCoreCount, packageCount
  <2>2. CASE c.proc # <<>>
    <3>1. c \in Filled
      BY <2>2 DEF Filled
    <3>2. PICK cl, pl \in Seq(Nat) : Describes(buffer, c, cl, pl)
      BY <3>1, FilledDescribes
    <3>3. Cardinality(Cores(buffer)) = Len(cl) /\ Cardinality(Packages(buffer)) = Len(pl)
      BY <3>1, <3>2, FilledDescribes, ListCounts DEF Describes, Cores, Packages, Kinds
    <3> QED BY <2>2, <3>2, <3>3 DEF Describes, logicalCoreCount, physicalCoreCount, packageCount
  <2> QED BY <2>1, <2>2
<1> QED BY <1>1, AlwaysInv, PTL

\* Where a processor is listed: in a core and in the package of that core.
LEMMA Located ==
  ASSUME NEW b \in Buffers, NEW c \in AnyConfiguration, NEW cl, NEW pl, Describes(b, c, cl, pl),
         NEW i \in 1 .. Len(c.proc)
  PROVE  /\ c.proc[i].mask \in UNION Cores(b) /\ c.proc[i].coreID \in Nat
         /\ \A k \in 1 .. Len(cl) :
              c.proc[i].mask \in Members(b[cl[k]]) <=> c.proc[i].coreID = k - 1
         /\ \E k \in 1 .. Len(cl) : c.proc[i].coreID = k - 1
         /\ \A k \in 1 .. Len(pl) :
              c.proc[i].mask \in Members(b[pl[k]]) <=> c.proc[i].pkgID = k - 1
         /\ \E k \in 1 .. Len(pl) : c.proc[i].pkgID = k - 1
<1> DEFINE lp == c.proc[i]
<1>1. Enumerates(cl, Places(b, "core")) /\ Enumerates(pl, Places(b, "package"))
  BY DEF Describes
<1>2. lp \in AnyProcessor
  BY DEF AnyConfiguration
<1>3. PICK k \in 1 .. Len(cl) : k = lp.coreID + 1 /\ lp.mask \in Members(b[cl[k]])
  BY DEF Describes, InCores
<1>4. lp.coreID \in Nat /\ lp.coreID = k - 1 /\ k \in Nat /\ Len(pl) \in Nat /\ Len(cl) \in Nat
  <2>1. lp.coreID \in Nat
    BY <1>2 DEF AnyProcessor
  <2>2. Len(cl) \in Nat /\ Len(pl) \in Nat
    BY <1>1 DEF Enumerates
  <2> QED BY <1>3, <2>1, <2>2
<1>5. lp.mask \in UNION Cores(b)
  BY <1>1, <1>3 DEF Enumerates, Cores
<1>6. \A l \in 1 .. Len(cl) : lp.mask \in Members(b[cl[l]]) => l = k
  BY <1>1, <1>3, <1>5, ListedCores
<1>7. \A l \in 1 .. Len(cl) : lp.mask \in Members(b[cl[l]]) <=> lp.coreID = l - 1
  <2>1. \A l \in 1 .. Len(cl) : lp.coreID = l - 1 => l = k
    BY <1>4
  <2> QED BY <1>3, <1>4, <1>6, <2>1
<1>8. \A l \in 1 .. Len(pl) : lp.mask \in Members(b[pl[l]]) => lp.pkgID = l - 1
  <2>1. \A l \in 1 .. Len(pl) : l < Len(pl) + 1
    BY <1>4
  <2> QED BY <2>1 DEF Describes, InPackages
<1>9. \E l \in 1 .. Len(pl) : lp.mask \in Members(b[pl[l]])
  <2>1. PICK j \in Places(b, "package") : Members(b[cl[k]]) \subseteq Members(b[j])
    BY <1>1, Buffer DEF Enumerates
  <2>2. PICK l \in 1 .. Len(pl) : pl[l] = j
    BY <1>1 DEF Enumerates
  <2> QED BY <1>3, <2>1, <2>2
<1>10. \A l \in 1 .. Len(pl) : lp.pkgID = l - 1 => lp.mask \in Members(b[pl[l]])
  <2> TAKE l \in 1 .. Len(pl)
  <2>1. HAVE lp.pkgID = l - 1
  <2>2. PICK m \in 1 .. Len(pl) : lp.mask \in Members(b[pl[m]])
    BY <1>9
  <2>3. l - 1 = m - 1
    BY <1>8, <2>1, <2>2
  <2>4. l = m
    BY <1>4, <2>3
  <2> QED BY <2>2, <2>4
<1> QED BY <1>3, <1>4, <1>5, <1>7, <1>8, <1>9, <1>10

\* Two processors are in one record of a kind exactly if they are in one that is listed.
LEMMA ListTogether ==
  ASSUME NEW b, NEW kind, NEW list, Enumerates(list, Places(b, kind)), NEW p, NEW q
  PROVE  Together({Members(b[i]) : i \in Places(b, kind)}, p, q)
           <=> \E k \in 1 .. Len(list) : p \in Members(b[list[k]]) /\ q \in Members(b[list[k]])
<1>1. \A k \in 1 .. Len(list) : list[k] \in Places(b, kind)
  BY DEF Enumerates
<1>2. \A i \in Places(b, kind) : \E k \in 1 .. Len(list) : list[k] = i
  BY DEF Enumerates
<1> QED BY <1>1, <1>2, Zenon DEF Together

\* Two processors are in one core, or package, exactly if they have its number.
LEMMA TogetherWhen ==
  ASSUME NEW b \in Buffers, NEW c \in AnyConfiguration, NEW cl, NEW pl, Describes(b, c, cl, pl),
         NEW i \in 1 .. Len(c.proc), NEW j \in 1 .. Len(c.proc)
  PROVE  /\ c.proc[i].coreID = c.proc[j].coreID
              <=> Together(Cores(b), c.proc[i].mask, c.proc[j].mask)
         /\ c.proc[i].pkgID = c.proc[j].pkgID
              <=> Together(Packages(b), c.proc[i].mask, c.proc[j].mask)
         /\ c.proc[i].coreID = c.proc[j].coreID => c.proc[i].pkgID = c.proc[j].pkgID
<1> DEFINE p == c.proc[i].mask
           q == c.proc[j].mask
<1>1. Enumerates(cl, Places(b, "core")) /\ Enumerates(pl, Places(b, "package"))
  BY DEF Describes
<1> HIDE DEF p, q
<1>2. Together(Cores(b), p, q)
        <=> \E k \in 1 .. Len(cl) : p \in Members(b[cl[k]]) /\ q \in Members(b[cl[k]])
  BY <1>1, ListTogether DEF Cores
<1>3. Together(Packages(b), p, q)
        <=> \E k \in 1 .. Len(pl) : p \in Members(b[pl[k]]) /\ q \in Members(b[pl[k]])
  BY <1>1, ListTogether DEF Packages
<1> USE DEF p, q
<1>4. c.proc[i].coreID = c.proc[j].coreID <=> Together(Cores(b), p, q)
  BY <1>2, Located
<1>5. c.proc[i].pkgID = c.proc[j].pkgID <=> Together(Packages(b), p, q)
  BY <1>3, Located
<1>6. Together(Cores(b), p, q) => Together(Packages(b), p, q)
  <2>1. \A s \in Cores(b) : \E t \in Packages(b) : s \subseteq t
    BY BuffersAssumption
  <2> QED BY <2>1 DEF Together
<1> QED BY <1>4, <1>5, <1>6

\* As many processors are listed as the machine has.
LEMMA AsManyAsTheMachine ==
  ASSUME NEW b \in Buffers, NEW c \in AnyConfiguration, NEW cl, NEW pl, Describes(b, c, cl, pl)
  PROVE  Cardinality(UNION Cores(b)) = Len(c.proc)
<1>1. PICK n \in Nat : n = Len(c.proc)
  BY DEF AnyConfiguration
<1>2. /\ \A i \in 1 .. n : c.proc[i].mask \in UNION Cores(b)
      /\ \A p \in UNION Cores(b) : \E i \in 1 .. n : c.proc[i].mask = p
      /\ \A i, j \in 1 .. n : c.proc[i].mask = c.proc[j].mask => i = j
  BY <1>1, Located DEF Describes, AllThere, InCores
<1> DEFINE f == [i \in 1 .. n |-> c.proc[i].mask]
<1>3. /\ f \in [1 .. n -> UNION Cores(b)]
      /\ \A k, l \in 1 .. n : f[k] = f[l] => k = l
      /\ \A p \in UNION Cores(b) : \E k \in 1 .. n : f[k] = p
  BY <1>2
<1> HIDE DEF f
<1> QED BY <1>1, <1>3, Counted

\* A processor of the list has the number of a package, never the mark of none.
LEMMA HasAPackage ==
  ASSUME NEW b \in Buffers, NEW c \in AnyConfiguration, NEW cl, NEW pl, Describes(b, c, cl, pl),
         NEW i \in 1 .. Len(c.proc)
  PROVE  c.proc[i].pkgID # NoPackage
<1>1. \E k \in 1 .. Len(pl) : c.proc[i].pkgID = k - 1
  BY Located
<1>2. Len(pl) <= NoPackage /\ Len(pl) \in Nat /\ NoPackage \in Nat
  BY ListCounts, BuffersAssumption DEF Describes, Kinds
<1> QED BY <1>1, <1>2

\* Every logical processor of the machine is listed once, under its own index, and two have
\* the same package ID exactly if they sit in the same package, in whatever order the
\* records came (proc.cpp, lines 236-332).
THEOREM MachineEveryProcessorOnce == Spec => []EveryProcessorOnce
<1>1. Inv => EveryProcessorOnce
  <2> SUFFICES ASSUME Inv, NEW c \in Filled
               PROVE  /\ Len(c.proc) = Cardinality(Machine)
                      /\ {lp.mask : lp \in Range(c.proc)} = Machine
                      /\ \A i, j \in DOMAIN c.proc :
                           /\ c.proc[i].globalID = i - 1 /\ c.proc[i].pkgID # NoPackage
                           /\ c.proc[i].pkgID = c.proc[j].pkgID
                                <=> Together(Packages(buffer), c.proc[i].mask, c.proc[j].mask)
    BY DEF EveryProcessorOnce
  <2>1. buffer \in Buffers /\ c \in AnyConfiguration
    BY FilledDescribes
  <2>2. PICK cl, pl \in Seq(Nat) : Describes(buffer, c, cl, pl)
    BY FilledDescribes
  <2>3. PICK n \in Nat : n = Len(c.proc) /\ DOMAIN c.proc = 1 .. n
    BY <2>1 DEF AnyConfiguration
  <2>4. /\ \A i \in 1 .. n : c.proc[i].mask \in Machine
        /\ \A p \in Machine : \E i \in 1 .. n : c.proc[i].mask = p
    BY <2>1, <2>2, <2>3, Located DEF Describes, AllThere, Machine
  <2>5. Cardinality(Machine) = n
    BY <2>1, <2>2, <2>3, AsManyAsTheMachine DEF Machine
  <2>6. {lp.mask : lp \in Range(c.proc)} = Machine
    <3>1. Range(c.proc) = {c.proc[i] : i \in 1 .. n}
      BY <2>3 DEF Range
    <3> QED BY <2>4, <3>1
  <2>7. \A i \in 1 .. n : c.proc[i].pkgID # NoPackage
    <3> TAKE i \in 1 .. n
    <3> QED BY <2>1, <2>2, <2>3, HasAPackage
  <2>8. \A i \in 1 .. n : c.proc[i].globalID = i - 1
    BY <2>2, <2>3 DEF Describes
  <2>9. \A i, j \in 1 .. n : c.proc[i].pkgID = c.proc[j].pkgID
          <=> Together(Packages(buffer), c.proc[i].mask, c.proc[j].mask)
    BY <2>1, <2>2, <2>3, TogetherWhen
  <2> QED BY <2>3, <2>5, <2>6, <2>7, <2>8, <2>9
<1> QED BY <1>1, AlwaysInv, PTL

------------------------------------------------------------------------------
(* The threads of a core *)

\* The places of a set of numbers name its elements once each.
LEMMA InOrder ==
  ASSUME NEW n \in Nat, NEW own \in SUBSET (1 .. n)
  PROVE  LET place(k) == CHOOSE i \in own : Cardinality({j \in own : j <= i}) = k
         IN  /\ Cardinality(own) \in Nat
             /\ \A k \in 1 .. Cardinality(own) : place(k) \in own
             /\ \A k, l \in 1 .. Cardinality(own) : place(k) = place(l) => k = l
             /\ \A i \in own : \E k \in 1 .. Cardinality(own) : place(k) = i
<1> DEFINE Upto(i) == {j \in own : j <= i}
           m == Cardinality(own)
           rank == [i \in own |-> Cardinality(Upto(i))]
           place(k) == CHOOSE i \in own : Cardinality(Upto(i)) = k
<1>1. IsFiniteSet(own) /\ m \in Nat
  <2>1. IsFiniteSet(1 .. n)
    BY FS_Interval
  <2>2. IsFiniteSet(own)
    BY <2>1, FS_Subset
  <2> QED BY <2>2, FS_CardinalityType
<1>2. \A i \in own : /\ i \in Upto(i) /\ Upto(i) \in SUBSET own
                     /\ IsFiniteSet(Upto(i)) /\ Cardinality(Upto(i)) \in 1 .. m
  <2> TAKE i \in own
  <2>1. i \in Upto(i) /\ Upto(i) \in SUBSET own
    OBVIOUS
  <2> HIDE DEF Upto
  <2>2. IsFiniteSet(Upto(i)) /\ Cardinality(Upto(i)) <= m
    BY <1>1, <2>1, FS_Subset
  <2>3. Cardinality(Upto(i)) \in Nat /\ Cardinality(Upto(i)) # 0
    BY <2>1, <2>2, FS_CardinalityType, FS_EmptySet
  <2> QED BY <1>1, <2>1, <2>2, <2>3
<1>3. ASSUME NEW i \in own, NEW j \in own, Cardinality(Upto(i)) = Cardinality(Upto(j))
      PROVE  i = j
  <2>1. ASSUME NEW x \in own, NEW y \in own, x <= y, Cardinality(Upto(x)) = Cardinality(Upto(y))
        PROVE  x = y
    <3>1. Upto(x) \in SUBSET Upto(y)
      <4>1. \A k \in own : k <= x => k <= y
        BY <2>1
      <4> QED BY <4>1
    <3>2. Upto(y) = Upto(x)
      <4> HIDE DEF Upto
      <4> QED BY <1>2, <2>1, <3>1, FS_Subset
    <3>3. y <= x
      BY <1>2, <3>2
    <3> QED BY <2>1, <3>3
  <2>2. i <= j \/ j <= i
    OBVIOUS
  <2> QED BY <1>3, <2>1, <2>2
<1> HIDE DEF Upto
<1>4. \A k \in 1 .. m : \E i \in own : Cardinality(Upto(i)) = k
  <2>1. rank \in [own -> 1 .. m] /\ \A i, j \in own : rank[i] = rank[j] => i = j
    BY <1>2, <1>3
  <2>2. IsFiniteSet(1 .. m) /\ Cardinality(1 .. m) = m
    BY <1>1, FS_Interval
  <2> HIDE DEF rank
  <2>3. rank \in Injection(own, 1 .. m)
    BY <2>1 DEF Injection, IsInjective
  <2>4. rank \in Surjection(own, 1 .. m)
    BY <2>2, <2>3, FS_Injection
  <2> QED BY <2>4 DEF Surjection, rank
<1>5. \A k \in 1 .. m : place(k) \in own /\ Cardinality(Upto(place(k))) = k
  BY <1>4
<1>6. \A i \in own : place(Cardinality(Upto(i))) = i
  <2> TAKE i \in own
  <2>1. Cardinality(Upto(i)) \in 1 .. m
    BY <1>2
  <2> QED BY <1>3, <1>5, <2>1
<1> HIDE DEF place
<1>7. /\ m \in Nat
      /\ \A k \in 1 .. m : place(k) \in own
      /\ \A k, l \in 1 .. m : place(k) = place(l) => k = l
      /\ \A i \in own : \E k \in 1 .. m : place(k) = i
  BY <1>1, <1>2, <1>5, <1>6
<1> QED BY <1>7 DEF place, Upto

\* Each core has a processor in the list, and the last processor is one of the last core.
LEMMA CoresListed ==
  ASSUME NEW b \in Buffers, NEW c \in AnyConfiguration, NEW cl, NEW pl, Describes(b, c, cl, pl),
         c.proc # <<>>
  PROVE  /\ Len(cl) \in Nat
         /\ \A k \in 1 .. Len(cl) : \E i \in 1 .. Len(c.proc) : c.proc[i].coreID = k - 1
         /\ Last(c.proc).coreID = Len(cl) - 1
<1>1. Enumerates(cl, Places(b, "core")) /\ AllThere(b, c.proc)
  BY DEF Describes
<1>2. Len(cl) \in Nat
  BY <1>1 DEF Enumerates
<1>3. ASSUME NEW k \in 1 .. Len(cl) PROVE \E i \in 1 .. Len(c.proc) : c.proc[i].coreID = k - 1
  <2>1. PICK p : p \in Members(b[cl[k]])
    BY <1>1, KeysDiffer DEF Enumerates, Kinds
  <2>2. p \in UNION Cores(b)
    BY <1>1, <2>1 DEF Enumerates, Cores
  <2>3. PICK i \in 1 .. Len(c.proc) : c.proc[i].mask = p
    BY <1>1, <2>2 DEF AllThere
  <2> QED BY <2>1, <2>3, Located, SMTT(20)
<1>4. Last(c.proc).coreID = Len(cl) - 1
  <2>1. PICK n \in Nat : n = Len(c.proc) /\ n # 0
    BY DEF AnyConfiguration
  <2>2. Last(c.proc) = c.proc[n] /\ n \in 1 .. n
    BY <2>1 DEF Last
  <2>3. \A i \in 1 .. n :
          c.proc[i].coreID \in Nat /\ \E k \in 1 .. Len(cl) : c.proc[i].coreID = k - 1
    BY <2>1, Located
  <2>4. c.proc[n].coreID <= Len(cl) - 1 /\ Len(cl) \in 1 .. Len(cl)
    BY <1>2, <2>2, <2>3
  <2>5. PICK i \in 1 .. n : c.proc[i].coreID = Len(cl) - 1
    BY <1>3, <2>1, <2>4
  <2>6. c.proc[i].coreID <= c.proc[n].coreID
    <3>1. \A x, y \in 1 .. n : x < y => c.proc[x].coreID <= c.proc[y].coreID
      BY <2>1 DEF Describes, InCores
    <3>2. i < n \/ i = n
      BY <2>1
    <3> QED BY <2>2, <2>3, <3>1, <3>2
  <2> QED BY <1>2, <2>2, <2>3, <2>4, <2>5, <2>6
<1> QED BY <1>2, <1>3, <1>4

\* There is one unique core ID per core.
LEMMA KeysCount ==
  ASSUME NEW b \in Buffers, NEW c \in AnyConfiguration, NEW cl, NEW pl, Describes(b, c, cl, pl),
         c.proc # <<>>
  PROVE  Cardinality({uniqueCoreID(lp) : lp \in Range(c.proc)}) = Len(cl)
<1>1. PICK m \in Nat : m = Len(cl)
  BY CoresListed
<1> DEFINE key(i) == uniqueCoreID(c.proc[i])
           keys == {key(i) : i \in 1 .. Len(c.proc)}
           f == [k \in 1 .. m |-> CHOOSE x \in keys : x[2] = k - 1]
<1>2. \A i \in 1 .. Len(c.proc) : key(i)[2] = c.proc[i].coreID
  BY DEF uniqueCoreID
<1>3. \A i, j \in 1 .. Len(c.proc) : c.proc[i].coreID = c.proc[j].coreID => key(i) = key(j)
  BY TogetherWhen DEF uniqueCoreID
<1>4. \A k \in 1 .. m : \E i \in 1 .. Len(c.proc) : c.proc[i].coreID = k - 1
  BY <1>1, CoresListed
<1>5. \A i \in 1 .. Len(c.proc) : \E k \in 1 .. m : c.proc[i].coreID = k - 1
  BY <1>1, Located
<1> HIDE DEF key
<1>6. \A x \in keys : \E k \in 1 .. m : x[2] = k - 1
  BY <1>2, <1>5
<1>7. \A x, y \in keys : x[2] = y[2] => x = y
  BY <1>2, <1>3
<1>8. \A k \in 1 .. m : \E x \in keys : x[2] = k - 1
  BY <1>2, <1>4
<1> HIDE DEF keys
<1>9. \A k \in 1 .. m : f[k] \in keys /\ f[k][2] = k - 1
  BY <1>8
<1>10. f \in [1 .. m -> keys]
  BY <1>9
<1> HIDE DEF f
<1>11. \A k, l \in 1 .. m : f[k] = f[l] => k = l
  BY <1>9
<1>12. \A x \in keys : \E k \in 1 .. m : f[k] = x
  <2> TAKE x \in keys
  <2>1. PICK k \in 1 .. m : x[2] = k - 1
    BY <1>6
  <2>2. f[k] \in keys /\ f[k][2] = x[2]
    BY <1>9, <2>1
  <2>3. f[k] = x
    BY <1>7, <2>2, Zenon
  <2> QED BY <2>3
<1>13. Cardinality(keys) = m
  BY <1>10, <1>11, <1>12, Counted
<1>14. {uniqueCoreID(lp) : lp \in Range(c.proc)} = keys
  <2>1. Range(c.proc) = {c.proc[i] : i \in 1 .. Len(c.proc)}
    BY DEF Range, AnyConfiguration
  <2> QED BY <2>1 DEF keys, key
<1> QED BY <1>1, <1>13, <1>14

\* A core ID has the masks of its core's processors, once each.
LEMMA MasksOfCore ==
  ASSUME NEW b \in Buffers, NEW c \in AnyConfiguration, NEW cl, NEW pl, Describes(b, c, cl, pl),
         c.proc # <<>>, NEW coreID \in Nat
  PROVE  LET masks == getPhysicalCoreThreadAffinity(c, coreID)
         IN  IF coreID < Len(cl) THEN IsInjective(masks) /\ Range(masks) \in Cores(b)
             ELSE masks = <<>>
<1> DEFINE masks == getPhysicalCoreThreadAffinity(c, coreID)
           own == {i \in DOMAIN c.proc : c.proc[i].coreID = coreID}
<1>1. Len(cl) \in Nat /\ Last(c.proc).coreID = Len(cl) - 1
  BY CoresListed
<1>2. CASE ~(coreID < Len(cl))
  <2>1. coreID > Last(c.proc).coreID
    BY <1>1, <1>2
  <2> QED BY <1>2, <2>1 DEF getPhysicalCoreThreadAffinity
<1>3. CASE coreID < Len(cl)
  <2>1. ~(coreID > Last(c.proc).coreID) /\ coreID + 1 \in 1 .. Len(cl)
    BY <1>1, <1>3
  <2>2. masks = AffinitiesAt(c.proc, own)
    BY <2>1 DEF getPhysicalCoreThreadAffinity
  <2>3. PICK n \in Nat : n = Len(c.proc) /\ DOMAIN c.proc = 1 .. n
    BY DEF AnyConfiguration
  <2> DEFINE place(k) == CHOOSE i \in own : Cardinality({j \in own : j <= i}) = k
             m == Cardinality(own)
  <2>4. own \in SUBSET (1 .. n)
    BY <2>3
  <2>5. \A i \in 1 .. n : i \in own <=> c.proc[i].mask \in Members(b[cl[coreID + 1]])
    <3>1. (coreID + 1) - 1 = coreID
      OBVIOUS
    <3>2. PICK l \in 1 .. Len(cl) : l = coreID + 1
      BY <2>1
    <3>3. \A i \in 1 .. Len(c.proc) : c.proc[i].mask \in Members(b[cl[l]])
            <=> c.proc[i].coreID = l - 1
      BY Located
    <3> QED BY <2>3, <3>1, <3>2, <3>3
  <2>6. \A p \in Members(b[cl[coreID + 1]]) : \E i \in 1 .. n : c.proc[i].mask = p
    <3>1. Members(b[cl[coreID + 1]]) \in Cores(b)
      BY <2>1 DEF Describes, Enumerates, Cores
    <3> QED BY <2>3, <3>1 DEF Describes, AllThere
  <2>7. \A i, j \in 1 .. n : c.proc[i].mask = c.proc[j].mask => i = j
    BY <2>3 DEF Describes, InCores
  <2>8. Members(b[cl[coreID + 1]]) \in Cores(b)
    BY <2>1 DEF Describes, Enumerates, Cores
  <2>9. masks = [k \in 1 .. m |-> c.proc[place(k)].mask]
    BY <2>2 DEF AffinitiesAt
  <2> HIDE DEF own, masks
  <2>10. /\ m \in Nat
         /\ \A k \in 1 .. m : place(k) \in own
         /\ \A k, l \in 1 .. m : place(k) = place(l) => k = l
         /\ \A i \in own : \E k \in 1 .. m : place(k) = i
    BY <2>4, InOrder
  <2> HIDE DEF place, m
  <2>11. DOMAIN masks = 1 .. m /\ \A k \in 1 .. m : masks[k] = c.proc[place(k)].mask
    BY <2>9
  <2>12. IsInjective(masks)
    <3> SUFFICES ASSUME NEW k \in 1 .. m, NEW l \in 1 .. m, masks[k] = masks[l]
                 PROVE  k = l
      BY <2>11 DEF IsInjective
    <3>1. place(k) \in 1 .. n /\ place(l) \in 1 .. n
      BY <2>4, <2>10
    <3>2. c.proc[place(k)].mask = c.proc[place(l)].mask
      BY <2>11
    <3>3. place(k) = place(l)
      BY <2>7, <3>1, <3>2, Zenon
    <3> QED BY <2>10, <3>3
  <2>13. Range(masks) = {masks[k] : k \in 1 .. m}
    BY <2>11 DEF Range
  <2>14. \A p \in Range(masks) : p \in Members(b[cl[coreID + 1]])
    <3> TAKE p \in Range(masks)
    <3>1. PICK k \in 1 .. m : p = masks[k]
      BY <2>13
    <3>2. place(k) \in own /\ place(k) \in 1 .. n /\ p = c.proc[place(k)].mask
      BY <2>4, <2>10, <2>11, <3>1
    <3> QED BY <2>5, <3>2
  <2>15. \A p \in Members(b[cl[coreID + 1]]) : p \in Range(masks)
    <3> TAKE p \in Members(b[cl[coreID + 1]])
    <3>1. PICK i \in 1 .. n : c.proc[i].mask = p
      BY <2>6
    <3>2. i \in own
      BY <2>5, <3>1
    <3>3. PICK k \in 1 .. m : place(k) = i
      BY <2>10, <3>2
    <3>4. masks[k] = p
      BY <2>11, <3>1, <3>3
    <3> QED BY <2>13, <3>4
  <2>16. Range(masks) = Members(b[cl[coreID + 1]])
    BY <2>14, <2>15, Zenon
  <2> QED BY <1>3, <2>8, <2>12, <2>16 DEF masks
<1> QED BY <1>2, <1>3

\* uniqueCoreID tells physical cores apart, there are as many of them as the core count, and
\* a core ID below the count has the masks of exactly one core's threads, a larger one none
\* (proc.cpp, lines 11-29; proc.hpp, lines 107-113).
THEOREM MachineCoresIdentified == Spec => []CoresIdentified
<1>1. Inv => CoresIdentified
  <2> SUFFICES ASSUME Inv, NEW c \in Filled
               PROVE  /\ \A lp, other \in Range(c.proc) :
                           uniqueCoreID(lp) = uniqueCoreID(other)
                             <=> Together(Cores(buffer), lp.mask, other.mask)
                      /\ physicalCoreCount(c)
                           = Cardinality({uniqueCoreID(lp) : lp \in Range(c.proc)})
                      /\ \A coreID \in 0 .. Cardinality(Machine) :
                           LET masks == getPhysicalCoreThreadAffinity(c, coreID) IN
                           IF coreID < physicalCoreCount(c)
                           THEN IsInjective(masks) /\ Range(masks) \in Cores(buffer)
                           ELSE masks = <<>>
    BY DEF CoresIdentified
  <2>1. buffer \in Buffers /\ c \in AnyConfiguration /\ c.proc # <<>>
    BY FilledDescribes
  <2>2. PICK cl, pl \in Seq(Nat) : Describes(buffer, c, cl, pl)
    BY FilledDescribes
  <2>3. physicalCoreCount(c) = Len(cl)
    BY <2>1, <2>2 DEF Describes, physicalCoreCount
  <2>4. \A i, j \in 1 .. Len(c.proc) : uniqueCoreID(c.proc[i]) = uniqueCoreID(c.proc[j])
          <=> Together(Cores(buffer), c.proc[i].mask, c.proc[j].mask)
    BY <2>1, <2>2, TogetherWhen DEF uniqueCoreID
  <2>5. Range(c.proc) = {c.proc[i] : i \in 1 .. Len(c.proc)}
    BY <2>1 DEF Range, AnyConfiguration
  <2>6. \A lp, other \in Range(c.proc) :
          uniqueCoreID(lp) = uniqueCoreID(other)
            <=> Together(Cores(buffer), lp.mask, other.mask)
    BY <2>4, <2>5
  <2>7. physicalCoreCount(c) = Cardinality({uniqueCoreID(lp) : lp \in Range(c.proc)})
    BY <2>1, <2>2, <2>3, KeysCount
  <2>8. \A coreID \in 0 .. Cardinality(Machine) : coreID \in Nat
    OBVIOUS
  <2> QED BY <2>1, <2>2, <2>3, <2>6, <2>7, <2>8, MasksOfCore
<1> QED BY <1>1, AlwaysInv, PTL

------------------------------------------------------------------------------
(* The widths of the fields *)

\* A machine has at most as many processors, and so cores, as groups and masks can name.
LEMMA MachineSize ==
  ASSUME NEW b \in Buffers
  PROVE  /\ UNION Cores(b) \subseteq (0 .. NoPackage) \X (0 .. 63)
         /\ Cardinality(UNION Cores(b)) <= Undefined
         /\ Cardinality(Places(b, "core")) <= Undefined
<1> DEFINE All == UNION Cores(b)
           Names == (0 .. NoPackage) \X (0 .. 63)
<1>1. ASSUME NEW p \in All
      PROVE  p \in Names
  <2>1. PICK i \in Places(b, "core") : p \in Members(b[i])
    BY OneCore
  <2>2. WellFormed(b[i])
    BY Buffer DEF Kinds
  <2>3. PICK g \in 1 .. Len(b[i].groupMask) : In(p, b[i].groupMask[g])
    BY <2>1, <2>2, MembersOf
  <2>4. PICK c \in b[i].groupMask[g].mask : p = <<b[i].groupMask[g].group, c>>
    BY <2>3 DEF In
  <2>5. c \in 0 .. 63 /\ b[i].groupMask[g].group \in 0 .. NoPackage
    BY <2>2, <2>4, Entries
  <2> QED BY <2>4, <2>5
<1>2. /\ NoPackage \in Nat /\ Undefined \in Nat /\ (NoPackage + 1) * 64 <= Undefined
  BY BuffersAssumption
<1>3. IsFiniteSet(Names) /\ Cardinality(Names) = (NoPackage + 1) * 64
  <2>1. ASSUME NEW n \in Nat
        PROVE  IsFiniteSet(0 .. n) /\ Cardinality(0 .. n) = n + 1
    <3>1. 0 \in Int /\ n \in Int /\ ~(0 > n) /\ n - 0 + 1 = n + 1
      OBVIOUS
    <3> QED BY <3>1, FS_Interval
  <2>2. /\ IsFiniteSet(0 .. NoPackage) /\ Cardinality(0 .. NoPackage) = NoPackage + 1
        /\ IsFiniteSet(0 .. 63) /\ Cardinality(0 .. 63) = 64
    <3>1. 63 \in Nat /\ 63 + 1 = 64
      OBVIOUS
    <3> QED BY <1>2, <2>1, <3>1
  <2>3. /\ IsFiniteSet(Names)
        /\ Cardinality(Names) = Cardinality(0 .. NoPackage) * Cardinality(0 .. 63)
    BY <2>2, FS_Product
  <2> QED BY <2>2, <2>3, Zenon
<1>4. All \in SUBSET Names
  BY <1>1
<1> HIDE DEF All, Names
<1>5. IsFiniteSet(All) /\ Cardinality(All) <= (NoPackage + 1) * 64 /\ Cardinality(All) \in Nat
  BY <1>3, <1>4, FS_Subset, FS_CardinalityType
<1> DEFINE own == [i \in Places(b, "core") |-> CHOOSE p \in All : p \in Members(b[i])]
<1>6. \A i \in Places(b, "core") : own[i] \in All /\ own[i] \in Members(b[i])
  <2> TAKE i \in Places(b, "core")
  <2>1. PICK p : p \in Members(b[i])
    BY KeysDiffer DEF Kinds
  <2>2. p \in All
    BY <2>1 DEF All, Cores
  <2> QED BY <2>1, <2>2
<1>7. own \in Injection(Places(b, "core"), All)
  <2>1. own \in [Places(b, "core") -> All]
    BY <1>6
  <2> HIDE DEF own
  <2>2. ASSUME NEW i \in Places(b, "core"), NEW j \in Places(b, "core"), own[i] = own[j]
        PROVE  i = j
    BY <1>6, <2>2, OneCore DEF Kinds, All
  <2> QED BY <2>1, <2>2 DEF Injection, IsInjective
<1>8. /\ IsFiniteSet(Places(b, "core"))
      /\ Cardinality(Places(b, "core")) <= Cardinality(All)
  BY <1>5, <1>7, FS_Injection
<1>9. Cardinality(Places(b, "core")) \in Nat
  BY <1>8, FS_CardinalityType
<1>10. ((NoPackage + 1) * 64) \in Nat
  BY <1>2
<1> QED BY <1>2, <1>4, <1>5, <1>8, <1>9, <1>10 DEF All, Names

\* The lists are short enough for the numbers that are given to their elements.
LEMMA ListsFit ==
  ASSUME NEW b \in Buffers
  PROVE  /\ \A cl : Enumerates(cl, Places(b, "core"))
                      => Len(cl) \in 0 .. Undefined /\ \A k \in 1 .. Len(cl) : k - 1 \in 0 .. Undefined
         /\ \A pl : Enumerates(pl, Places(b, "package"))
                      => Len(pl) \in 0 .. NoPackage /\ \A k \in 1 .. Len(pl) : k - 1 \in 0 .. NoPackage
<1>1. Undefined \in Nat /\ NoPackage \in Nat /\ Cardinality(Places(b, "package")) <= NoPackage
  BY BuffersAssumption
<1>2. ASSUME NEW cl, Enumerates(cl, Places(b, "core"))
      PROVE  Len(cl) \in Nat /\ Len(cl) <= Undefined
  BY <1>2, ListCounts, MachineSize DEF Kinds
<1>3. ASSUME NEW pl, Enumerates(pl, Places(b, "package"))
      PROVE  Len(pl) \in Nat /\ Len(pl) <= NoPackage
  BY <1>1, <1>3, ListCounts DEF Kinds
<1> QED BY <1>1, <1>2, <1>3

\* What describes the machine fits in the fields.
LEMMA DescribedFits ==
  ASSUME NEW b \in Buffers, NEW c \in AnyConfiguration, NEW cl, NEW pl, Describes(b, c, cl, pl)
  PROVE  c \in Configuration
<1>1. PICK n \in Nat : n = Len(c.proc) /\ DOMAIN c.proc = 1 .. n
  BY DEF AnyConfiguration
<1>2. Enumerates(cl, Places(b, "core")) /\ Enumerates(pl, Places(b, "package"))
  BY DEF Describes
<1>3. n <= Undefined
  <2>1. Cardinality(UNION Cores(b)) = n
    BY <1>1, AsManyAsTheMachine
  <2> QED BY <2>1, MachineSize
<1>4. ASSUME NEW i \in 1 .. n
      PROVE  c.proc[i] \in Processor
  <2>1. c.proc[i] \in AnyProcessor
    BY <1>1 DEF AnyConfiguration
  <2>2. c.proc[i].globalID \in 0 .. Undefined
    <3>1. c.proc[i].globalID = i - 1
      BY <1>1 DEF Describes
    <3>2. Undefined \in Nat
      BY BuffersAssumption
    <3> QED BY <1>3, <3>1, <3>2
  <2>3. c.proc[i].coreID \in 0 .. Undefined /\ c.proc[i].pkgID \in 0 .. NoPackage
    <3>1. /\ \E k \in 1 .. Len(cl) : c.proc[i].coreID = k - 1
          /\ \E k \in 1 .. Len(pl) : c.proc[i].pkgID = k - 1
      BY <1>1, Located
    <3> QED BY <1>2, <3>1, ListsFit
  <2>4. c.proc[i].mask \in (0 .. NoPackage) \X (0 .. 63)
    <3>1. c.proc[i].mask \in UNION Cores(b)
      BY <1>1, Located
    <3>2. UNION Cores(b) \subseteq (0 .. NoPackage) \X (0 .. 63)
      BY MachineSize
    <3> QED BY <3>1, <3>2, Zenon
  <2> QED BY <2>1, <2>2, <2>3, <2>4 DEF AnyProcessor, Processor
<1>5. c.proc \in Seq(Processor)
  BY <1>1, <1>4 DEF AnyConfiguration
<1>6. /\ c.threads \in 0 .. Undefined /\ c.cores \in 0 .. Undefined
      /\ c.packages \in 0 .. NoPackage
  <2>1. c.threads = n /\ c.cores = Len(cl) /\ c.packages = Len(pl)
    BY <1>1 DEF Describes
  <2>2. Undefined \in Nat
    BY BuffersAssumption
  <2> QED BY <1>2, <1>3, <2>1, <2>2, ListsFit
<1> QED BY <1>5, <1>6 DEF AnyConfiguration, Configuration

\* The list of an object is replaced by one that fits.
LEMMA ReplacedFits ==
  ASSUME NEW c \in Configuration, NEW proc \in Seq(Processor)
  PROVE  [c EXCEPT !.proc = proc] \in Configuration
BY DEF Configuration

\* The processor that is added fits.
LEMMA EmittedFits ==
  ASSUME Inv, TypeOK, Emit
  PROVE  config' \in Configuration
<1> DEFINE low == Min(BitsLeft)
           lp == [globalID |-> Undefined, coreID |-> coreMap[Key(core)], pkgID |-> NoPackage,
                  usable |-> Usable(<<entry.group, low>>), mask |-> <<entry.group, low>>]
<1>1. /\ pc = "emit" /\ BitsLeft # {}
      /\ config' = [config EXCEPT !.proc = Append(@, lp)]
  BY DEF Emit
<1>2. low \in 0 .. 63
  <2>1. BitsLeft \in SUBSET (0 .. 63)
    BY <1>1, AtEntry DEF BitsLeft
  <2> QED BY <1>1, <2>1, LowestOf
<1> HIDE DEF low
<1>3. coreMap[Key(core)] \in 0 .. Undefined
  BY <1>1, AtEntry, ListsFit
<1>4. Undefined \in 0 .. Undefined /\ NoPackage \in 0 .. NoPackage
  BY BuffersAssumption
<1>5. Usable(<<entry.group, low>>) \in BOOLEAN
  BY DEF Usable
<1>6. <<entry.group, low>> \in (0 .. NoPackage) \X (0 .. 63)
  BY <1>1, <1>2, AtEntry
<1>7. lp \in Processor
  BY <1>3, <1>4, <1>5, <1>6 DEF Processor
<1> HIDE DEF lp
<1>8. config \in Configuration /\ config.proc \in Seq(Processor)
  BY DEF TypeOK, Configuration
<1>9. Append(config.proc, lp) \in Seq(Processor)
  BY <1>7, <1>8
<1>10. config' = [config EXCEPT !.proc = Append(config.proc, lp)]
  BY <1>1, <1>8 DEF Configuration, lp
<1> QED BY <1>8, <1>9, <1>10, ReplacedFits

\* The number of a package fits.
LEMMA AssignedFits ==
  ASSUME Inv, TypeOK, AssignPackages
  PROVE  config' \in Configuration
<1> DEFINE r == buffer[pkgInfoOffset[at]]
           proc == config.proc
           new == [i \in DOMAIN proc |-> IF Matches(r, proc[i])
                     THEN [proc[i] EXCEPT !.pkgID = packageMap[Key(r)]] ELSE proc[i]]
<1>1. pc = "packages" /\ config' = [config EXCEPT !.proc = new]
  BY DEF AssignPackages, TypeOK, Configuration
<1>2. packageMap[Key(r)] \in 0 .. NoPackage
  <2>1. /\ at \in 1 .. Len(pkgInfoOffset) /\ Numbers(buffer, packageMap, pkgInfoOffset)
        /\ Enumerates(pkgInfoOffset, Places(buffer, "package")) /\ buffer \in Buffers
    BY <1>1, AfterCores DEF Inv, Phases
  <2>2. packageMap[Key(r)] = at - 1
    BY <2>1 DEF Numbers
  <2> QED BY <2>1, <2>2, ListsFit
<1>3. proc \in Seq(Processor)
  BY DEF TypeOK, Configuration
<1>4. PICK n \in Nat : n = Len(proc) /\ DOMAIN proc = 1 .. n
  BY <1>3
<1>5. \A i \in 1 .. n : proc[i] \in Processor
  BY <1>3, <1>4
<1>6. \A i \in 1 .. n : new[i] \in Processor
  <2> TAKE i \in 1 .. n
  <2>1. proc[i] \in Processor
    BY <1>5
  <2>2. [proc[i] EXCEPT !.pkgID = packageMap[Key(r)]] \in Processor
    BY <1>2, <2>1 DEF Processor
  <2>3. \/ new[i] = [proc[i] EXCEPT !.pkgID = packageMap[Key(r)]]
        \/ new[i] = proc[i]
    BY <1>4
  <2> QED BY <2>1, <2>2, <2>3, Zenon
<1>7. new = [i \in 1 .. n |-> new[i]]
  BY <1>4
<1> HIDE DEF new
<1>8. new \in Seq(Processor)
  BY <1>6, <1>7
<1>9. config \in Configuration
  BY DEF TypeOK
<1> QED BY <1>1, <1>8, <1>9, ReplacedFits

\* A step keeps what fits in the fields there.
LEMMA FieldsFit == Inv /\ TypeOK /\ [Next]_vars /\ Inv' => TypeOK'
<1> SUFFICES ASSUME Inv, TypeOK, [Next]_vars, Inv' PROVE TypeOK'
  OBVIOUS
<1>1. config \in Configuration /\ copied \in Configuration
  BY DEF TypeOK
<1>2. ASSUME config' \in Configuration, copied' \in Configuration
      PROVE  TypeOK'
  BY <1>2 DEF Inv, Types, TypeOK
<1>3. CASE initialize \/ destroy
  <2>1. config' = [config EXCEPT !.proc = <<>>] /\ copied' = copied
    BY <1>3 DEF initialize, destroy
  <2>2. <<>> \in Seq(Processor)
    OBVIOUS
  <2> QED BY <1>1, <1>2, <2>1, <2>2, ReplacedFits
<1>4. CASE QueryFails \/ Query \/ Scan \/ NextEntry \/ UNCHANGED vars
  <2>1. config' = config /\ copied' = copied
    BY <1>4 DEF QueryFails, Query, Scan, NextEntry, vars
  <2> QED BY <1>1, <1>2, <2>1
<1>5. CASE Emit
  BY <1>1, <1>2, <1>5, EmittedFits DEF Emit
<1>6. CASE AssignPackages
  BY <1>1, <1>2, <1>6, AssignedFits DEF AssignPackages
<1>7. CASE Finish
  <2>1. /\ buffer' \in Buffers /\ config' \in AnyConfiguration /\ pc' = "idle"
        /\ copied' = copied
    BY <1>7 DEF Inv, Types, Finish
  <2>2. CASE config'.proc # <<>>
    <3>1. PICK cl, pl \in Seq(Nat) : Describes(buffer', config', cl, pl)
      BY <2>1, <2>2 DEF Inv, Phases, Complete
    <3> QED BY <1>1, <1>2, <2>1, <3>1, DescribedFits
  <2>3. config'.proc # <<>>
    <3>1. PICK p : p \in UNION Cores(buffer)
      <4>1. buffer \in Buffers
        BY DEF Inv, Types
      <4>2. PICK i \in Places(buffer, "core") : TRUE
        BY <4>1, Buffer
      <4>3. PICK p : p \in Members(buffer[i])
        BY <4>1, <4>2, KeysDiffer DEF Kinds
      <4> QED BY <4>2, <4>3 DEF Cores
    <3>2. PICK i \in 1 .. Len(config.proc) : config.proc[i].mask = p
      BY <1>7, <3>1, AfterCores DEF Finish, AllThere
    <3>3. DOMAIN config.proc = 1 .. Len(config.proc)
      BY <1>1 DEF Configuration
    <3>4. i \in DOMAIN config'.proc
      BY <1>7, <3>2, <3>3 DEF Finish
    <3> QED BY <3>4
  <2> QED BY <2>2, <2>3
<1>8. CASE copy
  BY <1>1, <1>2, <1>8 DEF copy
<1> QED BY <1>3, <1>4, <1>5, <1>6, <1>7, <1>8 DEF Next

\* Every value stays in the range of its field, so the IDs and counts, which the code
\* computes in 32 bits and keeps in 32 and 16, are never cut off; the model computes them
\* in unbounded numbers (proc.hpp, lines 97-105 and 206-209).
THEOREM MachineTypeOK == Spec => []TypeOK
<1>1. Init => TypeOK
  <2> SUFFICES ASSUME Init PROVE TypeOK
    OBVIOUS
  <2>1. NoConfig \in Configuration
    <3>1. Undefined \in 0 .. Undefined /\ NoPackage \in 0 .. NoPackage
      BY BuffersAssumption
    <3> QED BY <3>1 DEF NoConfig, Configuration
  <2> QED BY <2>1 DEF Init, TypeOK
<1>2. Spec => [](Inv /\ TypeOK)
  BY <1>1, InitInv, NextInv, FieldsFit, PTL DEF Spec
<1> QED BY <1>2, PTL
=============================================================================
