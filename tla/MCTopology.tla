----------------------------- MODULE MCTopology -----------------------------
(* Three machines, each listed in every order: one package in one group, two  *)
(* packages in a group each, one package across two groups.                   *)
EXTENDS Topology

Core(g, bits) == [relationship |-> "core", groupMask |-> <<[group |-> g, mask |-> bits]>>]
Package(masks) == [relationship |-> "package", groupMask |-> masks]
In(g, bits) == [group |-> g, mask |-> bits]
Cache == [relationship |-> "cache", groupMask |-> <<>>]

OneGroup == {Core(0, {0, 1}), Core(0, {2}), Cache, Package(<<In(0, {0, 1, 2})>>)}
TwoPackages == {Core(0, {1}), Core(1, {1}), Package(<<In(0, {1})>>), Package(<<In(1, {1})>>)}
AcrossGroups == {Core(0, {0}), Core(0, {2}), Core(1, {0}),
                 Package(<<In(0, {0, 2}), In(1, {0})>>)}
MCBuffers == UNION {SetToSeqs(m) : m \in {OneGroup, TwoPackages, AcrossGroups}}
=============================================================================
