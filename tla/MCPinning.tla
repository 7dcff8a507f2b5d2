----------------------------- MODULE MCPinning -----------------------------
(* One package in one group: two cores of two threads each.                 *)
EXTENDS Pinning

Core(bits) == [relationship |-> "core", groupMask |-> <<[group |-> 0, mask |-> bits]>>]
MCBuffers == {<<Core({0, 1}), Core({2, 3}),
                [relationship |-> "package",
                 groupMask |-> <<[group |-> 0, mask |-> 0 .. 3]>>]>>}
=============================================================================
