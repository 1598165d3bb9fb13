--------------------------- MODULE MCGatewayTasks ---------------------------
(* The mixes of tasks for TLC: batches with a message in common, the same   *)
(* batch twice, a batch beside a verifier set rotation or a refund.         *)
EXTENDS GatewayTasks

Signed(kind, root, signers, items) ==
  [kind |-> kind, root |-> root, signers |-> signers,
   quorum |-> Cardinality(signers), items |-> items]

Overlap1 == Signed("messages", "r1", {"s1"}, {"m1", "m2"})
Overlap2 == Signed("messages", "r2", {"s1"}, {"m2"})
Batch    == Signed("messages", "r1", {"s1", "s2"}, {"m1"})
Rotation == Signed("rotation", "r3", {"s1", "s2"}, {"v"})
Refund   == Signed("refund", "none", {}, {})

TaskMixes == { <<Overlap1, Overlap2>>, <<Batch, Batch>>,
               <<Rotation, Refund>>, <<Refund, Overlap1>> }
=============================================================================
