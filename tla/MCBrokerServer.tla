--------------------------- MODULE MCBrokerServer ---------------------------
(* BrokerServer on a small instance.                                       *)
EXTENDS BrokerServer

CONSTANTS r1, r2, c1, c2, w1, w2, other

MCConnOf == [r \in Requests |-> IF r = r1 THEN c1 ELSE c2]
MCSizeOf == [r \in Requests |-> IF r = r1 THEN 2 ELSE 1]
=============================================================================
