--------------------------- MODULE MCBrokerBatch ---------------------------
(***************************************************************************)
(* Two clients and two items, x there and y not.  The client a sends a     *)
(* patch of x and a create of y as one batch, and may send a patch of x    *)
(* alone under the same count; then it deletes both.  The client b patches *)
(* x, then deletes it.                                                     *)
(***************************************************************************)
EXTENDS BrokerBatch, TLC

MCRequests == {"a1", "a1x", "a2", "b1", "b2"}
MCFewRequests == {"a1", "a1x", "a2"}
MCClientOf == [r \in Requests |-> IF r \in {"b1", "b2"} THEN "b" ELSE "a"]
MCCountOf == [r \in Requests |-> IF r \in {"a2", "b2"} THEN 2 ELSE 1]
MCOps ==
    [r \in Requests |->
        CASE r = "a1"  -> [x |-> "patch", y |-> "create"]
          [] r = "a1x" -> [x |-> "patch", y |-> "none"]
          [] r = "a2"  -> [x |-> "delete", y |-> "delete"]
          [] r = "b1"  -> [x |-> "patch", y |-> "none"]
          [] r = "b2"  -> [x |-> "delete", y |-> "none"]]
MCSymmetry == Permutations(Servers)
=============================================================================
