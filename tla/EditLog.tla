------------------------------ MODULE EditLog ------------------------------
(***************************************************************************)
(* What the broker's canvas_ops batches promise: the batches of a client   *)
(* take effect in the order of their counts, each once and as a whole, on  *)
(* the items as they are at that moment.                                   *)
(***************************************************************************)
EXTENDS Naturals

CONSTANTS
    Clients,   \* client sessions
    Items,     \* item ids
    Requests,  \* the batches clients may send
    ClientOf,  \* the client of a batch
    CountOf,   \* its request_count
    Ops,       \* Ops[r][i]: what the batch r does to the item i
    Existing   \* the items the canvas has at first

\* An item's value is the set of batches that have made it what it is.
AbsentItem == [there |-> FALSE, val |-> {}]

VARIABLES
    db,       \* db[i]: the value of item i
    accepted  \* accepted[c]: the number of batches of c that took effect

Init ==
    /\ db = [i \in Items |-> [there |-> i \in Existing, val |-> {}]]
    /\ accepted = [c \in Clients |-> 0]

\* A batch that creates an item that is there, or patches one that is not, is
\* refused as a whole.
Valid(r) ==
    \A i \in Items : /\ Ops[r][i] = "create" => ~db[i].there
                     /\ Ops[r][i] = "patch" => db[i].there

Commit(r) ==
    /\ CountOf[r] = accepted[ClientOf[r]] + 1
    /\ Valid(r)
    /\ db' = [i \in Items |->
                CASE Ops[r][i] = "none"   -> db[i]
                  [] Ops[r][i] = "delete" -> AbsentItem
                  [] OTHER                -> [there |-> TRUE, val |-> db[i].val \cup {r}]]
    /\ accepted' = [accepted EXCEPT ![ClientOf[r]] = @ + 1]

Next == \E r \in Requests : Commit(r)

Spec == Init /\ [][Next]_<<db, accepted>>
=============================================================================
