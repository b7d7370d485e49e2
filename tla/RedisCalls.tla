----------------------------- MODULE RedisCalls -----------------------------
(***************************************************************************)
(* What a RedisClient promises its only caller, whatever happens to the    *)
(* connection, to Sentinel and to the Redis nodes: a command is executed   *)
(* at most once; an answer is the answer to the command it is returned     *)
(* for, and was given after its execution; an error means that it has not  *)
(* been and will not be executed.  A call without an answer says nothing:  *)
(* its command may have been executed, or be executed later, or never.     *)
(***************************************************************************)
CONSTANTS
    Calls,   \* the commands a caller may execute
    NoCall   \* no call, no answer

VARIABLES
    call,      \* the command being executed for the caller, or NoCall
    open,      \* the commands that may still be executed
    executed,  \* the commands that have been executed
    answer     \* what the last call returned; NoCall is std::nullopt

Init ==
    /\ call = NoCall
    /\ open = {}
    /\ executed = {}
    /\ answer = NoCall

Issue(c) ==
    /\ call = NoCall
    /\ c \notin open
    /\ call' = c
    /\ open' = open \cup {c}
    /\ executed' = executed \ {c}
    /\ answer' = NoCall

Execute(c) ==
    /\ c \in open
    /\ open' = open \ {c}
    /\ executed' = executed \cup {c}
    /\ UNCHANGED <<call, answer>>

Drop(C) ==
    /\ open' = open \ C
    /\ UNCHANGED <<call, executed, answer>>

\* The call returns, and may give its command up in the same step.
Return(a) ==
    /\ call # NoCall
    /\ a \in {"value", "nil"} => call \in executed
    /\ a = "error" => call \notin executed \cup open
    /\ call' = NoCall
    /\ answer' = a
    /\ open' \in {open, open \ {call}}
    /\ UNCHANGED executed

Next ==
    \/ \E c \in Calls : Issue(c) \/ Execute(c)
    \/ \E C \in SUBSET Calls : Drop(C)
    \/ \E a \in {NoCall, "value", "nil", "error"} : Return(a)

Spec == Init /\ [][Next]_<<call, open, executed, answer>>
=============================================================================
