----------------------------- MODULE MCChatRoom -----------------------------
(* ChatRoom on a small instance.                                           *)
EXTENDS ChatRoom, TLC

CONSTANTS p1, p2, p3, p4, s1, s2, u1

\* The posts p1 and p4 are different messages with the same request id (the
\* first post with an id stands for the id).
MCKeyOf == p1 :> p1 @@ p2 :> p2 @@ p3 :> p3 @@ p4 :> p1
MCMentionsOf == p1 :> {u1} @@ p2 :> {} @@ p3 :> {} @@ p4 :> {}

\* The posts p2 and p3 differ in nothing.
MCSymmetry == Permutations(Servers) \cup Permutations({p2, p3})
=============================================================================
