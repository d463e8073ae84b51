----------------------------- MODULE MCConversations -----------------------------
(* Two users' questions in two threads. *)
EXTENDS Conversations, TLC

CONSTANTS k1, k2, t1, t2

Symmetric == Permutations(Askers) \cup Permutations(Threads)
=============================================================================
