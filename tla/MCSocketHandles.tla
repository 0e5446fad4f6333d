-------------------------- MODULE MCSocketHandles ---------------------------
(* SocketHandles for TLC: three descriptors shared by two threads. *)
EXTENDS SocketHandles

\* No property names a particular descriptor or thread.
Symm == Permutations(Fds) \cup Permutations(Threads)

=============================================================================
