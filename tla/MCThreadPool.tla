---------------------------- MODULE MCThreadPool ----------------------------
(* ThreadPool for TLC. *)
EXTENDS ThreadPool, TLC

\* Threads and heap addresses are interchangeable.
ThreadPoolSymmetry == Permutations(Workers) \cup Permutations(Nodes)
=============================================================================
