----------------------------- MODULE MCRequests -----------------------------
(* Requests for TLC. *)
EXTENDS Requests, TLC

\* Descriptors and clients are interchangeable; slots are not, the table is searched in order.
RequestsSymmetry == Permutations(Fds) \cup Permutations(Clients)
=============================================================================
