--------------------------- MODULE MCConnections ---------------------------
(* Connections for TLC. *)
EXTENDS Connections, TLC

\* Descriptors are interchangeable; slots are not, the table is searched in order.
FdSymmetry == Permutations(Fds)
=============================================================================
