----------------------------- MODULE MCSqlPool -----------------------------
(* SqlPool for TLC. *)
EXTENDS SqlPool, TLC

\* Workers are interchangeable; nodes are tried in a circle.
WorkerSymmetry == Permutations(Workers)
=============================================================================
