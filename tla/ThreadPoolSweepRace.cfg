SPECIFICATION Spec
CONSTANTS
    Workers = {w1, w2}
    Nodes = {n1, n2}
    Main = Main
    NULL = NULL
    MaxSwept = 1
INVARIANTS
    QueueAccessSerialized
\* The pool stops once thpool_destroy has returned.
CHECK_DEADLOCK FALSE
