--------------------------- MODULE MCStatSession ---------------------------
(***************************************************************************)
(* Small instances of StatSession for TLC, and what the repository says of *)
(* a session that the code does not keep.                                  *)
(***************************************************************************)
EXTENDS StatSession

CONSTANTS p, q, r   \* process identifiers

\* kpc_inject.c:9-10: "each descendant process accumulates and reports its own counters
\* independently": no report has to wait for another process of the tree.
ReportsIndependently == \A u \in Procs : state[u] = "leaving" ~> state[u] # "leaving"
=============================================================================
