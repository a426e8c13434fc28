--------------------------- MODULE MCInjectDylib ---------------------------
(***************************************************************************)
(* Small instances of InjectDylib for TLC, and what the repository says of *)
(* the library that the code does not keep.                                *)
(***************************************************************************)
EXTENDS InjectDylib

CONSTANTS m, a, b   \* thread identifiers

\* kpc_inject.c:88-90: the handler decrements g_pending_signals "so the finalizer
\* knows when all threads have reported".  For a thread that is not ending: once no
\* signal is pending, what the thread had measured is in the sum.
AllReported ==
  \A f \in Threads : (pc[f] = "fin_write" /\ ~timed_out) =>
    \A u \in signalled : pc[u] \in {"dtor", "dtor_add", "dead"} \/ g_accumulated[u] >= due[u]

\* kpc_inject.c:280-281: finalizing is "idempotent ... so it is safe to call from both
\* the destructor and the _exit interpose": with two threads doing so, the process
\* still reports.
LeavingReports == (proc = "exited" /\ loaded = "yes" /\ forks = 0) => sent # <<>>

\* kpc_inject.c:135-137: after fork the child "writes an independent result message".
ForkChildReports == (proc = "exited" /\ loaded = "yes" /\ forks > 0) => sent # <<>>
=============================================================================
