----------------------------- MODULE RegionApi -----------------------------
(***************************************************************************)
(* The two ways for a program to call apmc_start_impl and apmc_stop_impl,  *)
(* which exist only when the inject library is loaded: apmc.h for C, with  *)
(* a plain pointer behind an atomic flag, and region.rs for Rust, with a   *)
(* OnceLock.  Both look the function up in the first call, which any       *)
(* number of threads may make at once.  What the functions do is in        *)
(* InjectDylib.                                                            *)
(***************************************************************************)
EXTENDS Integers

CONSTANTS
  Threads,
  None,
  MaxCalls      \* bound: calls of a thread

ASSUME RegionApiAssumption == MaxCalls \in Nat

VARIABLES
  api,        \* "apmc.h" or "region.rs"
  injected,   \* the library is loaded
  cell,       \* of each function: empty, busy (region.rs only) or done
  fn,         \* of each function: the implementation, or null
  pc, name,   \* of each thread: where it is, and in which function
  returned,   \* history: how often calls of each function have returned ...
  ran,        \* ... and its implementation has run
  calls,      \* bound: calls each thread has begun
  forked      \* bound: this is a child process

vars == <<api, injected, cell, fn, pc, name, returned, ran, calls, forked>>

Functions == {"start", "stop"}
Found == IF injected THEN "impl" ELSE "null"   \* dlsym(RTLD_DEFAULT, ...)

Init ==
  /\ api \in {"apmc.h", "region.rs"} /\ injected \in BOOLEAN
  /\ cell = [f \in Functions |-> "empty"] /\ fn = [f \in Functions |-> "null"]
  /\ pc = [t \in Threads |-> "idle"] /\ name = [t \in Threads |-> None]
  /\ returned = [f \in Functions |-> 0] /\ ran = [f \in Functions |-> 0]
  /\ calls = [t \in Threads |-> 0] /\ forked = FALSE

Goto(t, label) == pc' = [pc EXCEPT ![t] = label]

Enter(t) ==
  /\ pc[t] = "idle" /\ calls[t] < MaxCalls
  /\ \E f \in Functions : name' = [name EXCEPT ![t] = f]
  /\ Goto(t, "load") /\ calls' = [calls EXCEPT ![t] = @ + 1]
  /\ UNCHANGED <<api, injected, cell, fn, returned, ran, forked>>

\* Mutant: a cell that another thread is filling is taken for filled.
LoadBusy(t) ==
  /\ pc[t] = "load"
  /\ IF cell[name[t]] = "empty"
       THEN /\ Goto(t, "store")
            /\ cell' = IF api = "apmc.h" THEN cell ELSE [cell EXCEPT ![name[t]] = "busy"]
       ELSE Goto(t, "call") /\ UNCHANGED cell
  /\ UNCHANGED <<api, injected, fn, name, returned, ran, calls, forked>>

\* atomic_load of resolved, or get_or_init: one thread fills the cell, the others wait
\* for it.
Load(t) ==
  /\ pc[t] = "load" /\ cell[name[t]] # "busy"
  /\ IF cell[name[t]] = "empty"
       THEN /\ Goto(t, "store")
            /\ cell' = IF api = "apmc.h" THEN cell ELSE [cell EXCEPT ![name[t]] = "busy"]
       ELSE Goto(t, "call") /\ UNCHANGED cell
  /\ UNCHANGED <<api, injected, fn, name, returned, ran, calls, forked>>

\* Mutant: the cell is marked as filled only in the call that looks the function up, and is
\* left busy when there is none.
PublishFoundOnly(t) ==
  /\ pc[t] = "publish"
  /\ cell' = IF fn[name[t]] = "null" THEN cell ELSE [cell EXCEPT ![name[t]] = "done"]
  /\ Goto(t, "call")
  /\ UNCHANGED <<api, injected, fn, name, returned, ran, calls, forked>>

\* fn = dlsym(...).  In C another thread may be reading fn: a race, but the pointer is
\* aligned and gets the value that it has.
Store(t) ==
  /\ pc[t] = "store"
  /\ fn' = [fn EXCEPT ![name[t]] = Found]
  /\ Goto(t, "publish")
  /\ UNCHANGED <<api, injected, cell, name, returned, ran, calls, forked>>

\* atomic_store of resolved with release, or the end of get_or_init.
Publish(t) ==
  /\ pc[t] = "publish"
  /\ cell' = [cell EXCEPT ![name[t]] = "done"]
  /\ Goto(t, "call")
  /\ UNCHANGED <<api, injected, fn, name, returned, ran, calls, forked>>

Call(t) ==
  /\ pc[t] = "call"
  /\ ran' = IF fn[name[t]] = "null" THEN ran ELSE [ran EXCEPT ![name[t]] = @ + 1]
  /\ returned' = [returned EXCEPT ![name[t]] = @ + 1]
  /\ Goto(t, "idle") /\ name' = [name EXCEPT ![t] = None]
  /\ UNCHANGED <<api, injected, cell, fn, calls, forked>>

\* t forks, and from here on this is the child: the cells as they were, and no other thread.
Fork(t) ==
  /\ pc[t] = "idle" /\ ~forked
  /\ forked' = TRUE
  /\ pc' = [u \in Threads |-> IF u = t THEN "idle" ELSE "gone"]
  /\ UNCHANGED <<api, injected, cell, fn, name, returned, ran, calls>>

\* The thread that was filling the cell of f is one that the fork has left behind.
Abandoned(f) ==
  forked /\ cell[f] = "busy" /\ \A t \in Threads : name[t] = f => pc[t] \in {"gone", "load"}

Finished ==
  /\ \A t \in Threads :
       \/ pc[t] = "idle" /\ calls[t] = MaxCalls
       \/ pc[t] = "gone"
       \/ pc[t] = "load" /\ Abandoned(name[t])
  /\ UNCHANGED vars

Step(t) == Load(t) \/ Store(t) \/ Publish(t) \/ Call(t)

Next == (\E t \in Threads : Enter(t) \/ Step(t) \/ Fork(t)) \/ Finished

\* The kernel runs every thread.
Spec == Init /\ [][Next]_vars /\ \A t \in Threads : WF_vars(Step(t))

----------------------------------------------------------------------------
(* Properties.                                                             *)

TypeOK ==
  /\ api \in {"apmc.h", "region.rs"} /\ injected \in BOOLEAN /\ forked \in BOOLEAN
  /\ cell \in [Functions -> {"empty", "busy", "done"}]
  /\ fn \in [Functions -> {"null", "impl"}]
  /\ pc \in [Threads -> {"idle", "load", "store", "publish", "call", "gone"}]
  /\ name \in [Threads -> Functions \cup {None}]
  /\ returned \in [Functions -> Nat] /\ ran \in [Functions -> Nat]
  /\ calls \in [Threads -> 0 .. MaxCalls]

\* Every call of start or stop reaches the library exactly once when it is loaded, and does
\* nothing when it is not, whichever threads make the first call at the same time and
\* whatever a fork leaves of it (apmc.h:32-38, region.rs:42-57).
NoCallLost == \A f \in Functions : ran[f] = IF injected THEN returned[f] ELSE 0

\* Every call returns, unless a fork has left the thread behind that was about to fill the
\* OnceLock (region.rs:44, 54).
CallsReturn ==
  \A t \in Threads :
    pc[t] = "load" ~> (pc[t] \in {"idle", "gone"} \/ (pc[t] = "load" /\ Abandoned(name[t])))
=============================================================================
