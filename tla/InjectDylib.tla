---------------------------- MODULE InjectDylib ----------------------------
(***************************************************************************)
(* The injected library (inject/kpc_inject.c) in one process: its slot     *)
(* array, the thread hook, the TLS destructor, the SIGUSR2 handler, region *)
(* start and stop, the fork handler and the finalizer, interleaved at      *)
(* every shared access and at every point where a signal may interrupt.    *)
(*                                                                         *)
(* A thread runs its base code (pc[t]) except while a SIGUSR2 handler runs *)
(* on top of it (handler[t] # "idle").  Consecutive accesses that only the *)
(* same thread can observe are one step.                                   *)
(*                                                                         *)
(* The per-counter loops are one counter: every index is treated alike.    *)
(* The atomic sum g_accumulated is kept as its summands, one per thread    *)
(* that added to it, so that what each thread contributed can be seen.     *)
(***************************************************************************)
EXTENDS Integers, Sequences, FiniteSets

CONSTANTS
  Threads,            \* the threads the program may create
  Main,               \* the thread that loads the library
  MAX_THREAD_SLOTS,   \* size of g_slots
  INT_MAX,            \* largest value of the C int g_next_slot
  RegionMode,         \* g_region_mode: APMC_REGION_MODE is set
  Exiters,            \* threads from which the program calls exit or _exit
  Forkers,            \* threads from which the program calls fork
  MaxTaken,           \* bound: no slot is asked for once g_next_slot is this;
                      \* beyond INT_MAX, the counter is followed as it wraps
  MaxWork,            \* bound: units of work per thread
  MaxForks            \* bound: generations of fork children followed

ASSUME ThreadsAssumption ==
  /\ IsFiniteSet(Threads)
  /\ Main \in Threads
  /\ Exiters \subseteq Threads
  /\ Forkers \subseteq Threads

ASSUME BoundsAssumption ==
  /\ MAX_THREAD_SLOTS \in Nat \ {0}
  /\ INT_MAX \in Nat
  /\ MAX_THREAD_SLOTS <= INT_MAX
  /\ RegionMode \in BOOLEAN
  /\ MaxTaken \in Nat
  /\ MaxWork \in Nat
  /\ MaxForks \in Nat

VARIABLES
  proc,              \* the process: loading, running, exited, crashed or killed
  loaded,            \* how far kpc_inject_initialize came (see Initialize)
  pc,                \* pc[t]: where t is in its base code
  handler,           \* handler[t]: where t is in collect_handler
  via,               \* via[t]: through which function t is leaving
  hw,                \* hw[t]: what kpc_get_thread_counters(0) reads in t
  t_my_slot,         \* the __thread slot index, -1 if not tracked
  tls_key,           \* the g_tls_key value of t: slot + 1, or 0 (NULL)
  sigusr2,           \* threads with a SIGUSR2 pending
  slot_state,        \* g_slots[s].state
  slot_start,        \* g_slots[s].start
  g_next_slot,
  g_accumulated,     \* g_accumulated[t]: what t has added to the sum
  g_pending_signals,
  g_finalized,
  thread_list,       \* finalizer: the threads still to be signalled
  sent,              \* messages this process has written to the pipe
  forks,             \* number of forks followed
  signalled,         \* history: threads the finalizer sent SIGUSR2 to
  due,               \* history: due[t], t's work when its handler ran, or -1
  timed_out          \* history: the finalizer gave up waiting

slots == <<slot_state, slot_start, g_next_slot, t_my_slot, tls_key>>
counts == <<g_accumulated, hw>>
teardown == <<g_pending_signals, g_finalized, thread_list, sigusr2, sent, via>>
history == <<signalled, due, timed_out>>
vars == <<proc, loaded, pc, handler, slots, counts, teardown, history, forks>>

Slots == 0 .. MAX_THREAD_SLOTS - 1
CInt == -INT_MAX - 1 .. INT_MAX                        \* an int
SlotIndices == -INT_MAX - 1 .. MAX_THREAD_SLOTS - 1    \* a t_my_slot
KeyValues == -INT_MAX .. MAX_THREAD_SLOTS              \* a g_tls_key value

FinPCs == {"finalize", "fin_collect", "fin_add", "fin_enum", "fin_count",
           "fin_signal", "fin_wait", "fin_write", "returned"}
AddPCs == {"stop_add", "dtor_add", "fin_add"}
PCs == {"none", "hook", "hook_snapshot", "hook_activate", "user",
        "start_snapshot", "start_activate", "dtor", "dead"} \cup AddPCs \cup FinPCs

\* The mach thread exists: task_threads lists it and its pthread_t resolves.
Exists(t) == pc[t] \notin {"none", "dead"}

\* Base code of t may step: no handler is running on top of it.
AtPC(t, l) == proc = "running" /\ pc[t] = l /\ handler[t] = "idle"

Goto(t, l) == pc' = [pc EXCEPT ![t] = l]

Init ==
  /\ proc = "loading" /\ loaded = "no"
  /\ pc = [t \in Threads |-> IF t = Main THEN "user" ELSE "none"]
  /\ handler = [t \in Threads |-> "idle"]
  /\ via = [t \in Threads |-> "none"]
  /\ hw = [t \in Threads |-> 0]
  /\ t_my_slot = [t \in Threads |-> -1]
  /\ tls_key = [t \in Threads |-> 0]
  /\ sigusr2 = {}
  /\ slot_state = [s \in Slots |-> "FREE"]
  /\ slot_start = [s \in Slots |-> 0]
  /\ g_next_slot = 0
  /\ g_accumulated = [t \in Threads |-> 0]
  /\ g_pending_signals = 0 /\ g_finalized = FALSE
  /\ thread_list = {} /\ sent = <<>> /\ forks = 0
  /\ signalled = {} /\ due = [t \in Threads |-> -1] /\ timed_out = FALSE

----------------------------------------------------------------------------
(* Slots.                                                                  *)

\* Mutant: the increment is lost.
NextIntLost(n) == n

\* atomic_fetch_add on the C int: it wraps.
NextInt(n) == IF n = INT_MAX THEN -INT_MAX - 1 ELSE n + 1

\* Mutant: one slot too many.
HasSlotOffByOne(slot) == slot <= MAX_THREAD_SLOTS

HasSlot(slot) == slot < MAX_THREAD_SLOTS

\* The start snapshot of the calling thread.
Snapshot(t, slot) == slot_start' = [slot_start EXCEPT ![slot] = hw[t]]

\* Mutant: a slot is collected whatever its state.
CanCollectAgain(slot) == slot \in Slots

\* collect_slot: the bounds check, and the CAS from SLOT_ACTIVE.
CanCollect(slot) == slot \in Slots /\ slot_state[slot] = "ACTIVE"
MarkCollected(slot) == slot_state' = [slot_state EXCEPT ![slot] = "COLLECTED"]

\* collect_slot after the CAS: the delta of the calling thread's counter.
Accumulate(t, slot) ==
  g_accumulated' = [g_accumulated EXCEPT ![t] = @ + (hw[t] - slot_start[slot])]

----------------------------------------------------------------------------
(* The program and its threads.                                            *)

\* kpc_inject_initialize runs before main.  Without KPC_RESULT_FD, kperf or
\* kpc_get_thread_counters it returns and the library stays inert ("no").  With only
\* kpc_get_counter_count missing it returns with g_get_thread_counters set, and with
\* neither key, hook, SIGUSR2 handler, fork handler nor counters ("partly"): what such
\* a library still does is finalize.  (Region starts and stops then move slots that
\* hold no value, g_total_counters being 0, and are left out.)
Initialize ==
  /\ proc = "loading"
  /\ proc' = "running"
  /\ loaded' \in {"no", "partly", "yes"}
  /\ IF loaded' = "yes" /\ ~RegionMode
       THEN /\ g_next_slot' = NextInt(g_next_slot)
            /\ t_my_slot' = [t_my_slot EXCEPT ![Main] = g_next_slot]
            /\ tls_key' = [tls_key EXCEPT ![Main] = g_next_slot + 1]
            /\ Snapshot(Main, g_next_slot)
            /\ slot_state' = [slot_state EXCEPT ![g_next_slot] = "ACTIVE"]
       ELSE UNCHANGED slots
  /\ UNCHANGED <<pc, handler, counts, teardown, history, forks>>

\* Mutant: the test of g_region_mode in thread_hook is inverted.
ThreadCreateInverted(t) ==
  /\ \E c \in Threads : AtPC(c, "user")
  /\ pc[t] = "none"
  /\ Goto(t, IF loaded = "yes" /\ RegionMode THEN "hook" ELSE "user")
  /\ UNCHANGED <<proc, loaded, handler, slots, counts, teardown, history, forks>>

\* pthread_create.  The hook is installed only when fully loaded, and only forwards
\* the event in region mode.
ThreadCreate(t) ==
  /\ \E c \in Threads : AtPC(c, "user")
  /\ pc[t] = "none"
  /\ Goto(t, IF loaded = "yes" /\ ~RegionMode THEN "hook" ELSE "user")
  /\ UNCHANGED <<proc, loaded, handler, slots, counts, teardown, history, forks>>

\* thread_hook, PTHREAD_INTROSPECTION_THREAD_START: allocate a slot.
HookAlloc(t) ==
  /\ AtPC(t, "hook") /\ g_next_slot < MaxTaken
  /\ g_next_slot' = NextInt(g_next_slot)
  /\ IF HasSlot(g_next_slot)
       THEN t_my_slot' = [t_my_slot EXCEPT ![t] = g_next_slot] /\ Goto(t, "hook_snapshot")
       ELSE Goto(t, "user") /\ UNCHANGED t_my_slot
  /\ UNCHANGED <<proc, loaded, handler, tls_key, slot_state, slot_start,
                 counts, teardown, history, forks>>

\* A slot index outside g_slots is an access outside the array: the process dies.
SnapshotAt(t, from, to) ==
  /\ AtPC(t, from)
  /\ IF t_my_slot[t] \in Slots
       THEN Snapshot(t, t_my_slot[t]) /\ Goto(t, to) /\ UNCHANGED proc
       ELSE proc' = "crashed" /\ UNCHANGED <<slot_start, pc>>
  /\ UNCHANGED <<loaded, handler, g_next_slot, t_my_slot, tls_key, slot_state,
                 counts, teardown, history, forks>>

HookSnapshot(t) == SnapshotAt(t, "hook_snapshot", "hook_activate")

HookActivate(t) ==
  /\ AtPC(t, "hook_activate")
  /\ slot_state' = [slot_state EXCEPT ![t_my_slot[t]] = "ACTIVE"]
  /\ tls_key' = [tls_key EXCEPT ![t] = t_my_slot[t] + 1]
  /\ Goto(t, "user")
  /\ UNCHANGED <<proc, loaded, handler, g_next_slot, t_my_slot, slot_start,
                 counts, teardown, history, forks>>

\* The program computes: the thread's hardware counter advances.
Work(t) ==
  /\ AtPC(t, "user")
  /\ hw[t] < MaxWork
  /\ hw' = [hw EXCEPT ![t] = @ + 1]
  /\ UNCHANGED <<proc, loaded, pc, handler, slots, g_accumulated, teardown, history, forks>>

----------------------------------------------------------------------------
(* Region mode: apmc_start_impl and apmc_stop_impl.                        *)

ApmcStart(t) ==
  /\ AtPC(t, "user") /\ loaded = "yes" /\ RegionMode
  /\ \/ /\ t_my_slot[t] >= 0
        /\ Goto(t, "start_snapshot")
        /\ UNCHANGED <<g_next_slot, t_my_slot, tls_key>>
     \/ /\ t_my_slot[t] < 0 /\ g_next_slot < MaxTaken
        /\ g_next_slot' = NextInt(g_next_slot)
        /\ IF HasSlot(g_next_slot)
             THEN /\ t_my_slot' = [t_my_slot EXCEPT ![t] = g_next_slot]
                  /\ tls_key' = [tls_key EXCEPT ![t] = g_next_slot + 1]
                  /\ Goto(t, "start_snapshot")
             ELSE UNCHANGED <<pc, t_my_slot, tls_key>>
  /\ UNCHANGED <<proc, loaded, handler, slot_state, slot_start,
                 counts, teardown, history, forks>>

StartSnapshot(t) == SnapshotAt(t, "start_snapshot", "start_activate")

StartActivate(t) ==
  /\ AtPC(t, "start_activate")
  /\ slot_state' = [slot_state EXCEPT ![t_my_slot[t]] = "ACTIVE"]
  /\ Goto(t, "user")
  /\ UNCHANGED <<proc, loaded, handler, g_next_slot, t_my_slot, tls_key, slot_start,
                 counts, teardown, history, forks>>

\* A stop whose CAS fails changes nothing.
ApmcStop(t) ==
  /\ AtPC(t, "user") /\ loaded = "yes" /\ RegionMode
  /\ CanCollect(t_my_slot[t])
  /\ MarkCollected(t_my_slot[t])
  /\ Goto(t, "stop_add")
  /\ UNCHANGED <<proc, loaded, handler, g_next_slot, t_my_slot, tls_key, slot_start,
                 counts, teardown, history, forks>>

----------------------------------------------------------------------------
(* A thread ends: tls_destructor.                                          *)

\* The main thread, and the last one, leave the process instead.  A NULL key runs
\* no destructor.
ThreadExit(t) ==
  /\ AtPC(t, "user") /\ t # Main /\ \E u \in Threads \ {t} : Exists(u)
  /\ Goto(t, IF tls_key[t] # 0 THEN "dtor" ELSE "dead")
  /\ UNCHANGED <<proc, loaded, handler, slots, counts, teardown, history, forks>>

\* collect_slot up to the CAS, on the slot the base code of t passes to it.
CollectAt(t, from, slot, won, lost) ==
  /\ AtPC(t, from)
  /\ \/ CanCollect(slot) /\ MarkCollected(slot) /\ Goto(t, won)
     \/ ~CanCollect(slot) /\ Goto(t, lost) /\ UNCHANGED slot_state
  /\ UNCHANGED <<proc, loaded, handler, g_next_slot, t_my_slot, tls_key, slot_start,
                 counts, teardown, history, forks>>

AddAt(t, from, slot, to) ==
  /\ AtPC(t, from)
  /\ Accumulate(t, slot)
  /\ Goto(t, to)
  /\ UNCHANGED <<proc, loaded, handler, slots, hw, teardown, history, forks>>

StopAdd(t) == AddAt(t, "stop_add", t_my_slot[t], "user")

\* Mutant: the destructor takes the key for the slot.
DestructorOffByOne(t) == CollectAt(t, "dtor", tls_key[t], "dtor_add", "dead")

Destructor(t) == CollectAt(t, "dtor", tls_key[t] - 1, "dtor_add", "dead")

DestructorAdd(t) == AddAt(t, "dtor_add", tls_key[t] - 1, "dead")

----------------------------------------------------------------------------
(* collect_handler, on top of whatever its thread was doing.               *)

\* Work of t that is measured and in the sum, being added, or still open.
Adding(t) ==
  IF handler[t] = "add" \/ pc[t] \in AddPCs
    THEN hw[t] - slot_start[t_my_slot[t]] ELSE 0
Measured(t) ==
  IF Exists(t) /\ CanCollect(t_my_slot[t]) THEN hw[t] - slot_start[t_my_slot[t]] ELSE 0
Owed(t) == g_accumulated[t] + Adding(t) + Measured(t)

\* t_my_slot as the handler reads it: -1 once the TLS block is torn down.
HandlerSlots(t) == {t_my_slot[t]} \cup (IF pc[t] = "dtor" THEN {-1} ELSE {})

Deliver(t) ==
  /\ proc = "running" /\ loaded = "yes"
  /\ t \in sigusr2 /\ Exists(t) /\ handler[t] = "idle"
  /\ sigusr2' = sigusr2 \ {t}
  /\ due' = [due EXCEPT ![t] = Owed(t)]
  /\ \E slot \in HandlerSlots(t) :
       \/ /\ CanCollect(slot)
          /\ MarkCollected(slot)
          /\ handler' = [handler EXCEPT ![t] = "add"]
       \/ /\ ~CanCollect(slot)
          /\ handler' = [handler EXCEPT ![t] = "dec"]
          /\ UNCHANGED slot_state
  /\ UNCHANGED <<proc, loaded, pc, g_next_slot, t_my_slot, tls_key, slot_start, counts,
                 g_pending_signals, g_finalized, thread_list, sent, via,
                 signalled, timed_out, forks>>

\* Without its handler, SIGUSR2 terminates the process.
SignalKills(t) ==
  /\ proc = "running" /\ loaded = "partly"
  /\ t \in sigusr2 /\ Exists(t)
  /\ proc' = "killed"
  /\ UNCHANGED <<loaded, pc, handler, slots, counts, teardown, history, forks>>

HandlerAdd(t) ==
  /\ proc = "running" /\ handler[t] = "add"
  /\ Accumulate(t, t_my_slot[t])
  /\ handler' = [handler EXCEPT ![t] = "dec"]
  /\ UNCHANGED <<proc, loaded, pc, slots, hw, teardown, history, forks>>

HandlerDec(t) ==
  /\ proc = "running" /\ handler[t] = "dec"
  /\ g_pending_signals' = g_pending_signals - 1
  /\ handler' = [handler EXCEPT ![t] = "idle"]
  /\ UNCHANGED <<proc, loaded, pc, slots, counts, g_finalized, thread_list, sigusr2,
                 sent, via, history, forks>>

----------------------------------------------------------------------------
(* Leaving the process: kpc_inject_finalize, from the library's destructor *)
(* (exit) and from the interposed _exit.                                   *)

CallExit(t) ==
  /\ AtPC(t, "user") /\ t \in Exiters
  /\ Goto(t, "finalize")
  /\ \E f \in {"exit", "_exit"} : via' = [via EXCEPT ![t] = f]
  /\ UNCHANGED <<proc, loaded, handler, slots, counts, history, forks,
                 g_pending_signals, g_finalized, thread_list, sigusr2, sent>>

\* Mutant: g_finalized is set but not tested.
FinalizeEnterAgain(t) ==
  /\ AtPC(t, "finalize")
  /\ g_finalized' = TRUE
  /\ Goto(t, IF loaded = "no" THEN "returned" ELSE "fin_collect")
  /\ UNCHANGED <<proc, loaded, handler, slots, counts, history, forks,
                 g_pending_signals, thread_list, sigusr2, sent, via>>

\* The atomic exchange on g_finalized, and the early returns.
FinalizeEnter(t) ==
  /\ AtPC(t, "finalize")
  /\ g_finalized' = TRUE
  /\ Goto(t, IF g_finalized \/ loaded = "no" THEN "returned" ELSE "fin_collect")
  /\ UNCHANGED <<proc, loaded, handler, slots, counts, history, forks,
                 g_pending_signals, thread_list, sigusr2, sent, via>>

FinCollect(t) == CollectAt(t, "fin_collect", t_my_slot[t], "fin_add", "fin_enum")

FinAdd(t) == AddAt(t, "fin_add", t_my_slot[t], "fin_enum")

\* task_threads: the live threads, or a failure that skips the signalling.
FinEnumerate(t) ==
  /\ AtPC(t, "fin_enum")
  /\ \/ /\ thread_list' = {u \in Threads : Exists(u)} \ {t}
        /\ Goto(t, "fin_count")
     \/ UNCHANGED thread_list /\ Goto(t, "fin_write")
  /\ UNCHANGED <<proc, loaded, handler, slots, counts, history, forks,
                 g_pending_signals, g_finalized, sigusr2, sent, via>>

\* The first loop counts the listed threads that still exist.
FinCount(t) ==
  /\ AtPC(t, "fin_count")
  /\ LET threads_to_signal == Cardinality({u \in thread_list : Exists(u)}) IN
       IF threads_to_signal > 0
         THEN g_pending_signals' = threads_to_signal /\ Goto(t, "fin_signal")
         ELSE UNCHANGED g_pending_signals /\ Goto(t, "fin_write")
  /\ UNCHANGED <<proc, loaded, handler, slots, counts, history, forks,
                 g_finalized, thread_list, sigusr2, sent, via>>

\* The second loop looks each of them up again; one that ended is passed over.
FinSignal(t) ==
  /\ AtPC(t, "fin_signal")
  /\ \/ \E u \in thread_list :
          /\ thread_list' = thread_list \ {u}
          /\ IF Exists(u)
               THEN sigusr2' = sigusr2 \cup {u} /\ signalled' = signalled \cup {u}
               ELSE UNCHANGED <<sigusr2, signalled>>
          /\ UNCHANGED pc
     \/ /\ thread_list = {}
        /\ Goto(t, "fin_wait")
        /\ UNCHANGED <<thread_list, sigusr2, signalled>>
  /\ UNCHANGED <<proc, loaded, handler, slots, counts, forks, due, timed_out,
                 g_pending_signals, g_finalized, sent, via>>

\* Mutant: the loop ends with one signal still pending.
FinWaitDoneEarly(t) ==
  /\ AtPC(t, "fin_wait")
  /\ g_pending_signals <= 1
  /\ Goto(t, "fin_write")
  /\ UNCHANGED <<proc, loaded, handler, slots, counts, teardown, history, forks>>

\* The polling loop ends when no signal is pending ...
FinWaitDone(t) ==
  /\ AtPC(t, "fin_wait")
  /\ g_pending_signals <= 0
  /\ Goto(t, "fin_write")
  /\ UNCHANGED <<proc, loaded, handler, slots, counts, teardown, history, forks>>

\* Mutant: the number of attempts is not bounded.
FinTimeoutNever(t) ==
  /\ AtPC(t, "fin_wait")
  /\ g_pending_signals > 0
  /\ UNCHANGED vars

\* ... or after 1000 attempts, 100 microseconds apart.
FinTimeout(t) ==
  /\ AtPC(t, "fin_wait")
  /\ g_pending_signals > 0
  /\ timed_out' = TRUE
  /\ Goto(t, "fin_write")
  /\ UNCHANGED <<proc, loaded, handler, slots, counts, teardown, signalled, due, forks>>

\* Load the totals, write one message, close the pipe.  The write blocks while the
\* pipe is full (StatSession has the pipe), so nothing makes this step happen.
FinWrite(t) ==
  /\ AtPC(t, "fin_write")
  /\ sent' = Append(sent, g_accumulated)
  /\ Goto(t, "returned")
  /\ UNCHANGED <<proc, loaded, handler, slots, counts, history, forks,
                 g_pending_signals, g_finalized, thread_list, sigusr2, via>>

\* exit() ends in _exit, which is interposed and finalizes again; the wrapper of
\* _exit reaches the real one, which ends the process whatever others are doing.
Leave(t) ==
  /\ AtPC(t, "returned")
  /\ \/ /\ via[t] = "exit"
        /\ via' = [via EXCEPT ![t] = "_exit"]
        /\ Goto(t, "finalize")
        /\ UNCHANGED proc
     \/ /\ via[t] = "_exit"
        /\ proc' = "exited"
        /\ UNCHANGED <<pc, via>>
  /\ UNCHANGED <<loaded, handler, slots, counts, history, forks,
                 g_pending_signals, g_finalized, thread_list, sigusr2, sent>>

----------------------------------------------------------------------------
(* fork.  Nothing changes in the parent; a behaviour that takes this step  *)
(* goes on as the child, whose only thread is the one that called fork.    *)
(* The child has written nothing yet, and runs atfork_child, which a fully *)
(* loaded library has registered, before fork returns in it.               *)

\* Mutant: the loop over the inherited slots stops one short.
InheritedSlotsButLast == {s \in Slots : s < g_next_slot - 1}

InheritedSlots == {s \in Slots : s < g_next_slot}

AtforkChild(t) ==
  IF loaded # "yes"
    THEN /\ t_my_slot' = [u \in Threads |-> IF u = t THEN t_my_slot[u] ELSE -1]
         /\ tls_key' = [u \in Threads |-> IF u = t THEN tls_key[u] ELSE 0]
         /\ UNCHANGED <<slot_state, slot_start, g_next_slot, g_accumulated, g_pending_signals>>
    ELSE /\ g_accumulated' = [u \in Threads |-> 0]
         /\ g_pending_signals' = 0
         /\ LET marked == [s \in Slots |-> IF s \in InheritedSlots THEN "COLLECTED"
                                           ELSE slot_state[s]] IN
            IF RegionMode
              THEN /\ g_next_slot' = 0
                   /\ t_my_slot' = [u \in Threads |-> -1]
                   /\ tls_key' = [u \in Threads |-> 0]
                   /\ slot_state' = marked
                   /\ UNCHANGED slot_start
              ELSE /\ g_next_slot' = 1
                   /\ t_my_slot' = [u \in Threads |-> IF u = t THEN 0 ELSE -1]
                   /\ tls_key' = [u \in Threads |-> IF u = t THEN 1 ELSE 0]
                   /\ slot_state' = [marked EXCEPT ![0] = "ACTIVE"]
                   /\ Snapshot(t, 0)

ForkChild(t) ==
  /\ AtPC(t, "user") /\ t \in Forkers /\ forks < MaxForks
  /\ forks' = forks + 1
  /\ pc' = [u \in Threads |-> IF u = t THEN "user" ELSE "none"]
  /\ handler' = [u \in Threads |-> "idle"]
  /\ AtforkChild(t)
  /\ sigusr2' = {} /\ thread_list' = {} /\ sent' = <<>>
  /\ via' = [u \in Threads |-> "none"]
  /\ signalled' = {} /\ due' = [u \in Threads |-> -1] /\ timed_out' = FALSE
  /\ UNCHANGED <<proc, loaded, hw, g_finalized>>

----------------------------------------------------------------------------
Terminated == proc \in {"exited", "crashed", "killed"} /\ UNCHANGED vars

HandlerStep(t) == Deliver(t) \/ HandlerAdd(t) \/ HandlerDec(t) \/ SignalKills(t)

\* The steps of a leaving thread that wait for nothing outside the process.
FinalizeUnblocked(t) ==
  \/ FinalizeEnter(t) \/ FinCollect(t) \/ FinAdd(t) \/ FinEnumerate(t)
  \/ FinCount(t) \/ FinSignal(t) \/ FinWaitDone(t) \/ FinTimeout(t)
  \/ Leave(t)

FinalizeStep(t) == FinalizeUnblocked(t) \/ FinWrite(t)

ThreadStep(t) ==
  \/ ThreadCreate(t) \/ HookAlloc(t) \/ HookSnapshot(t) \/ HookActivate(t)
  \/ Work(t) \/ ApmcStart(t) \/ StartSnapshot(t) \/ StartActivate(t)
  \/ ApmcStop(t) \/ StopAdd(t)
  \/ ThreadExit(t) \/ Destructor(t) \/ DestructorAdd(t)
  \/ CallExit(t) \/ ForkChild(t)

Next ==
  \/ Initialize
  \/ \E t \in Threads : ThreadStep(t) \/ HandlerStep(t) \/ FinalizeStep(t)
  \/ Terminated

Spec == Init /\ [][Next]_vars

\* The kernel keeps scheduling a thread that is leaving, and a handler that has
\* started.  Delivery is not fair, since the program may block SIGUSR2; nor is the
\* write, since apmc may never make room in the pipe.
FairSpec ==
  /\ Spec
  /\ \A t \in Threads :
       WF_vars(FinalizeUnblocked(t)) /\ WF_vars(HandlerAdd(t) \/ HandlerDec(t))

----------------------------------------------------------------------------
(* Properties.                                                             *)

TypeOK ==
  /\ proc \in {"loading", "running", "exited", "crashed", "killed"}
  /\ loaded \in {"no", "partly", "yes"}
  /\ pc \in [Threads -> PCs]
  /\ handler \in [Threads -> {"idle", "add", "dec"}]
  /\ via \in [Threads -> {"none", "exit", "_exit"}]
  /\ hw \in [Threads -> Nat]
  /\ t_my_slot \in [Threads -> SlotIndices]
  /\ tls_key \in [Threads -> KeyValues]
  /\ sigusr2 \subseteq Threads
  /\ slot_state \in [Slots -> {"FREE", "ACTIVE", "COLLECTED"}]
  /\ slot_start \in [Slots -> Nat]
  /\ g_next_slot \in CInt
  /\ g_accumulated \in [Threads -> Int]
  /\ g_pending_signals \in Int
  /\ g_finalized \in BOOLEAN
  /\ thread_list \subseteq Threads
  /\ sent \in Seq([Threads -> Int])
  /\ forks \in Nat
  /\ signalled \subseteq Threads
  /\ due \in [Threads -> Int]
  /\ timed_out \in BOOLEAN

\* No two threads that exist ever share an entry of g_slots, across hooks, region
\* starts and forks: the owner of a slot is the only thread that writes its start
\* snapshot (kpc_inject.c:253-255 relies on it to re-activate without a CAS).
SlotsDisjoint ==
  \A t, u \in Threads :
    (t # u /\ Exists(t) /\ Exists(u) /\ t_my_slot[t] \in Slots) => t_my_slot[t] # t_my_slot[u]

\* A slot that holds an open measurement belongs to a thread that still exists and
\* whose destructor will find it: a thread never ends, and a fork never leaves a
\* slot, with work that nobody can collect any more.
NoOrphanSlot ==
  \A s \in Slots : slot_state[s] = "ACTIVE" =>
    \E t \in Threads :
      /\ Exists(t) /\ t_my_slot[t] = s
      /\ t = Main \/ pc[t] = "start_snapshot" \/ pc[t] = "start_activate" \/ tls_key[t] = s + 1

\* In normal mode a thread runs uncounted only after MAX_THREAD_SLOTS slots have
\* been given out.
UntrackedOnlyWhenFull ==
  \A t \in Threads :
    (loaded = "yes" /\ ~RegionMode /\ proc = "running" /\ pc[t] = "user" /\ t_my_slot[t] = -1)
      => g_next_slot >= MAX_THREAD_SLOTS

\* When the finalizer stops waiting because no signal is pending, every thread it
\* signalled has run its handler to the end.  What that thread had measured when the
\* handler started is in the sum, with two exceptions: the signal interrupted the
\* thread's own collection between its CAS and its add, or came after its TLS was torn
\* down, and the destructor it has entered will collect.  (A slot that the hook
\* activates after the handler has run is not covered: nothing was measured then.)
HandlersHaveRun ==
  \A f \in Threads : (pc[f] = "fin_write" /\ ~timed_out) =>
    \A u \in signalled :
      /\ handler[u] = "idle" /\ due[u] >= 0
      /\ g_accumulated[u] + Adding(u) + (IF pc[u] = "dtor" THEN Measured(u) ELSE 0) >= due[u]

\* A process that leaves through exit or _exit has reported exactly once.
ExitReports == (proc = "exited" /\ loaded # "no") => Len(sent) = 1

\* A process never writes two messages, however many threads finalize it.
AtMostOneMessage == Len(sent) <= 1

\* Every step is a step of the ledger: the work a thread does while its slot is
\* active is closed once and added whole, by whichever of handler, destructor, stop
\* or finalizer wins the slot; the message is the whole sum of what had been added
\* when it was written; and a fork child starts from nothing.
Ledger == INSTANCE CounterLedger WITH
  MayRestart <- RegionMode,
  open <- [t \in Threads |-> IF Exists(t) /\ CanCollect(t_my_slot[t])
                               THEN hw[t] - slot_start[t_my_slot[t]] ELSE -1],
  adding <- [t \in Threads |-> Adding(t)],
  banked <- [t \in Threads |-> g_accumulated[t]],
  reports <- sent
ImplementsLedger == Ledger!Spec

\* A thread that is leaving gets out or as far as the write on the pipe, whatever the
\* threads it signalled do: nothing else in the finalizer waits for anyone.
Leaving(t) == proc = "running" /\ pc[t] \in FinPCs
OnlyTheWriteWaits == \A t \in Threads : Leaving(t) ~> (~Leaving(t) \/ pc[t] = "fin_write")
=============================================================================
