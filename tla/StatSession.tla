---------------------------- MODULE StatSession ----------------------------
(***************************************************************************)
(* One `apmc stat` (stat.rs: cmd_stat, read_all_inject_results), the       *)
(* program it measures with all its descendants, and the pipe between      *)
(* them.  What a process does inside is InjectDylib; here it runs, forks,  *)
(* writes one message when it leaves, and ends.                            *)
(*                                                                         *)
(* The pipe carries units: a message is a count, and as many values, and   *)
(* nothing marks where one ends.  Of a unit of work, counter i counts i,   *)
(* so that no two counters have the same value.                            *)
(***************************************************************************)
EXTENDS Integers, Sequences, FiniteSets

CONSTANTS
  Procs,           \* the processes that may be created
  Target,          \* the process that apmc spawns
  PIPE_CAPACITY,   \* units the kernel buffers in the pipe
  MAX_COUNTERS,    \* 16, in the library and in read_all_inject_results
  CounterCounts,   \* what the kernel may say of the number of counters, 0 when the
                   \* library cannot ask it
  Interruptible,   \* whether the user may press Ctrl+C
  MaxWork,         \* bound: units of work per process
  None, Apmc       \* no parent, no result; apmc itself

ASSUME SessionAssumption ==
  /\ IsFiniteSet(Procs) /\ Target \in Procs
  /\ Interruptible \in BOOLEAN
  /\ PIPE_CAPACITY \in Nat \ {0} /\ MaxWork \in Nat
  /\ MAX_COUNTERS \in Nat \ {0} /\ CounterCounts \subseteq Nat

VARIABLES
  system_wide,   \* --system-wide: no library, no pipe
  apmc,          \* where cmd_stat is
  counters,      \* whether apmc holds the counters (force_all_ctrs_set)
  ignoring,      \* SIGINT and SIGTERM are ignored in apmc
  interrupted,   \* the user has pressed Ctrl+C
  state,         \* of each process
  parent,        \* of each process, or none
  injected,      \* the processes that have loaded the library
  work,          \* what the library in each process has counted
  write_end,     \* who has the write end of the pipe open
  g_total_counters,   \* of the library, the same in each process
  pipe,          \* units in the pipe
  counter_count, \* the count of the message being read, or 0 between messages
  accumulated,   \* the Option<Vec<u64>>: None, or the sum of the messages read
  written        \* history: the sum of the messages written, or None

apmc_vars == <<system_wide, apmc, counters, ignoring, interrupted>>
lineage == <<parent, injected>>
target_vars == <<state, lineage, work>>
sums == <<g_total_counters, counter_count, accumulated, written>>
vars == <<apmc_vars, target_vars, write_end, pipe, sums>>

Alive == {p \in Procs : state[p] \in {"running", "waiting", "leaving", "reported"}}
Children(p) == {c \in Procs : parent[c] = p}

\* Mutant: the library sends as many counters as the kernel has.
clamped_never(count) == count

clamped(count) == IF count > MAX_COUNTERS THEN MAX_COUNTERS ELSE count

Init ==
  /\ system_wide \in BOOLEAN
  /\ apmc = "configure" /\ counters = "free" /\ ignoring = FALSE /\ interrupted = FALSE
  /\ state = [p \in Procs |-> "none"]
  /\ parent = [p \in Procs |-> None] /\ injected = {}
  /\ work = [p \in Procs |-> 0]
  /\ write_end = {} /\ pipe = <<>>
  /\ g_total_counters \in {clamped(count) : count \in CounterCounts}
  /\ counter_count = 0 /\ accumulated = None /\ written = None

\* The first values start the sum; values of another length are ignored.  The width of
\* u64 is not reached here.
Plus(acc, values) ==
  IF acc = None THEN values
  ELSE IF Len(acc) = Len(values) THEN [i \in DOMAIN acc |-> acc[i] + values[i]]
  ELSE acc

\* What the library in p writes.
message(p) == <<g_total_counters>> \o [i \in 1 .. g_total_counters |-> i * work[p]]

----------------------------------------------------------------------------
(* cmd_stat.                                                               *)

\* Mutant: KpcManager has no Drop.
ReturnWithoutDrop(outcome) == apmc' = outcome /\ UNCHANGED counters

\* Every return from cmd_stat drops the KpcManager, which releases the counters.
Return(outcome) == apmc' = outcome /\ counters' = "free"

\* Find the events and configure the counters.
Configure ==
  /\ apmc = "configure"
  /\ \/ apmc' = "prepare" /\ counters' = "held"
     \/ Return("failed")
  /\ UNCHANGED <<system_wide, ignoring, interrupted, target_vars, write_end, pipe, sums>>

ReadBefore ==
  /\ apmc = "prepare" /\ system_wide
  /\ \/ apmc' = "spawn" /\ UNCHANGED counters
     \/ Return("failed")
  /\ UNCHANGED <<system_wide, ignoring, interrupted, target_vars, write_end, pipe, sums>>

write_embedded_dylib ==
  /\ apmc = "prepare" /\ ~system_wide
  /\ \/ apmc' = "pipe" /\ UNCHANGED counters
     \/ Return("failed")
  /\ UNCHANGED <<system_wide, ignoring, interrupted, target_vars, write_end, pipe, sums>>

\* Both ends are inherited, so that also writers hold the read end: no write is ever
\* refused because apmc has gone.
create_pipe ==
  /\ apmc = "pipe"
  /\ \/ apmc' = "spawn" /\ write_end' = {Apmc} /\ UNCHANGED counters
     \/ Return("failed") /\ UNCHANGED write_end
  /\ UNCHANGED <<system_wide, ignoring, interrupted, target_vars, pipe, sums>>

\* The system may load no library into a program it protects.
Spawn ==
  /\ apmc = "spawn"
  /\ \/ /\ apmc' = "spawned" /\ UNCHANGED counters
        /\ state' = [state EXCEPT ![Target] = "running"]
        /\ injected' \in IF system_wide THEN {{}} ELSE {{}, {Target}}
        /\ write_end' = IF system_wide THEN {} ELSE write_end \cup {Target}
     \/ Return("failed") /\ write_end' = {} /\ UNCHANGED <<state, injected>>
  /\ UNCHANGED <<system_wide, ignoring, interrupted, parent, work, pipe, sums>>

IgnoreSignals ==
  /\ apmc = "spawned"
  /\ apmc' = "close" /\ ignoring' = TRUE
  /\ UNCHANGED <<system_wide, counters, interrupted, target_vars, write_end, pipe, sums>>

CloseWriteEnd ==
  /\ apmc = "close"
  /\ apmc' = "wait" /\ write_end' = write_end \ {Apmc}
  /\ UNCHANGED <<system_wide, counters, ignoring, interrupted, target_vars, pipe, sums>>

\* child.wait(): only the spawned process is waited for.
Wait ==
  /\ apmc = "wait" /\ state[Target] = "gone"
  /\ apmc' = "read"
  /\ UNCHANGED <<system_wide, counters, ignoring, interrupted, target_vars, write_end,
                 pipe, sums>>

\* The end of read_all_inject_results.
Results == Return(IF accumulated = None THEN "failed" ELSE "done")

\* read_exact of a count.  None or too many: corrupt, stop.
ReadCount ==
  /\ apmc = "read" /\ counter_count = 0 /\ pipe # <<>>
  /\ pipe' = Tail(pipe)
  /\ IF Head(pipe) = 0 \/ Head(pipe) > MAX_COUNTERS
       THEN Results /\ UNCHANGED counter_count
       ELSE counter_count' = Head(pipe) /\ UNCHANGED <<apmc, counters>>
  /\ UNCHANGED <<system_wide, ignoring, interrupted, target_vars, write_end,
                 g_total_counters, accumulated, written>>

\* Mutant: the last value of a message stays in the pipe.
ReadValuesShort ==
  /\ apmc = "read" /\ counter_count > 0 /\ Len(pipe) >= counter_count
  /\ accumulated' = Plus(accumulated, SubSeq(pipe, 1, counter_count))
  /\ pipe' = SubSeq(pipe, counter_count, Len(pipe))
  /\ counter_count' = 0
  /\ UNCHANGED <<apmc_vars, target_vars, write_end, g_total_counters, written>>

\* read_exact of the values.
ReadValues ==
  /\ apmc = "read" /\ counter_count > 0 /\ Len(pipe) >= counter_count
  /\ accumulated' = Plus(accumulated, SubSeq(pipe, 1, counter_count))
  /\ pipe' = SubSeq(pipe, counter_count + 1, Len(pipe))
  /\ counter_count' = 0
  /\ UNCHANGED <<apmc_vars, target_vars, write_end, g_total_counters, written>>

\* Mutant: an empty pipe is taken for its end.
ReadEndEarly ==
  /\ apmc = "read" /\ ~system_wide
  /\ Len(pipe) < (IF counter_count = 0 THEN 1 ELSE counter_count)
  /\ Results
  /\ UNCHANGED <<system_wide, ignoring, interrupted, target_vars, write_end, pipe, sums>>

\* EOF in read_exact: too little is left, for a count or for the values of a truncated
\* message, and nobody can write any more.
ReadEnd ==
  /\ apmc = "read" /\ ~system_wide
  /\ Len(pipe) < (IF counter_count = 0 THEN 1 ELSE counter_count)
  /\ write_end = {}
  /\ Results
  /\ UNCHANGED <<system_wide, ignoring, interrupted, target_vars, write_end, pipe, sums>>

\* The second snapshot.
SystemWideDelta ==
  /\ apmc = "read" /\ system_wide
  /\ Return("done") \/ Return("failed")
  /\ UNCHANGED <<system_wide, ignoring, interrupted, target_vars, write_end, pipe, sums>>

----------------------------------------------------------------------------
(* The measured processes.                                                 *)

Work(p) ==
  /\ state[p] = "running" /\ p \in injected /\ work[p] < MaxWork
  /\ work' = [work EXCEPT ![p] = @ + 1]
  /\ UNCHANGED <<apmc_vars, state, lineage, write_end, pipe, sums>>

\* The child is as its parent, except for what it has counted.
ForkFrom(p, c, counted) ==
  /\ state[p] = "running" /\ state[c] = "none" /\ c # Target
  /\ state' = [state EXCEPT ![c] = "running"]
  /\ parent' = [parent EXCEPT ![c] = p]
  /\ injected' = IF p \in injected THEN injected \cup {c} ELSE injected
  /\ work' = [work EXCEPT ![c] = counted]
  /\ write_end' = IF p \in write_end THEN write_end \cup {c} ELSE write_end
  /\ UNCHANGED <<apmc_vars, pipe, sums>>

\* Mutant: the child keeps the start snapshot of its parent.
ForkStale(p, c) == ForkFrom(p, c, 0 - work[p])

\* atfork_child: the child starts from zero.
Fork(p, c) == ForkFrom(p, c, 0)

\* exec: what the library had counted is gone with it.  By its environment the new program
\* gets a library that starts from zero, or none, and then it hands none on.
Exec(p) ==
  /\ state[p] = "running" /\ p \in injected
  /\ work' = [work EXCEPT ![p] = 0]
  /\ injected' \in {injected, injected \ {p}}
  /\ UNCHANGED <<apmc_vars, state, parent, write_end, pipe, sums>>

\* A daemon closes the descriptors it inherited.
CloseInherited(p) ==
  /\ state[p] = "running" /\ p \in write_end
  /\ write_end' = write_end \ {p}
  /\ UNCHANGED <<apmc_vars, target_vars, pipe, sums>>

\* The program ends, having waited for its children or not.
BeginWait(p) ==
  /\ state[p] = "running" /\ Children(p) # {}
  /\ state' = [state EXCEPT ![p] = "waiting"]
  /\ UNCHANGED <<apmc_vars, lineage, work, write_end, pipe, sums>>

BeginLeave(p) ==
  /\ \/ state[p] = "running"
     \/ state[p] = "waiting" /\ \A c \in Children(p) : state[c] = "gone"
  /\ state' = [state EXCEPT ![p] = "leaving"]
  /\ UNCHANGED <<apmc_vars, lineage, work, write_end, pipe, sums>>

\* The end of kpc_inject_finalize: the write, atomic and blocking while the message does
\* not fit into the pipe, and the close.  Without a descriptor the write fails.  Where
\* there is no library the descriptor is closed at exit.
Report(p) ==
  /\ state[p] = "leaving"
  /\ state' = [state EXCEPT ![p] = "reported"]
  /\ \/ /\ p \in write_end \cap injected
        /\ Len(pipe \o message(p)) <= PIPE_CAPACITY
        /\ pipe' = pipe \o message(p)
        /\ written' = Plus(written, Tail(message(p)))
     \/ p \notin write_end \cap injected /\ UNCHANGED <<pipe, written>>
  /\ write_end' = write_end \ {p}
  /\ UNCHANGED <<apmc_vars, lineage, work, g_total_counters, counter_count, accumulated>>

\* Where the library could not ask for the number of counters it has no handler, but its
\* finalizer signals the other threads, if there are any: the process dies unreported.
SignalKills(p) ==
  /\ state[p] = "leaving" /\ p \in injected /\ g_total_counters = 0
  /\ state' = [state EXCEPT ![p] = "gone"]
  /\ write_end' = write_end \ {p}
  /\ UNCHANGED <<apmc_vars, lineage, work, pipe, sums>>

Exit(p) ==
  /\ state[p] = "reported"
  /\ state' = [state EXCEPT ![p] = "gone"]
  /\ UNCHANGED <<apmc_vars, lineage, work, write_end, pipe, sums>>

\* Ctrl+C: SIGINT to apmc, unless it ignores it, and to every process of the target,
\* some of which may have a handler.  Death by signal runs no finalizer, and releases
\* nothing that only Drop would.  Bound: the user presses it once.
Interrupt ==
  /\ Interruptible /\ ~interrupted
  /\ apmc \notin {"done", "failed", "killed"}
  /\ interrupted' = TRUE
  /\ apmc' = IF ignoring THEN apmc ELSE "killed"
  /\ \E K \in SUBSET Alive :
       /\ state' = [p \in Procs |-> IF p \in K THEN "gone" ELSE state[p]]
       /\ write_end' = write_end \ (K \cup IF ignoring THEN {} ELSE {Apmc})
  /\ UNCHANGED <<system_wide, counters, ignoring, lineage, work, pipe, sums>>

----------------------------------------------------------------------------
CmdStat ==
  \/ Configure \/ ReadBefore \/ write_embedded_dylib \/ create_pipe \/ Spawn
  \/ IgnoreSignals \/ CloseWriteEnd \/ Wait
  \/ ReadCount \/ ReadValues \/ ReadEnd \/ SystemWideDelta

Ending(p) == BeginLeave(p) \/ Report(p) \/ Exit(p)

Process(p) ==
  \/ Work(p) \/ Exec(p) \/ CloseInherited(p) \/ BeginWait(p) \/ Ending(p) \/ SignalKills(p)
  \/ \E c \in Procs : Fork(p, c)

Ended == apmc \in {"done", "failed", "killed"}

Finished == Ended /\ Alive = {} /\ UNCHANGED vars

Next == CmdStat \/ (\E p \in Procs : Process(p)) \/ Interrupt \/ Finished

Spec == Init /\ [][Next]_vars

\* The kernel runs apmc.
FairSpec == Spec /\ WF_vars(CmdStat)

\* An assumption about the measured programs besides: each ends when it can.
EndingSpec == FairSpec /\ \A p \in Procs : WF_vars(Ending(p))

----------------------------------------------------------------------------
(* Properties.                                                             *)

Outcomes == {"done", "failed", "killed"}
TypeOK ==
  /\ system_wide \in BOOLEAN
  /\ apmc \in {"configure", "prepare", "pipe", "spawn", "spawned", "close", "wait", "read"}
             \cup Outcomes
  /\ counters \in {"free", "held"}
  /\ ignoring \in BOOLEAN /\ interrupted \in BOOLEAN
  /\ state \in [Procs -> {"none", "running", "waiting", "leaving", "reported", "gone"}]
  /\ parent \in [Procs -> Procs \cup {None}] /\ injected \subseteq Procs
  /\ work \in [Procs -> Nat]
  /\ write_end \subseteq Procs \cup {Apmc}
  /\ g_total_counters \in 0 .. MAX_COUNTERS /\ counter_count \in 0 .. MAX_COUNTERS
  /\ pipe \in Seq(Nat)
  /\ {accumulated, written} \subseteq Seq(Nat) \cup {None}

\* What apmc prints is the sum of every message that any process of the tree wrote,
\* also of orphans that outlive the target (stat.rs:221-226), and nobody can write
\* one more once it has printed.
PrintsAllReports ==
  (apmc = "done" /\ ~system_wide) =>
    accumulated = written /\ \A p \in Procs : state[p] = "leaving" => p \notin write_end

\* apmc complains that nothing was counted only if no process of the tree reported, or
\* none could count anything (stat.rs:207-208, kpc_inject.c:205).
ComplainsOnlyWithoutReports ==
  (apmc = "failed" /\ state[Target] # "none" /\ ~system_wide) =>
    written = None \/ g_total_counters = 0

\* Whatever the processes write at the same time, and wherever the reader is, what it finds
\* at the beginning of a message is a count and never a value (stat.rs:221-226).
FramesStay ==
  LET unread == Len(pipe) - counter_count
  IN  apmc \notin Outcomes =>
        /\ unread >= 0 /\ unread % (g_total_counters + 1) = 0
        /\ counter_count \in {0, g_total_counters}
        /\ \A k \in 0 .. unread \div (g_total_counters + 1) - 1 :
             pipe[counter_count + k * (g_total_counters + 1) + 1] = g_total_counters

\* The spawned process ends; in a full pipe its last write may never (stat.rs:193).
TargetEnds == <>(state[Target] = "gone")

\* From some time on no process has the write end of the pipe open: each has written,
\* was killed or has closed it, and lives on or not (stat.rs:181-182).
DescriptorsClosed == <>[](write_end \cap Procs = {})

\* If the target ends and no descendant keeps the descriptor for ever, an apmc that ignores
\* signals also ends, and gives the counters back: however long the processes that have
\* closed it live on, whether or not the user interrupts them, and however often the pipe
\* was full (stat.rs:184-216).
SessionEnds ==
  TargetEnds /\ DescriptorsClosed =>
    (apmc = "close" ~> (apmc \in {"done", "failed"} /\ counters = "free"))
=============================================================================
