-------------------------- MODULE InjectExitProofs --------------------------
(***************************************************************************)
(* What a process has collected when it reports, for any number of threads *)
(* and slots: the finalizer waits for exactly the handlers it asked for,   *)
(* and a process that only one thread leaves reports.                      *)
(***************************************************************************)
EXTENDS InjectLedgerProofs

----------------------------------------------------------------------------
(* The finalizer and the handlers it waits for.                            *)

\* The handlers that have not counted themselves off: threads still to be signalled,
\* threads with the signal pending, and handlers that run.
Waiting ==
  {u \in thread_list : Exists(u)} \cup sigusr2 \cup {u \in Threads : handler[u] # "idle"}

BeforeSignals == {"fin_collect", "fin_add", "fin_enum", "fin_count"}

\* Each thread is signalled once, in one order: listed, pending, handled.
SignalsInOrder ==
  /\ sigusr2 \subseteq signalled
  /\ thread_list \cap signalled = {}
  /\ \A u \in Threads : handler[u] # "idle" => u \in signalled \ sigusr2
  /\ \A u \in signalled \ sigusr2 : due[u] >= 0
  /\ \A u \in thread_list : pc[u] # "none"
  /\ ~g_finalized => signalled = {}
  /\ \A f \in Threads : pc[f] \in BeforeSignals => signalled = {}

\* g_pending_signals never falls short of the handlers that are still to come.  It may
\* exceed them: a thread that ends before it is signalled stays in the count.
CountCoversWaiting ==
  \A f \in Threads : pc[f] \in {"fin_signal", "fin_wait"} => g_pending_signals >= Cardinality(Waiting)

\* The finalizer goes on to write with no signal undelivered and no handler running, or
\* has given up.
NothingPending ==
  \A f \in Threads : (pc[f] = "fin_write" /\ ~timed_out) =>
    sigusr2 = {} /\ \A u \in Threads : handler[u] = "idle"

SignalInv == SignalsInOrder /\ CountCoversWaiting /\ NothingPending

\* What a thread had measured when its handler ran is banked, or is left to the TLS
\* destructor that it had entered.
Settled(u) == Banked(u) + (IF pc[u] = "dtor" THEN Measured(u) ELSE 0)
DueInv == \A u \in Threads : due[u] <= Settled(u)

----------------------------------------------------------------------------
(* A process that only one thread can leave.                               *)

OneLeaver(e) ==
  /\ \A u \in Threads : pc[u] \in FinPCs => u = e
  /\ proc = "loading" => ~g_finalized /\ pc[e] \notin FinPCs
  /\ proc = "exited" => pc[e] = "returned"
  /\ g_finalized => pc[e] \in FinPCs
  /\ loaded # "no" /\ pc[e] = "returned" => Len(sent) = 1
  /\ loaded # "no" /\ pc[e] = "finalize" /\ g_finalized => Len(sent) = 1

\* A step that moves no thread into or out of the finalizer, and writes nothing.
LEMMA NobodyLeaves ==
  ASSUME NEW e \in Threads, OneLeaver(e), UNCHANGED <<loaded, g_finalized, sent>>,
         proc' \notin {"loading", "exited"},
         \A u \in Threads : (pc[u] \in FinPCs \/ pc'[u] \in FinPCs) => pc'[u] = pc[u]
  PROVE  OneLeaver(e)'
  BY DEF OneLeaver, FinPCs

LEMMA OneLeaverStep ==
  ASSUME NEW e \in Threads, Exiters \subseteq {e}, Forkers \subseteq {e}
  PROVE  TypeInv /\ OneFinalizer /\ OneLeaver(e) /\ [Next]_vars => OneLeaver(e)'
<1> SUFFICES ASSUME TypeInv, OneFinalizer, OneLeaver(e), [Next]_vars PROVE OneLeaver(e)'
  OBVIOUS
<1> pc \in [Threads -> PCs]
  BY DEF TypeInv, TypeOK
<1> USE DEF Goto, AtPC, slots, counts, teardown, history
<1>1. CASE Initialize
  BY <1>1 DEF Initialize, OneLeaver, FinPCs
<1>2. ASSUME NEW t \in Threads, CallExit(t) PROVE OneLeaver(e)'
  <2>1. t = e /\ pc[e] = "user" /\ ~g_finalized
    BY <1>2 DEF CallExit, OneLeaver, FinPCs
  <2> QED
    BY <1>2, <2>1 DEF CallExit, OneLeaver, FinPCs
<1>3. ASSUME NEW t \in Threads, FinalizeEnter(t) PROVE OneLeaver(e)'
  <2>1. t = e
    BY <1>3 DEF FinalizeEnter, OneLeaver, FinPCs
  <2> QED
    BY <1>3, <2>1 DEF FinalizeEnter, OneLeaver, FinPCs
<1>4. ASSUME NEW t \in Threads, FinWrite(t) PROVE OneLeaver(e)'
  <2>1. t = e /\ sent = <<>>
    BY <1>4 DEF FinWrite, OneLeaver, OneFinalizer, FinPCs, FinBody
  <2>2. Len(sent') = 1
    BY <1>4, <2>1 DEF FinWrite
  <2> QED
    BY <1>4, <2>1, <2>2 DEF FinWrite, OneLeaver, FinPCs
<1>5. ASSUME NEW t \in Threads, Leave(t) PROVE OneLeaver(e)'
  <2>1. t = e
    BY <1>5 DEF Leave, OneLeaver, FinPCs
  <2> QED
    BY <1>5, <2>1 DEF Leave, OneLeaver, FinPCs
<1>6. ASSUME NEW t \in Threads, ForkChild(t) PROVE OneLeaver(e)'
  <2>1. t = e /\ pc[e] = "user" /\ ~g_finalized
    BY <1>6 DEF ForkChild, OneLeaver, FinPCs
  <2> QED
    BY <1>6, <2>1 DEF ForkChild, OneLeaver, FinPCs
<1>7. ASSUME NEW t \in Threads,
         FinCollect(t) \/ FinAdd(t) \/ FinEnumerate(t) \/ FinCount(t)
       PROVE  OneLeaver(e)'
  BY <1>7 DEF FinCollect, CollectAt, FinAdd, AddAt, FinEnumerate, FinCount, OneLeaver, FinPCs
<1>8. ASSUME NEW t \in Threads, FinSignal(t) \/ FinWaitDone(t) \/ FinTimeout(t)
       PROVE  OneLeaver(e)'
  BY <1>8 DEF FinSignal, FinWaitDone, FinTimeout, OneLeaver, FinPCs
<1>9. ASSUME NEW t \in Threads,
         \/ ThreadCreate(t) \/ HookAlloc(t) \/ HookSnapshot(t) \/ HookActivate(t) \/ Work(t)
       PROVE  OneLeaver(e)'
  BY <1>9, NobodyLeaves DEF ThreadCreate, HookAlloc, HookSnapshot, SnapshotAt, HookActivate, Work, FinPCs
<1>10. ASSUME NEW t \in Threads,
         \/ ApmcStart(t) \/ StartSnapshot(t) \/ StartActivate(t) \/ ApmcStop(t) \/ StopAdd(t)
       PROVE  OneLeaver(e)'
  BY <1>10, NobodyLeaves DEF ApmcStart, StartSnapshot, SnapshotAt, StartActivate, ApmcStop, StopAdd, AddAt, FinPCs
<1>11. ASSUME NEW t \in Threads,
         ThreadExit(t) \/ Destructor(t) \/ DestructorAdd(t) \/ HandlerStep(t)
       PROVE  OneLeaver(e)'
  BY <1>11, NobodyLeaves DEF ThreadExit, Destructor, CollectAt, DestructorAdd, AddAt, HandlerStep,
     Deliver, HandlerAdd, HandlerDec, SignalKills, FinPCs
<1>12. CASE UNCHANGED vars
  BY <1>12 DEF vars, OneLeaver
<1> QED
  BY <1>1, <1>2, <1>3, <1>4, <1>5, <1>6, <1>7, <1>8, <1>9, <1>10, <1>11, <1>12
     DEF Next, ThreadStep, FinalizeStep, FinalizeUnblocked, Terminated

\* A loaded process reports before it exits, also as a fork child, when one thread at
\* most calls exit or _exit and no other thread forks: the two runs that expect a
\* violation show what happens otherwise.
THEOREM LoneLeaverReports ==
  ASSUME NEW e \in Threads, Exiters \subseteq {e}, Forkers \subseteq {e}
  PROVE  Spec => []ExitReports
<1>1. Init => OneLeaver(e)
  BY DEF Init, OneLeaver, FinPCs
<1>2. OneLeaver(e) => ExitReports
  BY DEF OneLeaver, ExitReports
<1>3. TypeInv /\ OneFinalizer /\ OneLeaver(e) /\ [Next]_vars => OneLeaver(e)'
  BY OneLeaverStep
<1> QED
  BY <1>1, <1>2, <1>3, TypeInvariant, FinalizerInvariant, PTL DEF Spec
----------------------------------------------------------------------------
(* What was due stays settled.                                             *)

SharesTyped ==
  \A u \in Threads :
    /\ Banked(u) \in Nat /\ Open(u) \in Int
    /\ Measured(u) \in Nat /\ Settled(u) \in Nat
    /\ Measured(u) = IF Open(u) = -1 THEN 0 ELSE Open(u)

LEMMA ShareTypes == TypeInv /\ LedgerInv => SharesTyped
<1> SUFFICES ASSUME TypeInv, LedgerInv, NEW u \in Threads
             PROVE  /\ Banked(u) \in Nat /\ Open(u) \in Int
                    /\ Measured(u) \in Nat /\ Settled(u) \in Nat
                    /\ Measured(u) = IF Open(u) = -1 THEN 0 ELSE Open(u)
  BY DEF SharesTyped
<1>1. /\ slot_start \in [Slots -> Nat] /\ hw[u] \in Nat /\ g_accumulated[u] \in Int /\ ThreadInv(u)
  BY DEF TypeInv, TypeOK, LedgerInv
<1>2. Measuring(u) => hw[u] - slot_start[t_my_slot[u]] \in Nat
  BY <1>1 DEF Measuring, CanCollect, ThreadInv, SnapshotOwn
<1>3. Adding(u) \in Nat
  <2>1. CASE Collecting(u)
    <3>1. t_my_slot[u] \in Slots /\ slot_start[t_my_slot[u]] <= hw[u]
      BY <1>1, <2>1 DEF ThreadInv, CollectsOnce, SnapshotOwn
    <3> QED
      BY <1>1, <2>1, <3>1 DEF Adding, Collecting
  <2>2. CASE ~Collecting(u)
    BY <2>2 DEF Adding, Collecting
  <2> QED
    BY <2>1, <2>2
<1>4. Banked(u) \in Nat
  BY <1>1, <1>3 DEF Banked, ThreadInv
<1>5. /\ Measured(u) \in Nat /\ Open(u) \in Int
      /\ Measured(u) = IF Open(u) = -1 THEN 0 ELSE Open(u)
  BY <1>2 DEF Measured, Open, Measuring
<1> QED
  BY <1>4, <1>5 DEF Settled

\* Threads that do not take the step keep what is settled.
LEMMA OthersSettled ==
  ASSUME TypeInv, LedgerInv, TypeInv', LedgerInv', NEW t \in Threads, OthersKeepLedger(t),
         NEW u \in Threads \ {t}, pc'[u] = pc[u]
  PROVE  Settled(u)' = Settled(u)
<1>1. Open(u)' = Open(u) /\ Banked(u)' = Banked(u)
  BY SameBanked DEF OthersKeepLedger, SameShare
<1>2. SharesTyped /\ SharesTyped'
  BY ShareTypes, PTL
<1>3. Measured(u)' = Measured(u)
  BY <1>1, <1>2 DEF SharesTyped
<1> QED
  BY <1>1, <1>3 DEF Settled

\* Outside the destructor, what a thread has settled is what it has banked.
LEMMA DueKept ==
  ASSUME TypeInv, LedgerInv, DueInv, TypeInv', LedgerInv', NEW t \in Threads, Settles(t),
         due' = due, \A u \in Threads \ {t} : pc'[u] = pc[u],
         pc[t] = "dtor" => Settled(t)' >= Settled(t)
  PROVE  DueInv'
<1> SUFFICES ASSUME NEW u \in Threads PROVE due[u] <= Settled(u)'
  BY DEF DueInv
<1>1. due[u] \in Int /\ due[u] <= Settled(u)
  BY DEF TypeInv, TypeOK, DueInv
<1>2. CASE u # t
  BY <1>1, <1>2, OthersSettled DEF Settles
<1>3. CASE u = t
  <2>1. SharesTyped /\ SharesTyped'
    BY ShareTypes, PTL
  <2>2. Settled(t) \in Nat /\ Banked(t) \in Nat /\ Open(t) \in Int
        /\ (Open(t) # -1 => Open(t) \in Nat)
    BY <2>1 DEF SharesTyped
  <2>3. Settled(t)' \in Nat /\ Banked(t)' \in Nat /\ Measured(t)' \in Nat
    BY <2>1 DEF SharesTyped
  <2>4. CASE pc[t] # "dtor"
    <3>1. Settled(t) = Banked(t)
      BY <2>2, <2>4 DEF Settled
    <3>2. Banked(t)' >= Banked(t)
      BY <2>2, <2>3 DEF Settles
    <3>3. Settled(t)' >= Banked(t)'
      BY <2>3 DEF Settled
    <3> QED
      BY <1>1, <1>3, <2>2, <2>3, <3>1, <3>2, <3>3
  <2> QED
    BY <1>1, <1>3, <2>2, <2>3, <2>4
<1> QED
  BY <1>2, <1>3
LEMMA DueAfterDestructor ==
  ASSUME TypeInv, SlotsInv, LedgerInv, DueInv, TypeInv', LedgerInv',
         NEW t \in Threads, Destructor(t)
  PROVE  DueInv'
<1>1. /\ pc \in [Threads -> PCs] /\ pc[t] = "dtor" /\ handler[t] = "idle"
      /\ UNCHANGED <<handler, t_my_slot, slot_start, counts, due>>
      /\ \A u \in Threads \ {t} : pc'[u] = pc[u]
  BY DEF TypeInv, TypeOK, Destructor, CollectAt, AtPC, Goto, history
<1>2. Settles(t)
  BY DestructorStep
<1>3. SharesTyped /\ SharesTyped'
  BY ShareTypes, PTL
<1>4. Settled(t)' >= Settled(t)
  <2>1. CASE Measuring(t)
    <3>1. pc'[t] = "dtor_add"
      BY <1>1, <2>1, DestructorSlot DEF Destructor, CollectAt, Goto
    <3>2. Adding(t) = 0 /\ Adding(t)' = Measured(t)
      BY <1>1, <2>1, <3>1 DEF Adding, Measured, Measuring, AddPCs, counts
    <3>3. Banked(t)' = g_accumulated[t] + Measured(t) /\ Settled(t) = g_accumulated[t] + 0 + Measured(t)
      BY <1>1, <3>2 DEF Banked, Settled, counts
    <3>4. g_accumulated[t] \in Int
      BY DEF TypeInv, TypeOK
    <3> QED
      BY <1>3, <3>3, <3>4 DEF SharesTyped, Settled
  <2>2. CASE ~Measuring(t)
    <3>1. pc'[t] = "dead" /\ Banked(t)' = Banked(t)
      BY <1>1, <1>2, <2>2, DestructorSlot DEF Destructor, CollectAt, Goto, Settles, Open, Measuring
    <3>2. Settled(t) = Banked(t) /\ Settled(t)' = Banked(t)'
      BY <1>1, <1>3, <2>2, <3>1 DEF Settled, Measured, Measuring, SharesTyped
    <3> QED
      BY <1>3, <3>1, <3>2 DEF SharesTyped
  <2> QED
    BY <2>1, <2>2
<1> QED
  BY <1>1, <1>2, <1>4, DueKept

LEMMA DueAfterHandler ==
  ASSUME TypeInv, SlotsInv, LedgerInv, DueInv, TypeInv', LedgerInv',
         NEW t \in Threads, HandlerAdd(t) \/ HandlerDec(t)
  PROVE  DueInv'
<1>1. Settles(t) /\ UNCHANGED <<pc, slots, hw, due>>
  BY HandlerSteps, AddSteps DEF HandlerAdd, HandlerDec, history, counts
<1>2. Measured(t)' = Measured(t)
  BY <1>1 DEF Measured, Exists, CanCollect, slots
<1>3. SharesTyped /\ SharesTyped'
  BY ShareTypes, PTL
<1>4. Banked(t)' >= Banked(t)
  <2>1. Open(t) # -1 => Open(t) >= 0
    BY <1>3 DEF SharesTyped
  <2> QED
    BY <1>1, <1>3, <2>1 DEF Settles, SharesTyped
<1>5. Settled(t)' >= Settled(t)
  BY <1>1, <1>2, <1>3, <1>4 DEF Settled, SharesTyped
<1> QED
  BY <1>1, <1>5, DueKept

\* The handler collects the open measurement, or there is none, or it is left to the
\* destructor.
LEMMA DueAfterDelivery ==
  ASSUME TypeInv, SlotsInv, LedgerInv, DueInv, TypeInv', LedgerInv',
         NEW t \in Threads, Deliver(t)
  PROVE  DueInv' /\ due'[t] >= 0
<1>1. /\ handler \in [Threads -> {"idle", "add", "dec"}] /\ due \in [Threads -> Int]
      /\ ThreadInv(t)
  BY DEF TypeInv, TypeOK, LedgerInv
<1>2. /\ Exists(t) /\ handler[t] = "idle" /\ due' = [due EXCEPT ![t] = Owed(t)]
      /\ UNCHANGED <<pc, t_my_slot, slot_start, counts>>
  BY DEF Deliver
<1>3. SharesTyped /\ SharesTyped' /\ Settles(t)
  BY ShareTypes, HandlerSteps, PTL
<1>4. Owed(t) = Banked(t) + Measured(t)
  BY DEF Owed, Banked
<1>5. Owed(t) <= Settled(t)'
  <2>1. PICK slot \in HandlerSlots(t) :
          \/ /\ CanCollect(slot)
             /\ MarkCollected(slot)
             /\ handler' = [handler EXCEPT ![t] = "add"]
          \/ /\ ~CanCollect(slot)
             /\ handler' = [handler EXCEPT ![t] = "dec"]
             /\ UNCHANGED slot_state
    BY DEF Deliver
  <2>2. CASE CanCollect(slot) /\ handler' = [handler EXCEPT ![t] = "add"]
    <3>1. slot = t_my_slot[t] /\ Measuring(t)
      BY <1>2, <2>2, Ranges DEF HandlerSlots, CanCollect, Measuring
    <3>2. ~Collecting(t) /\ handler'[t] = "add"
      BY <1>1, <2>2, <3>1 DEF ThreadInv, CollectsOnce
    <3>3. Adding(t) = 0 /\ Adding(t)' = Measured(t)
      BY <1>2, <3>1, <3>2 DEF Adding, Measured, Measuring, Collecting, counts
    <3>4. Banked(t)' = g_accumulated[t] + Measured(t) /\ Banked(t) = g_accumulated[t] + 0
      BY <1>2, <3>3 DEF Banked, counts
    <3>5. g_accumulated[t] \in Int
      BY DEF TypeInv, TypeOK
    <3> QED
      BY <1>3, <1>4, <3>4, <3>5 DEF SharesTyped, Settled
  <2>3. CASE ~CanCollect(slot) /\ handler' = [handler EXCEPT ![t] = "dec"] /\ UNCHANGED slot_state
    <3>1. Measured(t)' = Measured(t) /\ handler'[t] = "dec"
      BY <1>1, <1>2, <2>3 DEF Measured, Exists, CanCollect, counts
    <3>2. Banked(t)' = Banked(t)
      BY <1>2, <3>1 DEF Banked, Adding, counts
    <3>3. pc[t] = "dtor" \/ ~Measuring(t)
      BY <1>1, <2>3 DEF HandlerSlots, Measuring
    <3>4. CASE pc[t] = "dtor"
      BY <1>2, <1>3, <1>4, <3>1, <3>2, <3>4 DEF Settled, SharesTyped
    <3>5. CASE ~Measuring(t)
      BY <1>3, <1>4, <3>1, <3>2, <3>5 DEF Settled, SharesTyped, Measured, Measuring
    <3> QED
      BY <3>3, <3>4, <3>5
  <2> QED
    BY <2>1, <2>2, <2>3
<1>6. \A u \in Threads \ {t} : Settled(u)' = Settled(u)
  BY <1>2, <1>3, OthersSettled DEF Settles
<1>7. DueInv'
  BY <1>1, <1>2, <1>5, <1>6 DEF DueInv
<1>8. due'[t] >= 0
  BY <1>1, <1>2, <1>3, <1>4 DEF SharesTyped
<1> QED
  BY <1>7, <1>8

LEMMA DueInvStep ==
  TypeInv /\ SlotsInv /\ OneFinalizer /\ LedgerInv /\ DueInv /\ [Next]_vars => DueInv'
<1> SUFFICES ASSUME TypeInv, SlotsInv, OneFinalizer, LedgerInv, DueInv, [Next]_vars
             PROVE  DueInv'
  OBVIOUS
<1>1. TypeInv' /\ LedgerInv'
  BY TypeInvStep, LedgerInvStep
<1>2. pc \in [Threads -> PCs]
  BY DEF TypeInv, TypeOK
<1> USE DEF AtPC, Goto, history
<1>3. CASE UNCHANGED vars
  BY <1>3 DEF vars, DueInv, Settled, Banked, Measured, Adding, CanCollect, Exists, slots, counts
<1>4. CASE Initialize
  <2>1. UNCHANGED <<pc, handler, counts, due>>
    BY <1>4 DEF Initialize
  <2>2. \A u \in Threads : ~Collecting(u) /\ pc[u] # "dtor"
    BY <1>4 DEF Initialize, LedgerInv, LoadsFirst, ThreadInv, ModeMatches, TypeInv, NothingTaken
  <2>3. \A u \in Threads : Settled(u) = Banked(u) + 0 /\ Settled(u)' = Banked(u) + 0
    BY <2>1, <2>2 DEF Settled, Banked, Adding, Collecting, counts
  <2> QED
    BY <2>1, <2>3 DEF DueInv
<1>5. ASSUME NEW t \in Threads, ForkChild(t) PROVE DueInv'
  <2>1. \A u \in Threads : due'[u] = -1
    BY <1>5 DEF ForkChild
  <2>2. SharesTyped'
    BY <1>1, ShareTypes, PTL
  <2> QED
    BY <2>1, <2>2 DEF DueInv, SharesTyped
<1>6. ASSUME NEW t \in Threads, HandlerStep(t) \/ Destructor(t) PROVE DueInv'
  <2>1. CASE SignalKills(t)
    BY <2>1 DEF SignalKills, DueInv, Settled, Banked, Measured, Adding, CanCollect, Exists, slots, counts
  <2> QED
    BY <1>1, <1>6, <2>1, DueAfterDestructor, DueAfterHandler, DueAfterDelivery DEF HandlerStep
<1>7. ASSUME NEW t \in Threads,
         \/ ThreadCreate(t) \/ HookAlloc(t) \/ HookSnapshot(t) \/ HookActivate(t) \/ Work(t)
         \/ ApmcStart(t) \/ StartSnapshot(t)
       PROVE  DueInv'
  <2>1. Settles(t)
    BY <1>7, CreateStep, HookAllocStep, SnapshotStep, ActivateStep, WorkStep, ApmcStartStep
  <2>2. due' = due /\ pc[t] # "dtor" /\ \A u \in Threads \ {t} : pc'[u] = pc[u]
    BY <1>2, <1>7 DEF ThreadCreate, HookAlloc, HookSnapshot, HookActivate, Work,
       ApmcStart, StartSnapshot, SnapshotAt
  <2> QED
    BY <1>1, <2>1, <2>2, DueKept
<1>8. ASSUME NEW t \in Threads,
         StartActivate(t) \/ ApmcStop(t) \/ StopAdd(t) \/ ThreadExit(t) \/ DestructorAdd(t) \/ CallExit(t)
       PROVE  DueInv'
  <2>1. Settles(t)
    BY <1>8, ActivateStep, StopAndFinalizerCollect, AddSteps, ThreadExitStep, PlainSteps
  <2>2. due' = due /\ pc[t] # "dtor" /\ \A u \in Threads \ {t} : pc'[u] = pc[u]
    BY <1>2, <1>8 DEF StartActivate, ApmcStop, StopAdd, ThreadExit, DestructorAdd, CallExit, AddAt
  <2> QED
    BY <1>1, <2>1, <2>2, DueKept
<1>9. ASSUME NEW t \in Threads, FinalizeStep(t) PROVE DueInv'
  <2>1. Settles(t)
    BY <1>9, PlainSteps, StopAndFinalizerCollect, AddSteps, WriteStep DEF FinalizeStep, FinalizeUnblocked
  <2>2. due' = due /\ pc[t] # "dtor" /\ \A u \in Threads \ {t} : pc'[u] = pc[u]
    <3>1. CASE FinalizeEnter(t) \/ FinCollect(t) \/ FinAdd(t) \/ FinEnumerate(t) \/ FinCount(t)
      BY <1>2, <3>1 DEF FinalizeEnter, FinCollect, CollectAt, FinAdd, AddAt, FinEnumerate, FinCount
    <3>2. CASE FinSignal(t) \/ FinWaitDone(t) \/ FinTimeout(t) \/ FinWrite(t) \/ Leave(t)
      BY <1>2, <3>2 DEF FinSignal, FinWaitDone, FinTimeout, FinWrite, Leave
    <3> QED
      BY <1>9, <3>1, <3>2 DEF FinalizeStep, FinalizeUnblocked
  <2> QED
    BY <1>1, <2>1, <2>2, DueKept
<1> QED
  BY <1>3, <1>4, <1>5, <1>6, <1>7, <1>8, <1>9 DEF Next, ThreadStep, Terminated
----------------------------------------------------------------------------
(* The finalizer waits for the handlers.                                   *)

LEMMA WaitingIsFinite == TypeInv => IsFiniteSet(Waiting) /\ Cardinality(Waiting) \in Nat
<1> SUFFICES ASSUME TypeInv PROVE IsFiniteSet(Waiting) /\ Cardinality(Waiting) \in Nat
  OBVIOUS
<1>1. Waiting \subseteq Threads
  BY DEF Waiting, TypeInv, TypeOK
<1>2. IsFiniteSet(Waiting)
  BY <1>1, ThreadsAssumption, FS_Subset
<1> QED
  BY <1>2, FS_CardinalityType

\* A step after which no more handlers are to come than before.
LEMMA WaitingShrinks ==
  ASSUME TypeInv, CountCoversWaiting, Waiting' \subseteq Waiting, g_pending_signals' = g_pending_signals,
         \A f \in Threads : pc'[f] \in {"fin_signal", "fin_wait"} => pc[f] \in {"fin_signal", "fin_wait"}
  PROVE  CountCoversWaiting'
<1>1. IsFiniteSet(Waiting') /\ Cardinality(Waiting') <= Cardinality(Waiting)
  BY WaitingIsFinite, FS_Subset
<1>2. Cardinality(Waiting) \in Nat /\ Cardinality(Waiting') \in Nat /\ g_pending_signals \in Int
  BY <1>1, WaitingIsFinite, FS_CardinalityType DEF TypeInv, TypeOK
<1> QED
  BY <1>1, <1>2 DEF CountCoversWaiting

\* A step that has no part in signalling.
LEMMA NoSignalling ==
  ASSUME TypeInv, SignalInv,
         UNCHANGED <<signalled, due, sigusr2, thread_list, g_finalized, g_pending_signals, timed_out, handler>>,
         \A u \in Threads :
           /\ pc'[u] \in BeforeSignals => pc[u] \in BeforeSignals
           /\ pc'[u] \in {"fin_signal", "fin_wait"} => pc[u] \in {"fin_signal", "fin_wait"}
           /\ pc'[u] = "fin_write" => pc[u] = "fin_write"
           /\ pc'[u] = "none" => pc[u] = "none"
           /\ Exists(u)' => Exists(u) \/ pc[u] = "none"
  PROVE  SignalInv'
<1>1. SignalsInOrder'
  BY DEF SignalInv, SignalsInOrder, TypeInv, TypeOK
<1>2. Waiting' \subseteq Waiting
  BY DEF SignalInv, SignalsInOrder, Waiting, TypeInv, TypeOK
<1>3. CountCoversWaiting'
  BY <1>2, WaitingShrinks DEF SignalInv
<1>4. NothingPending'
  BY DEF SignalInv, NothingPending
<1> QED
  BY <1>1, <1>3, <1>4 DEF SignalInv

\* Counting the threads, before any has been signalled.
LEMMA CountSignals ==
  ASSUME TypeInv, OneFinalizer, SignalInv, NEW t \in Threads, FinCount(t)
  PROVE  SignalInv'
<1> USE DEF AtPC, Goto, teardown, history
<1>1. /\ pc \in [Threads -> PCs] /\ pc[t] = "fin_count" /\ signalled = {} /\ sigusr2 = {}
      /\ \A u \in Threads : handler[u] = "idle"
      /\ UNCHANGED <<signalled, due, sigusr2, thread_list, g_finalized, timed_out, handler>>
      /\ \A u \in Threads \ {t} : pc'[u] = pc[u] /\ pc[u] \notin FinBody
  BY DEF TypeInv, TypeOK, FinCount, SignalInv, SignalsInOrder, BeforeSignals, OneFinalizer, FinBody
<1>2. \/ pc'[t] = "fin_signal" /\ g_pending_signals' = Cardinality({u \in thread_list : Exists(u)})
      \/ pc'[t] = "fin_write"
  BY <1>1 DEF FinCount
<1>3. \A u \in Threads : Exists(u)' = Exists(u)
  BY <1>1, <1>2 DEF Exists
<1>4. SignalsInOrder'
  <2>1. thread_list \subseteq Threads /\ \A u \in Threads : pc'[u] = "none" => pc[u] = "none"
    BY <1>1, <1>2 DEF TypeInv, TypeOK
  <2> QED
    BY <1>1, <2>1 DEF SignalInv, SignalsInOrder
<1>5. CountCoversWaiting'
  <2>1. Waiting' = {u \in thread_list : Exists(u)}
    BY <1>1, <1>3 DEF Waiting, TypeInv, TypeOK
  <2>2. Cardinality({u \in thread_list : Exists(u)}) \in Nat
    BY CountIsNat DEF TypeInv, TypeOK
  <2>3. \A f \in Threads : pc'[f] \in {"fin_signal", "fin_wait"} => f = t
    BY <1>1 DEF FinBody
  <2> QED
    BY <1>2, <2>1, <2>2, <2>3 DEF CountCoversWaiting
<1>6. NothingPending'
  BY <1>1 DEF NothingPending
<1> QED
  BY <1>4, <1>5, <1>6 DEF SignalInv

\* A signal is sent, or passed over because its thread has ended.
LEMMA SendSignal ==
  ASSUME TypeInv, OneFinalizer, SignalInv, NEW t \in Threads, FinSignal(t)
  PROVE  SignalInv'
<1> USE DEF AtPC, Goto, teardown, history
<1>1. /\ pc \in [Threads -> PCs] /\ pc[t] = "fin_signal" /\ g_finalized
      /\ thread_list \subseteq Threads /\ sigusr2 \subseteq Threads
      /\ UNCHANGED <<due, g_finalized, g_pending_signals, timed_out, handler>>
      /\ \A u \in Threads \ {t} : pc'[u] = pc[u] /\ pc[u] \notin FinBody
      /\ pc'[t] \in {"fin_signal", "fin_wait"}
  BY DEF TypeInv, TypeOK, FinSignal, OneFinalizer, FinBody
<1>2. \A u \in Threads : Exists(u)' = Exists(u)
  BY <1>1 DEF Exists
<1>3. NothingPending'
  BY <1>1 DEF NothingPending, FinBody
<1>4. \A f \in Threads : pc'[f] \notin BeforeSignals /\ (pc'[f] = "none" => pc[f] = "none")
  BY <1>1 DEF BeforeSignals, FinBody
<1>5. ASSUME NEW u \in thread_list, thread_list' = thread_list \ {u},
             IF Exists(u)
               THEN sigusr2' = sigusr2 \cup {u} /\ signalled' = signalled \cup {u}
               ELSE UNCHANGED <<sigusr2, signalled>>
      PROVE  SignalInv'
  <2>1. u \notin signalled /\ handler[u] = "idle" /\ u \in Threads
    BY <1>1 DEF SignalInv, SignalsInOrder
  <2>2. SignalsInOrder'
    BY <1>1, <1>4, <1>5, <2>1 DEF SignalInv, SignalsInOrder
  <2>3. Waiting' \subseteq Waiting
    BY <1>1, <1>2, <1>5 DEF Waiting
  <2>4. CountCoversWaiting'
    BY <1>1, <2>3, WaitingShrinks DEF SignalInv
  <2> QED
    BY <1>3, <2>2, <2>4 DEF SignalInv
<1>6. CASE UNCHANGED <<thread_list, sigusr2, signalled>>
  <2>1. SignalsInOrder'
    BY <1>1, <1>4, <1>6 DEF SignalInv, SignalsInOrder
  <2>2. Waiting' \subseteq Waiting
    BY <1>1, <1>2, <1>6 DEF Waiting
  <2>3. CountCoversWaiting'
    BY <1>1, <2>2, WaitingShrinks DEF SignalInv
  <2> QED
    BY <1>3, <2>1, <2>3 DEF SignalInv
<1> QED
  BY <1>5, <1>6 DEF FinSignal

\* A handler runs, and its thread has something due from then on.
LEMMA RunHandler ==
  ASSUME TypeInv, SignalInv, NEW t \in Threads, Deliver(t), due'[t] >= 0
  PROVE  SignalInv'
<1>1. /\ handler \in [Threads -> {"idle", "add", "dec"}] /\ due \in [Threads -> Int]
      /\ t \in sigusr2 /\ sigusr2' = sigusr2 \ {t} /\ handler'[t] \in {"add", "dec"}
      /\ \A u \in Threads \ {t} : handler'[u] = handler[u] /\ due'[u] = due[u]
      /\ UNCHANGED <<pc, signalled, thread_list, g_finalized, g_pending_signals, timed_out>>
  BY DEF TypeInv, TypeOK, Deliver
<1>2. SignalsInOrder'
  BY <1>1 DEF SignalInv, SignalsInOrder, TypeInv, TypeOK
<1>3. Waiting' \subseteq Waiting
  BY <1>1 DEF Waiting, Exists
<1>4. CountCoversWaiting'
  BY <1>1, <1>3, WaitingShrinks DEF SignalInv
<1>5. NothingPending'
  BY <1>1 DEF SignalInv, NothingPending
<1> QED
  BY <1>2, <1>4, <1>5 DEF SignalInv

\* Its handler counts itself off: one fewer to wait for, and it was waited for.
LEMMA CountOff ==
  ASSUME TypeInv, SignalInv, NEW t \in Threads, HandlerDec(t)
  PROVE  SignalInv'
<1>1. /\ handler \in [Threads -> {"idle", "add", "dec"}] /\ handler[t] = "dec" /\ handler'[t] = "idle"
      /\ \A u \in Threads \ {t} : handler'[u] = handler[u]
      /\ g_pending_signals' = g_pending_signals - 1
      /\ UNCHANGED <<pc, due, sigusr2, signalled, thread_list, g_finalized, timed_out>>
  BY DEF TypeInv, TypeOK, HandlerDec, history
<1>2. SignalsInOrder'
  BY <1>1 DEF SignalInv, SignalsInOrder
<1>3. Waiting' = Waiting \ {t} /\ t \in Waiting
  BY <1>1 DEF Waiting, Exists, SignalInv, SignalsInOrder
<1>4. Cardinality(Waiting') = Cardinality(Waiting) - 1
  BY <1>3, WaitingIsFinite, FS_RemoveElement
<1>5. CountCoversWaiting'
  <2>1. Cardinality(Waiting) \in Nat /\ g_pending_signals \in Int
    BY WaitingIsFinite DEF TypeInv, TypeOK
  <2> QED
    BY <1>1, <1>4, <2>1 DEF SignalInv, CountCoversWaiting
<1>6. NothingPending'
  BY <1>1 DEF SignalInv, NothingPending
<1> QED
  BY <1>2, <1>5, <1>6 DEF SignalInv
LEMMA SignalInvStep ==
  TypeInv /\ SlotsInv /\ OneFinalizer /\ LedgerInv /\ DueInv /\ SignalInv /\ [Next]_vars => SignalInv'
<1> SUFFICES ASSUME TypeInv, SlotsInv, OneFinalizer, LedgerInv, DueInv, SignalInv, [Next]_vars
             PROVE  SignalInv'
  OBVIOUS
<1>1. TypeInv' /\ LedgerInv'
  BY TypeInvStep, LedgerInvStep
<1>2. pc \in [Threads -> PCs]
  BY DEF TypeInv, TypeOK
<1> USE DEF AtPC, Goto, slots, counts, teardown, history
<1>3. CASE UNCHANGED vars
  BY <1>3, NoSignalling DEF vars, Exists
<1>4. CASE Initialize
  BY <1>4, NoSignalling DEF Initialize, Exists
<1>5. ASSUME NEW t \in Threads, ForkChild(t) PROVE SignalInv'
  <2>1. /\ signalled' = {} /\ sigusr2' = {} /\ thread_list' = {}
        /\ \A u \in Threads : handler'[u] = "idle" /\ pc'[u] \in {"user", "none"}
    BY <1>5 DEF ForkChild
  <2> QED
    BY <2>1 DEF SignalInv, SignalsInOrder, CountCoversWaiting, NothingPending, BeforeSignals
<1>6. ASSUME NEW t \in Threads, HandlerStep(t) PROVE SignalInv'
  <2>1. CASE HandlerAdd(t)
    <3>1. /\ handler \in [Threads -> {"idle", "add", "dec"}] /\ handler[t] = "add"
          /\ handler' = [handler EXCEPT ![t] = "dec"]
          /\ UNCHANGED <<pc, signalled, due, sigusr2, thread_list, g_finalized, g_pending_signals, timed_out>>
      BY <2>1 DEF HandlerAdd, TypeInv, TypeOK
    <3>2. \A u \in Threads : handler'[u] # "idle" <=> handler[u] # "idle"
      BY <3>1
    <3>3. Waiting' \subseteq Waiting
      BY <3>1, <3>2 DEF Waiting, Exists
    <3>4. CountCoversWaiting'
      BY <3>1, <3>3, WaitingShrinks DEF SignalInv
    <3> QED
      BY <3>1, <3>2, <3>4 DEF SignalInv, SignalsInOrder, NothingPending
  <2>2. CASE SignalKills(t)
    BY <2>2, NoSignalling DEF SignalKills, Exists
  <2> QED
    BY <1>1, <1>6, <2>1, <2>2, RunHandler, DueAfterDelivery, CountOff DEF HandlerStep
<1>7. ASSUME NEW t \in Threads,
         \/ ThreadCreate(t) \/ HookAlloc(t) \/ HookSnapshot(t) \/ HookActivate(t) \/ Work(t)
         \/ ApmcStart(t) \/ StartSnapshot(t)
       PROVE  SignalInv'
  BY <1>2, <1>7, NoSignalling DEF ThreadCreate, HookAlloc, HookSnapshot, SnapshotAt, HookActivate, Work,
     ApmcStart, StartSnapshot, Exists, BeforeSignals
<1>8. ASSUME NEW t \in Threads,
         \/ StartActivate(t) \/ ApmcStop(t) \/ StopAdd(t) \/ ThreadExit(t) \/ Destructor(t)
         \/ DestructorAdd(t) \/ CallExit(t) \/ Leave(t)
       PROVE  SignalInv'
  BY <1>2, <1>8, NoSignalling DEF StartActivate, ApmcStop, StopAdd, AddAt, ThreadExit, Destructor,
     CollectAt, DestructorAdd, CallExit, Leave, Exists, BeforeSignals
<1>9. ASSUME NEW t \in Threads, FinalizeEnter(t) PROVE SignalInv'
  <2>1. /\ UNCHANGED <<signalled, due, sigusr2, thread_list, g_pending_signals, timed_out, handler>>
        /\ pc'[t] \in {"returned", "fin_collect"} /\ (pc'[t] = "fin_collect" => ~g_finalized)
        /\ g_finalized' /\ pc[t] = "finalize"
        /\ \A u \in Threads \ {t} : pc'[u] = pc[u]
    BY <1>2, <1>9 DEF FinalizeEnter
  <2>2. Exists(t) /\ \A u \in Threads : Exists(u)' = Exists(u)
    BY <2>1 DEF Exists
  <2>3. SignalsInOrder'
    BY <2>1, <2>2 DEF SignalInv, SignalsInOrder, BeforeSignals, TypeInv, TypeOK
  <2>4. Waiting' \subseteq Waiting
    BY <2>1, <2>2 DEF Waiting, TypeInv, TypeOK
  <2>5. CountCoversWaiting'
    BY <2>1, <2>4, WaitingShrinks DEF SignalInv
  <2>6. NothingPending'
    BY <2>1 DEF SignalInv, NothingPending
  <2> QED
    BY <2>3, <2>5, <2>6 DEF SignalInv
<1>10. ASSUME NEW t \in Threads, FinCollect(t) \/ FinAdd(t) PROVE SignalInv'
  BY <1>2, <1>10, NoSignalling DEF FinCollect, CollectAt, FinAdd, AddAt, Exists, BeforeSignals
<1>11. ASSUME NEW t \in Threads, FinEnumerate(t) PROVE SignalInv'
  <2>1. /\ pc[t] = "fin_enum" /\ signalled = {} /\ sigusr2 = {}
        /\ UNCHANGED <<signalled, due, sigusr2, g_finalized, timed_out, handler>>
        /\ pc'[t] \in {"fin_count", "fin_write"}
        /\ \A u \in Threads \ {t} : pc'[u] = pc[u] /\ pc[u] \notin FinBody
        /\ thread_list' \subseteq {u \in Threads : Exists(u)} \/ thread_list' = thread_list
    BY <1>2, <1>11 DEF FinEnumerate, SignalInv, SignalsInOrder, BeforeSignals, OneFinalizer, FinBody
  <2>2. \A u \in thread_list' : pc'[u] # "none"
    BY <2>1 DEF Exists, SignalInv, SignalsInOrder, TypeInv, TypeOK
  <2> QED
    BY <2>1, <2>2 DEF SignalInv, SignalsInOrder, CountCoversWaiting, NothingPending, FinBody
<1>12. ASSUME NEW t \in Threads, FinCount(t) \/ FinSignal(t) PROVE SignalInv'
  BY <1>12, CountSignals, SendSignal
<1>13. ASSUME NEW t \in Threads, FinWaitDone(t) \/ FinTimeout(t) \/ FinWrite(t) PROVE SignalInv'
  <2>1. /\ UNCHANGED <<signalled, due, sigusr2, thread_list, g_finalized, g_pending_signals, handler>>
        /\ pc[t] \in {"fin_wait", "fin_write"} /\ pc'[t] \in {"fin_write", "returned"}
        /\ \A u \in Threads \ {t} : pc'[u] = pc[u] /\ pc[u] \notin FinBody
    BY <1>2, <1>13 DEF FinWaitDone, FinTimeout, FinWrite, OneFinalizer, FinBody
  <2>2. SignalsInOrder'
    BY <2>1 DEF SignalInv, SignalsInOrder, BeforeSignals, FinBody, TypeInv, TypeOK
  <2>3. CountCoversWaiting'
    BY <2>1 DEF CountCoversWaiting, FinBody
  <2>4. NothingPending'
    <3> SUFFICES ASSUME pc'[t] = "fin_write", ~timed_out' PROVE sigusr2 = {} /\ \A u \in Threads : handler[u] = "idle"
      BY <2>1 DEF NothingPending, FinBody
    <3>1. FinWaitDone(t)
      BY <1>2, <1>13 DEF FinTimeout, FinWrite
    <3>2. Cardinality(Waiting) = 0
      <4>1. g_pending_signals <= 0 /\ g_pending_signals >= Cardinality(Waiting)
        BY <3>1 DEF FinWaitDone, SignalInv, CountCoversWaiting
      <4>2. g_pending_signals \in Int /\ Cardinality(Waiting) \in Nat
        BY WaitingIsFinite DEF TypeInv, TypeOK
      <4> QED
        BY <4>1, <4>2
    <3>3. Waiting = {}
      BY <3>2, WaitingIsFinite, FS_EmptySet
    <3> QED
      BY <3>3 DEF Waiting
  <2> QED
    BY <2>2, <2>3, <2>4 DEF SignalInv
<1> QED
  BY <1>3, <1>4, <1>5, <1>6, <1>7, <1>8, <1>9, <1>10, <1>11, <1>12, <1>13
     DEF Next, ThreadStep, FinalizeStep, FinalizeUnblocked, Terminated

\* When the finalizer writes without having given up, every handler it asked for has
\* run to its end, and what the thread had measured when it started is in the sum, except
\* where the signal interrupted the thread's own collection (which is then adding it) or
\* found its TLS torn down (its destructor will collect).
THEOREM HandlersDoneAtWrite ==
  ASSUME MaxTaken <= INT_MAX
  PROVE  Spec => []HandlersHaveRun
<1>1. Init => DueInv /\ SignalInv
  <2> SUFFICES ASSUME Init PROVE DueInv /\ SignalInv
    OBVIOUS
  <2>1. \A u \in Threads : pc[u] \in {"user", "none"} /\ due[u] = -1
    BY DEF Init
  <2>2. TypeInv /\ LedgerInv
    BY InitTypeInv, InitLedgerInv
  <2>3. DueInv
    BY <2>1, <2>2, ShareTypes DEF DueInv, SharesTyped
  <2> QED
    BY <2>1, <2>3 DEF Init, SignalInv, SignalsInOrder, CountCoversWaiting, NothingPending, BeforeSignals
<1>2. TypeInv /\ LedgerInv /\ DueInv /\ SignalInv => HandlersHaveRun
  <2> SUFFICES ASSUME TypeInv, LedgerInv, DueInv, SignalInv,
                      NEW f \in Threads, pc[f] = "fin_write", ~timed_out,
                      NEW u \in signalled
               PROVE  /\ handler[u] = "idle" /\ due[u] >= 0
                      /\ Banked(u) + (IF pc[u] = "dtor" THEN Measured(u) ELSE 0) >= due[u]
    BY DEF HandlersHaveRun, Banked
  <2>1. u \in Threads
    BY DEF TypeInv, TypeOK
  <2>2. u \notin sigusr2 /\ handler[u] = "idle"
    BY <2>1 DEF SignalInv, NothingPending
  <2>3. due[u] >= 0
    BY <2>2 DEF SignalInv, SignalsInOrder
  <2>4. due[u] <= Settled(u)
    BY <2>1 DEF DueInv
  <2>5. due[u] \in Int /\ Settled(u) \in Int
    BY <2>1, ShareTypes DEF SharesTyped, TypeInv, TypeOK
  <2>6. Settled(u) >= due[u]
    BY <2>4, <2>5
  <2> QED
    BY <2>2, <2>3, <2>6 DEF Settled
<1> QED
  BY <1>1, <1>2, DueInvStep, SignalInvStep, TypeInvariant, SlotsInvariant, FinalizerInvariant,
     LedgerInvariant, PTL DEF Spec
=============================================================================
