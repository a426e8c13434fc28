------------------------- MODULE InjectDylibProofs -------------------------
(***************************************************************************)
(* Theorems about the injected library, for any number of threads and      *)
(* slots: type correctness, one message per process, and slots that are    *)
(* never shared.                                                           *)
(***************************************************************************)
EXTENDS InjectDylib, FiniteSetTheorems, TLAPS

----------------------------------------------------------------------------
(* Type correctness.                                                       *)

\* Until kpc_inject_initialize has run, no slot has been given out.
NothingTaken ==
  proc = "loading" =>
    g_next_slot = 0 /\ pc[Main] = "user" /\ \A t \in Threads : t_my_slot[t] = -1

\* A thread that adds a delta reads the start snapshot of a slot of the array.
AddsInRange ==
  \A t \in Threads :
    /\ (pc[t] \in {"stop_add", "fin_add"} \/ handler[t] = "add") => t_my_slot[t] \in Slots
    /\ pc[t] = "dtor_add" => tls_key[t] - 1 \in Slots

\* A thread has no slot before its hook gives it one, and the key value that its
\* destructor will see names the slot that its own code uses.
KeyMatches ==
  \A t \in Threads :
    /\ pc[t] \in {"none", "hook"} => t_my_slot[t] = -1
    /\ tls_key[t] # 0 => tls_key[t] = t_my_slot[t] + 1

TypeInv == TypeOK /\ NothingTaken /\ AddsInRange /\ KeyMatches

\* The facts about labels and ranges that the steps need, so that none of them has
\* to expand a range.
LEMMA Labels ==
  /\ {"none", "hook", "hook_snapshot", "hook_activate", "user", "start_snapshot"} \subseteq PCs
  /\ {"start_activate", "dtor", "dead", "stop_add", "dtor_add", "fin_add"} \subseteq PCs
  /\ {"finalize", "fin_collect", "fin_enum", "fin_count", "fin_signal"} \subseteq PCs
  /\ {"fin_wait", "fin_write", "returned"} \subseteq PCs
  BY DEF PCs, FinPCs, AddPCs

LEMMA Ranges ==
  /\ 0 \in Slots /\ -1 \notin Slots
  /\ {0, 1} \subseteq CInt
  /\ {-1, 0} \subseteq SlotIndices
  /\ {0, 1} \subseteq KeyValues
  /\ \A n \in CInt : NextInt(n) \in CInt /\ (HasSlot(n) => n \in SlotIndices)
  /\ \A i \in SlotIndices : i + 1 \in KeyValues
  /\ NextInt(0) = 1 /\ HasSlot(0)
  BY BoundsAssumption DEF Slots, CInt, SlotIndices, KeyValues, NextInt, HasSlot

LEMMA CountIsNat ==
  ASSUME NEW S \in SUBSET Threads  PROVE Cardinality({u \in S : Exists(u)}) \in Nat
  BY ThreadsAssumption, FS_Subset, FS_CardinalityType

LEMMA EmptySequence == <<>> \in Seq([Threads -> Int])
  OBVIOUS

\* A delta is an integer when the slot it starts from is in the array.
LEMMA AccumulateType ==
  ASSUME TypeOK, NEW t \in Threads, NEW slot \in Slots, Accumulate(t, slot)
  PROVE  g_accumulated' \in [Threads -> Int]
  BY DEF TypeOK, Accumulate

LEMMA OwedType ==
  ASSUME TypeOK, NEW t \in Threads,
         handler[t] = "add" \/ pc[t] \in AddPCs => t_my_slot[t] \in Slots
  PROVE  Owed(t) \in Int
<1>1. Adding(t) \in Int
  BY DEF TypeOK, Adding
<1>2. Measured(t) \in Int
  BY DEF TypeOK, Measured, CanCollect
<1> QED
  BY <1>1, <1>2 DEF TypeOK, Owed

LEMMA InitTypeInv == Init => TypeInv
<1> SUFFICES ASSUME Init PROVE TypeInv
  OBVIOUS
<1>1. TypeOK
  <2>1. /\ hw \in [Threads -> Nat]
        /\ g_accumulated \in [Threads -> Int]
        /\ due \in [Threads -> Int]
    BY DEF Init
  <2>2. slot_start \in [Slots -> Nat] /\ sent \in Seq([Threads -> Int])
    BY DEF Init
  <2> QED
    BY <2>1, <2>2, Labels, Ranges DEF Init, TypeOK
<1>2. NothingTaken /\ AddsInRange /\ KeyMatches
  BY ThreadsAssumption DEF Init, NothingTaken, AddsInRange, KeyMatches
<1> QED
  BY <1>1, <1>2 DEF TypeInv

LEMMA TypeInvStep == TypeInv /\ [Next]_vars => TypeInv'
<1> SUFFICES ASSUME TypeInv, [Next]_vars PROVE TypeInv'
  OBVIOUS
<1> USE DEF TypeInv, TypeOK, NothingTaken, AddsInRange, KeyMatches, Goto, AtPC,
            slots, counts, teardown, history
<1>1. CASE Initialize
  <2>1. g_next_slot = 0 /\ pc[Main] = "user" /\ \A t \in Threads : t_my_slot[t] = -1
    BY <1>1 DEF Initialize
  <2>2. CASE loaded' = "yes" /\ ~RegionMode
    <3>1. /\ g_next_slot' = 1
          /\ t_my_slot' = [t_my_slot EXCEPT ![Main] = 0]
          /\ tls_key' = [tls_key EXCEPT ![Main] = 1]
          /\ slot_start' = [slot_start EXCEPT ![0] = hw[Main]]
          /\ slot_state' = [slot_state EXCEPT ![0] = "ACTIVE"]
      BY <1>1, <2>1, <2>2, Ranges DEF Initialize, Snapshot
    <3>2. /\ proc' \in {"loading", "running", "exited", "crashed", "killed"}
          /\ loaded' \in {"no", "partly", "yes"}
          /\ UNCHANGED <<pc, handler, counts, teardown, history, forks>>
      BY <1>1 DEF Initialize
    <3>3. slot_start' \in [Slots -> Nat]
      BY <3>1, ThreadsAssumption
    <3>4. /\ t_my_slot' \in [Threads -> SlotIndices]
          /\ tls_key' \in [Threads -> KeyValues]
      BY <3>1, Ranges DEF SlotIndices, Slots
    <3>5. TypeOK'
      BY <3>1, <3>2, <3>3, <3>4, Ranges
    <3>6. NothingTaken'
      BY <1>1 DEF Initialize
    <3>7. AddsInRange'
      BY <3>1, <3>2, Ranges
    <3>8. KeyMatches'
      <4>1. 0 + 1 = 1 /\ pc'[Main] \notin {"none", "hook"}
        BY <2>1, <3>2
      <4> QED
        BY <3>1, <3>2, <4>1, ThreadsAssumption
    <3> QED
      BY <3>5, <3>6, <3>7, <3>8
  <2>3. CASE ~(loaded' = "yes" /\ ~RegionMode)
    BY <1>1, <2>3 DEF Initialize
  <2> QED
    BY <2>2, <2>3
<1>2. ASSUME NEW t \in Threads, ThreadCreate(t) PROVE TypeInv'
  BY <1>2, Labels, Ranges DEF ThreadCreate
<1>3. ASSUME NEW t \in Threads, HookAlloc(t) PROVE TypeInv'
  <2>1. pc' \in [Threads -> PCs]
    BY <1>3, Labels, Ranges DEF HookAlloc
  <2>2. /\ g_next_slot' \in CInt
        /\ t_my_slot' \in [Threads -> SlotIndices]
    BY <1>3, Labels, Ranges DEF HookAlloc
  <2>3. UNCHANGED <<proc, loaded, handler, via, hw, tls_key, sigusr2, slot_state,
                  slot_start, g_accumulated, g_pending_signals, thread_list, sent,
                  forks, signalled, due, timed_out, g_finalized>>
    BY <1>3 DEF HookAlloc
  <2>4. TypeOK'
    BY <2>1, <2>2, <2>3
  <2>5. NothingTaken'
    BY <1>3 DEF HookAlloc
  <2>6. AddsInRange'
    BY <1>3, Ranges DEF HookAlloc
  <2>7. tls_key[t] = 0 /\ UNCHANGED tls_key
    BY <1>3 DEF HookAlloc
  <2>8. KeyMatches'
    <3> SUFFICES ASSUME NEW u \in Threads
                 PROVE  /\ pc'[u] \in {"none", "hook"} => t_my_slot'[u] = -1
                        /\ tls_key'[u] # 0 => tls_key'[u] = t_my_slot'[u] + 1
      OBVIOUS
    <3>1. CASE u = t
      <4>1. pc'[t] \notin {"none", "hook"}
        BY <1>3 DEF HookAlloc
      <4> QED
        BY <2>7, <3>1, <4>1
    <3>2. CASE u # t
      <4>1. pc'[u] = pc[u] /\ t_my_slot'[u] = t_my_slot[u]
        BY <1>3, <3>2 DEF HookAlloc
      <4> QED
        BY <2>7, <4>1
    <3> QED
      BY <3>1, <3>2
  <2> QED
    BY <2>4, <2>5, <2>6, <2>8
<1>4. ASSUME NEW t \in Threads, HookSnapshot(t) PROVE TypeInv'
  <2>1. pc' \in [Threads -> PCs]
    BY <1>4, Labels, Ranges DEF HookSnapshot, SnapshotAt, Snapshot
  <2>2. /\ proc' \in {"loading", "running", "exited", "crashed", "killed"}
        /\ slot_start' \in [Slots -> Nat]
    BY <1>4, Labels, Ranges DEF HookSnapshot, SnapshotAt, Snapshot
  <2>3. UNCHANGED <<loaded, handler, via, hw, t_my_slot, tls_key, sigusr2, slot_state,
                  g_next_slot, g_accumulated, g_pending_signals, thread_list, sent,
                  forks, signalled, due, timed_out, g_finalized>>
    BY <1>4 DEF HookSnapshot, SnapshotAt, Snapshot
  <2>4. TypeOK'
    BY <2>1, <2>2, <2>3
  <2>5. NothingTaken'
    BY <1>4 DEF HookSnapshot, SnapshotAt, Snapshot
  <2>6. AddsInRange'
    BY <1>4, Ranges DEF HookSnapshot, SnapshotAt, Snapshot
  <2>7. KeyMatches'
    BY <1>4, Ranges DEF HookSnapshot, SnapshotAt, Snapshot
  <2> QED
    BY <2>4, <2>5, <2>6, <2>7
<1>5. ASSUME NEW t \in Threads, HookActivate(t) PROVE TypeInv'
  <2>1. pc' \in [Threads -> PCs]
    BY <1>5, Labels, Ranges DEF HookActivate
  <2>2. /\ slot_state' \in [Slots -> {"FREE", "ACTIVE", "COLLECTED"}]
        /\ tls_key' \in [Threads -> KeyValues]
    BY <1>5, Labels, Ranges DEF HookActivate
  <2>3. UNCHANGED <<proc, loaded, handler, via, hw, t_my_slot, sigusr2, slot_start,
                  g_next_slot, g_accumulated, g_pending_signals, thread_list, sent,
                  forks, signalled, due, timed_out, g_finalized>>
    BY <1>5 DEF HookActivate
  <2>4. TypeOK'
    BY <2>1, <2>2, <2>3
  <2>5. NothingTaken'
    BY <1>5 DEF HookActivate
  <2>6. AddsInRange'
    BY <1>5, Ranges DEF HookActivate
  <2>7. KeyMatches'
    BY <1>5, Ranges DEF HookActivate
  <2> QED
    BY <2>4, <2>5, <2>6, <2>7
<1>6. ASSUME NEW t \in Threads, Work(t) PROVE TypeInv'
  <2>1. hw' \in [Threads -> Nat]
    BY <1>6, Labels, Ranges DEF Work
  <2>2. UNCHANGED <<proc, loaded, pc, handler, via, t_my_slot, tls_key, sigusr2,
                  slot_state, slot_start, g_next_slot, g_accumulated, g_pending_signals,
                  thread_list, sent, forks, signalled, due, timed_out, g_finalized>>
    BY <1>6 DEF Work
  <2>3. TypeOK'
    BY <2>1, <2>2
  <2>4. NothingTaken' /\ AddsInRange' /\ KeyMatches'
    BY <2>2
  <2> QED
    BY <2>3, <2>4
<1>7. ASSUME NEW t \in Threads, ApmcStart(t) PROVE TypeInv'
  <2>1. pc' \in [Threads -> PCs]
    BY <1>7, Labels, Ranges DEF ApmcStart
  <2>2. g_next_slot' \in CInt
    BY <1>7, Labels, Ranges DEF ApmcStart
  <2>3. t_my_slot' \in [Threads -> SlotIndices]
    BY <1>7, Labels, Ranges DEF ApmcStart
  <2>4. tls_key' \in [Threads -> KeyValues]
    <3>1. HasSlot(g_next_slot) => g_next_slot + 1 \in KeyValues
      BY Ranges
    <3> QED
      BY <1>7, <3>1 DEF ApmcStart
  <2>5. UNCHANGED <<proc, loaded, handler, via, hw, sigusr2, slot_state, slot_start,
                  g_accumulated, g_pending_signals, thread_list, sent, forks, signalled,
                  due, timed_out, g_finalized>>
    BY <1>7 DEF ApmcStart
  <2>6. TypeOK'
    BY <2>1, <2>2, <2>3, <2>4, <2>5
  <2>7. NothingTaken'
    BY <1>7 DEF ApmcStart
  <2>8. AddsInRange'
    BY <1>7, Ranges DEF ApmcStart
  <2>9. KeyMatches'
    BY <1>7, Ranges DEF ApmcStart
  <2> QED
    BY <2>6, <2>7, <2>8, <2>9
<1>8. ASSUME NEW t \in Threads, StartSnapshot(t) PROVE TypeInv'
  <2>1. pc' \in [Threads -> PCs]
    BY <1>8, Labels, Ranges DEF StartSnapshot, SnapshotAt, Snapshot
  <2>2. /\ proc' \in {"loading", "running", "exited", "crashed", "killed"}
        /\ slot_start' \in [Slots -> Nat]
    BY <1>8, Labels, Ranges DEF StartSnapshot, SnapshotAt, Snapshot
  <2>3. UNCHANGED <<loaded, handler, via, hw, t_my_slot, tls_key, sigusr2, slot_state,
                  g_next_slot, g_accumulated, g_pending_signals, thread_list, sent,
                  forks, signalled, due, timed_out, g_finalized>>
    BY <1>8 DEF StartSnapshot, SnapshotAt, Snapshot
  <2>4. TypeOK'
    BY <2>1, <2>2, <2>3
  <2>5. NothingTaken'
    BY <1>8 DEF StartSnapshot, SnapshotAt, Snapshot
  <2>6. AddsInRange'
    BY <1>8, Ranges DEF StartSnapshot, SnapshotAt, Snapshot
  <2>7. KeyMatches'
    BY <1>8, Ranges DEF StartSnapshot, SnapshotAt, Snapshot
  <2> QED
    BY <2>4, <2>5, <2>6, <2>7
<1>9. ASSUME NEW t \in Threads, StartActivate(t) PROVE TypeInv'
  BY <1>9, Labels, Ranges DEF StartActivate
<1>10. ASSUME NEW t \in Threads, ApmcStop(t) PROVE TypeInv'
  BY <1>10, Labels, Ranges DEF ApmcStop, CanCollect, MarkCollected
<1>11. ASSUME NEW t \in Threads, StopAdd(t) PROVE TypeInv'
  <2>1. g_accumulated' \in [Threads -> Int]
    BY <1>11, AccumulateType DEF StopAdd, AddAt
  <2>2. pc' \in [Threads -> PCs]
    BY <1>11, Labels, Ranges DEF StopAdd, AddAt
  <2>3. UNCHANGED <<proc, loaded, handler, via, hw, t_my_slot, tls_key, sigusr2,
                  slot_state, slot_start, g_next_slot, g_pending_signals, thread_list,
                  sent, forks, signalled, due, timed_out, g_finalized>>
    BY <1>11 DEF StopAdd, AddAt
  <2>4. TypeOK'
    BY <2>1, <2>2, <2>3
  <2>5. NothingTaken'
    BY <1>11 DEF StopAdd, AddAt
  <2>6. AddsInRange'
    BY <1>11, Ranges DEF StopAdd, AddAt
  <2>7. KeyMatches'
    BY <1>11, Ranges DEF StopAdd, AddAt
  <2> QED
    BY <2>4, <2>5, <2>6, <2>7
<1>12. ASSUME NEW t \in Threads, ThreadExit(t) PROVE TypeInv'
  BY <1>12, Labels, Ranges DEF ThreadExit
<1>13. ASSUME NEW t \in Threads, Destructor(t) PROVE TypeInv'
  <2>1. pc' \in [Threads -> PCs]
    BY <1>13, Labels, Ranges DEF Destructor, CollectAt, CanCollect, MarkCollected
  <2>2. slot_state' \in [Slots -> {"FREE", "ACTIVE", "COLLECTED"}]
    BY <1>13, Labels, Ranges DEF Destructor, CollectAt, CanCollect, MarkCollected
  <2>3. UNCHANGED <<proc, loaded, handler, via, hw, t_my_slot, tls_key, sigusr2,
                  slot_start, g_next_slot, g_accumulated, g_pending_signals,
                  thread_list, sent, forks, signalled, due, timed_out, g_finalized>>
    BY <1>13 DEF Destructor, CollectAt, CanCollect, MarkCollected
  <2>4. TypeOK'
    BY <2>1, <2>2, <2>3
  <2>5. NothingTaken'
    BY <1>13 DEF Destructor, CollectAt, CanCollect, MarkCollected
  <2>6. AddsInRange'
    BY <1>13, Ranges DEF Destructor, CollectAt, CanCollect, MarkCollected
  <2>7. KeyMatches'
    BY <1>13, Ranges DEF Destructor, CollectAt, CanCollect, MarkCollected
  <2> QED
    BY <2>4, <2>5, <2>6, <2>7
<1>14. ASSUME NEW t \in Threads, DestructorAdd(t) PROVE TypeInv'
  <2>1. g_accumulated' \in [Threads -> Int]
    BY <1>14, AccumulateType DEF DestructorAdd, AddAt
  <2>2. pc' \in [Threads -> PCs]
    BY <1>14, Labels, Ranges DEF DestructorAdd, AddAt
  <2>3. UNCHANGED <<proc, loaded, handler, via, hw, t_my_slot, tls_key, sigusr2,
                  slot_state, slot_start, g_next_slot, g_pending_signals, thread_list,
                  sent, forks, signalled, due, timed_out, g_finalized>>
    BY <1>14 DEF DestructorAdd, AddAt
  <2>4. TypeOK'
    BY <2>1, <2>2, <2>3
  <2>5. NothingTaken'
    BY <1>14 DEF DestructorAdd, AddAt
  <2>6. AddsInRange'
    BY <1>14, Ranges DEF DestructorAdd, AddAt
  <2>7. KeyMatches'
    BY <1>14, Ranges DEF DestructorAdd, AddAt
  <2> QED
    BY <2>4, <2>5, <2>6, <2>7
<1>15. ASSUME NEW t \in Threads, CallExit(t) PROVE TypeInv'
  <2>1. /\ pc' \in [Threads -> PCs]
        /\ via' \in [Threads -> {"none", "exit", "_exit"}]
    BY <1>15, Labels, Ranges DEF CallExit
  <2>2. UNCHANGED <<proc, loaded, handler, hw, t_my_slot, tls_key, sigusr2, slot_state,
                  slot_start, g_next_slot, g_accumulated, g_pending_signals,
                  thread_list, sent, forks, signalled, due, timed_out, g_finalized>>
    BY <1>15 DEF CallExit
  <2>3. TypeOK'
    BY <2>1, <2>2
  <2>4. NothingTaken'
    BY <1>15 DEF CallExit
  <2>5. AddsInRange'
    BY <1>15, Ranges DEF CallExit
  <2>6. KeyMatches'
    BY <1>15, Ranges DEF CallExit
  <2> QED
    BY <2>3, <2>4, <2>5, <2>6
<1>16. ASSUME NEW t \in Threads, ForkChild(t) PROVE TypeInv'
  <2>1. pc' \in [Threads -> PCs]
    BY <1>16, Labels, Ranges DEF ForkChild, AtforkChild, Snapshot
  <2>2. /\ handler' \in [Threads -> {"idle", "add", "dec"}]
        /\ via' \in [Threads -> {"none", "exit", "_exit"}]
        /\ sigusr2' \subseteq Threads
    BY <1>16, Labels, Ranges DEF ForkChild, AtforkChild, Snapshot
  <2>3. /\ thread_list' \subseteq Threads
        /\ sent' \in Seq([Threads -> Int])
        /\ signalled' \subseteq Threads
        /\ timed_out' \in BOOLEAN
    BY <1>16, EmptySequence DEF ForkChild
  <2>4. /\ due' \in [Threads -> Int]
        /\ forks' \in Nat
    BY <1>16, Labels, Ranges DEF ForkChild, AtforkChild, Snapshot
  <2>5. slot_state' \in [Slots -> {"FREE", "ACTIVE", "COLLECTED"}]
    BY <1>16, Labels, Ranges DEF ForkChild, AtforkChild, Snapshot
  <2>6. slot_start' \in [Slots -> Nat]
    BY <1>16, Labels, Ranges DEF ForkChild, AtforkChild, Snapshot
  <2>7. g_next_slot' \in CInt
    BY <1>16, Labels, Ranges DEF ForkChild, AtforkChild, Snapshot
  <2>8. /\ g_accumulated' \in [Threads -> Int]
        /\ g_pending_signals' \in Int
    BY <1>16, Labels, Ranges DEF ForkChild, AtforkChild, Snapshot
  <2>9. \/ /\ t_my_slot' = [u \in Threads |-> IF u = t THEN t_my_slot[u] ELSE -1]
           /\ tls_key' = [u \in Threads |-> IF u = t THEN tls_key[u] ELSE 0]
        \/ /\ t_my_slot' = [u \in Threads |-> -1]
           /\ tls_key' = [u \in Threads |-> 0]
        \/ /\ t_my_slot' = [u \in Threads |-> IF u = t THEN 0 ELSE -1]
           /\ tls_key' = [u \in Threads |-> IF u = t THEN 1 ELSE 0]
    BY <1>16 DEF ForkChild, AtforkChild
  <2>10. /\ t_my_slot' \in [Threads -> SlotIndices]
         /\ tls_key' \in [Threads -> KeyValues]
    <3>1. /\ {-1, 0} \subseteq SlotIndices /\ {0, 1} \subseteq KeyValues
          /\ t_my_slot \in [Threads -> SlotIndices]
          /\ tls_key \in [Threads -> KeyValues]
      BY Ranges
    <3>2. t_my_slot' \in [Threads -> SlotIndices]
      BY ONLY <2>9, <3>1
    <3>3. tls_key' \in [Threads -> KeyValues]
      BY ONLY <2>9, <3>1
    <3> QED
      BY <3>2, <3>3
  <2>11. UNCHANGED <<proc, loaded, hw, g_finalized>>
    BY <1>16 DEF ForkChild, AtforkChild, Snapshot
  <2>12. TypeOK'
    BY <2>1, <2>2, <2>3, <2>4, <2>5, <2>6, <2>7, <2>8, <2>9, <2>10, <2>11
  <2>13. NothingTaken'
    BY <1>16 DEF ForkChild, AtforkChild, Snapshot
  <2>14. AddsInRange'
    BY <1>16, Ranges DEF ForkChild, AtforkChild, Snapshot
  <2>15. KeyMatches'
    BY <1>16, Ranges DEF ForkChild, AtforkChild, Snapshot
  <2> QED
    BY <2>12, <2>13, <2>14, <2>15
<1>17. ASSUME NEW t \in Threads, Deliver(t) PROVE TypeInv'
  <2>1. pc[t] = "dtor_add" => t_my_slot[t] \in Slots
    <3>1. tls_key[t] \in Int /\ t_my_slot[t] \in Int
      BY DEF KeyValues, SlotIndices
    <3>2. tls_key[t] - 1 \in Slots => tls_key[t] # 0
      BY <3>1 DEF Slots
    <3>3. tls_key[t] = t_my_slot[t] + 1 => tls_key[t] - 1 = t_my_slot[t]
      BY <3>1
    <3>4. (tls_key[t] # 0 => tls_key[t] = t_my_slot[t] + 1)
          /\ (pc[t] = "dtor_add" => tls_key[t] - 1 \in Slots)
      OBVIOUS
    <3> QED
      BY <3>2, <3>3, <3>4
  <2>2. pc[t] \in AddPCs => t_my_slot[t] \in Slots
    BY <2>1 DEF AddPCs
  <2>3. due' \in [Threads -> Int]
    BY <1>17, <2>2, OwedType DEF Deliver
  <2>4. /\ handler' \in [Threads -> {"idle", "add", "dec"}]
        /\ slot_state' \in [Slots -> {"FREE", "ACTIVE", "COLLECTED"}]
        /\ sigusr2' \subseteq Threads
    BY <1>17, Labels, Ranges DEF Deliver, HandlerSlots, CanCollect, MarkCollected
  <2>5. UNCHANGED <<proc, loaded, pc, via, hw, t_my_slot, tls_key, slot_start,
                  g_next_slot, g_accumulated, g_pending_signals, thread_list, sent,
                  forks, signalled, timed_out, g_finalized>>
    BY <1>17 DEF Deliver, HandlerSlots, CanCollect, MarkCollected
  <2>6. TypeOK'
    BY <2>3, <2>4, <2>5
  <2>7. NothingTaken'
    BY <1>17 DEF Deliver, HandlerSlots, CanCollect, MarkCollected
  <2>8. AddsInRange'
    BY <1>17, Ranges DEF Deliver, HandlerSlots, CanCollect, MarkCollected
  <2>9. KeyMatches'
    BY <1>17, Ranges DEF Deliver, HandlerSlots, CanCollect, MarkCollected
  <2> QED
    BY <2>6, <2>7, <2>8, <2>9
<1>18. ASSUME NEW t \in Threads, HandlerAdd(t) PROVE TypeInv'
  <2>1. g_accumulated' \in [Threads -> Int]
    BY <1>18, AccumulateType DEF HandlerAdd
  <2>2. handler' \in [Threads -> {"idle", "add", "dec"}]
    BY <1>18, Labels, Ranges DEF HandlerAdd
  <2>3. UNCHANGED <<proc, loaded, pc, via, hw, t_my_slot, tls_key, sigusr2, slot_state,
                  slot_start, g_next_slot, g_pending_signals, thread_list, sent, forks,
                  signalled, due, timed_out, g_finalized>>
    BY <1>18 DEF HandlerAdd
  <2>4. TypeOK'
    BY <2>1, <2>2, <2>3
  <2>5. NothingTaken'
    BY <1>18 DEF HandlerAdd
  <2>6. AddsInRange'
    BY <1>18, Ranges DEF HandlerAdd
  <2>7. KeyMatches'
    BY <1>18, Ranges DEF HandlerAdd
  <2> QED
    BY <2>4, <2>5, <2>6, <2>7
<1>19. ASSUME NEW t \in Threads, HandlerDec(t) PROVE TypeInv'
  <2>1. /\ handler' \in [Threads -> {"idle", "add", "dec"}]
        /\ g_pending_signals' \in Int
    BY <1>19, Labels, Ranges DEF HandlerDec
  <2>2. UNCHANGED <<proc, loaded, pc, via, hw, t_my_slot, tls_key, sigusr2, slot_state,
                  slot_start, g_next_slot, g_accumulated, thread_list, sent, forks,
                  signalled, due, timed_out, g_finalized>>
    BY <1>19 DEF HandlerDec
  <2>3. TypeOK'
    BY <2>1, <2>2
  <2>4. NothingTaken'
    BY <1>19 DEF HandlerDec
  <2>5. AddsInRange'
    BY <1>19, Ranges DEF HandlerDec
  <2>6. KeyMatches'
    BY <1>19, Ranges DEF HandlerDec
  <2> QED
    BY <2>3, <2>4, <2>5, <2>6
<1>20. ASSUME NEW t \in Threads, FinalizeEnter(t) PROVE TypeInv'
  <2>1. /\ pc' \in [Threads -> PCs]
        /\ g_finalized' \in BOOLEAN
    BY <1>20, Labels, Ranges DEF FinalizeEnter
  <2>2. UNCHANGED <<proc, loaded, handler, via, hw, t_my_slot, tls_key, sigusr2,
                  slot_state, slot_start, g_next_slot, g_accumulated, g_pending_signals,
                  thread_list, sent, forks, signalled, due, timed_out>>
    BY <1>20 DEF FinalizeEnter
  <2>3. TypeOK'
    BY <2>1, <2>2
  <2>4. NothingTaken'
    BY <1>20 DEF FinalizeEnter
  <2>5. AddsInRange'
    BY <1>20, Ranges DEF FinalizeEnter
  <2>6. KeyMatches'
    BY <1>20, Ranges DEF FinalizeEnter
  <2> QED
    BY <2>3, <2>4, <2>5, <2>6
<1>21. ASSUME NEW t \in Threads, FinCollect(t) PROVE TypeInv'
  <2>1. pc' \in [Threads -> PCs]
    BY <1>21, Labels, Ranges DEF FinCollect, CollectAt, CanCollect, MarkCollected
  <2>2. slot_state' \in [Slots -> {"FREE", "ACTIVE", "COLLECTED"}]
    BY <1>21, Labels, Ranges DEF FinCollect, CollectAt, CanCollect, MarkCollected
  <2>3. UNCHANGED <<proc, loaded, handler, via, hw, t_my_slot, tls_key, sigusr2,
                  slot_start, g_next_slot, g_accumulated, g_pending_signals,
                  thread_list, sent, forks, signalled, due, timed_out, g_finalized>>
    BY <1>21 DEF FinCollect, CollectAt, CanCollect, MarkCollected
  <2>4. TypeOK'
    BY <2>1, <2>2, <2>3
  <2>5. NothingTaken'
    BY <1>21 DEF FinCollect, CollectAt, CanCollect, MarkCollected
  <2>6. AddsInRange'
    BY <1>21, Ranges DEF FinCollect, CollectAt, CanCollect, MarkCollected
  <2>7. KeyMatches'
    BY <1>21, Ranges DEF FinCollect, CollectAt, CanCollect, MarkCollected
  <2> QED
    BY <2>4, <2>5, <2>6, <2>7
<1>22. ASSUME NEW t \in Threads, FinAdd(t) PROVE TypeInv'
  <2>1. g_accumulated' \in [Threads -> Int]
    BY <1>22, AccumulateType DEF FinAdd, AddAt
  <2>2. pc' \in [Threads -> PCs]
    BY <1>22, Labels, Ranges DEF FinAdd, AddAt
  <2>3. UNCHANGED <<proc, loaded, handler, via, hw, t_my_slot, tls_key, sigusr2,
                  slot_state, slot_start, g_next_slot, g_pending_signals, thread_list,
                  sent, forks, signalled, due, timed_out, g_finalized>>
    BY <1>22 DEF FinAdd, AddAt
  <2>4. TypeOK'
    BY <2>1, <2>2, <2>3
  <2>5. NothingTaken'
    BY <1>22 DEF FinAdd, AddAt
  <2>6. AddsInRange'
    BY <1>22, Ranges DEF FinAdd, AddAt
  <2>7. KeyMatches'
    BY <1>22, Ranges DEF FinAdd, AddAt
  <2> QED
    BY <2>4, <2>5, <2>6, <2>7
<1>23. ASSUME NEW t \in Threads, FinEnumerate(t) PROVE TypeInv'
  <2>1. pc' \in [Threads -> PCs]
    BY <1>23, Labels, Ranges DEF FinEnumerate
  <2>2. thread_list' \subseteq Threads
    BY <1>23, Labels, Ranges DEF FinEnumerate
  <2>3. UNCHANGED <<proc, loaded, handler, via, hw, t_my_slot, tls_key, sigusr2,
                  slot_state, slot_start, g_next_slot, g_accumulated, g_pending_signals,
                  sent, forks, signalled, due, timed_out, g_finalized>>
    BY <1>23 DEF FinEnumerate
  <2>4. TypeOK'
    BY <2>1, <2>2, <2>3
  <2>5. NothingTaken'
    BY <1>23 DEF FinEnumerate
  <2>6. AddsInRange'
    BY <1>23, Ranges DEF FinEnumerate
  <2>7. KeyMatches'
    BY <1>23, Ranges DEF FinEnumerate
  <2> QED
    BY <2>4, <2>5, <2>6, <2>7
<1>24. ASSUME NEW t \in Threads, FinCount(t) PROVE TypeInv'
  <2>1. Cardinality({u \in thread_list : Exists(u)}) \in Nat
    BY CountIsNat
  <2>2. g_pending_signals' \in Int
    BY <1>24, <2>1 DEF FinCount
  <2>3. pc' \in [Threads -> PCs]
    BY <1>24, Labels, Ranges DEF FinCount
  <2>4. UNCHANGED <<proc, loaded, handler, via, hw, t_my_slot, tls_key, sigusr2,
                  slot_state, slot_start, g_next_slot, g_accumulated, thread_list, sent,
                  forks, signalled, due, timed_out, g_finalized>>
    BY <1>24 DEF FinCount
  <2>5. TypeOK'
    BY <2>2, <2>3, <2>4
  <2>6. NothingTaken'
    BY <1>24 DEF FinCount
  <2>7. AddsInRange'
    BY <1>24, Ranges DEF FinCount
  <2>8. KeyMatches'
    BY <1>24, Ranges DEF FinCount
  <2> QED
    BY <2>5, <2>6, <2>7, <2>8
<1>25. ASSUME NEW t \in Threads, FinSignal(t) PROVE TypeInv'
  <2>1. pc' \in [Threads -> PCs]
    BY <1>25, Labels, Ranges DEF FinSignal
  <2>2. /\ thread_list' \subseteq Threads
        /\ sigusr2' \subseteq Threads
        /\ signalled' \subseteq Threads
    BY <1>25, Labels, Ranges DEF FinSignal
  <2>3. UNCHANGED <<proc, loaded, handler, via, hw, t_my_slot, tls_key, slot_state,
                  slot_start, g_next_slot, g_accumulated, g_pending_signals, sent,
                  forks, due, timed_out, g_finalized>>
    BY <1>25 DEF FinSignal
  <2>4. TypeOK'
    BY <2>1, <2>2, <2>3
  <2>5. NothingTaken'
    BY <1>25 DEF FinSignal
  <2>6. AddsInRange'
    BY <1>25, Ranges DEF FinSignal
  <2>7. KeyMatches'
    BY <1>25, Ranges DEF FinSignal
  <2> QED
    BY <2>4, <2>5, <2>6, <2>7
<1>26. ASSUME NEW t \in Threads, FinWaitDone(t) PROVE TypeInv'
  BY <1>26, Labels, Ranges DEF FinWaitDone
<1>27. ASSUME NEW t \in Threads, FinTimeout(t) PROVE TypeInv'
  <2>1. /\ pc' \in [Threads -> PCs]
        /\ timed_out' \in BOOLEAN
    BY <1>27, Labels, Ranges DEF FinTimeout
  <2>2. UNCHANGED <<proc, loaded, handler, via, hw, t_my_slot, tls_key, sigusr2,
                  slot_state, slot_start, g_next_slot, g_accumulated, g_pending_signals,
                  thread_list, sent, forks, signalled, due, g_finalized>>
    BY <1>27 DEF FinTimeout
  <2>3. TypeOK'
    BY <2>1, <2>2
  <2>4. NothingTaken'
    BY <1>27 DEF FinTimeout
  <2>5. AddsInRange'
    BY <1>27, Ranges DEF FinTimeout
  <2>6. KeyMatches'
    BY <1>27, Ranges DEF FinTimeout
  <2> QED
    BY <2>3, <2>4, <2>5, <2>6
<1>28. ASSUME NEW t \in Threads, FinWrite(t) PROVE TypeInv'
  <2>1. pc' \in [Threads -> PCs]
    BY <1>28, Labels, Ranges DEF FinWrite
  <2>2. sent' \in Seq([Threads -> Int])
    BY <1>28, Labels, Ranges DEF FinWrite
  <2>3. UNCHANGED <<proc, loaded, handler, via, hw, t_my_slot, tls_key, sigusr2,
                  slot_state, slot_start, g_next_slot, g_accumulated, g_pending_signals,
                  thread_list, forks, signalled, due, timed_out, g_finalized>>
    BY <1>28 DEF FinWrite
  <2>4. TypeOK'
    BY <2>1, <2>2, <2>3
  <2>5. NothingTaken'
    BY <1>28 DEF FinWrite
  <2>6. AddsInRange'
    BY <1>28, Ranges DEF FinWrite
  <2>7. KeyMatches'
    BY <1>28, Ranges DEF FinWrite
  <2> QED
    BY <2>4, <2>5, <2>6, <2>7
<1>29. ASSUME NEW t \in Threads, Leave(t) PROVE TypeInv'
  <2>1. pc' \in [Threads -> PCs]
    BY <1>29, Labels, Ranges DEF Leave
  <2>2. /\ proc' \in {"loading", "running", "exited", "crashed", "killed"}
        /\ via' \in [Threads -> {"none", "exit", "_exit"}]
    BY <1>29, Labels, Ranges DEF Leave
  <2>3. UNCHANGED <<loaded, handler, hw, t_my_slot, tls_key, sigusr2, slot_state,
                  slot_start, g_next_slot, g_accumulated, g_pending_signals,
                  thread_list, sent, forks, signalled, due, timed_out, g_finalized>>
    BY <1>29 DEF Leave
  <2>4. TypeOK'
    BY <2>1, <2>2, <2>3
  <2>5. NothingTaken'
    BY <1>29 DEF Leave
  <2>6. AddsInRange'
    BY <1>29, Ranges DEF Leave
  <2>7. KeyMatches'
    BY <1>29, Ranges DEF Leave
  <2> QED
    BY <2>4, <2>5, <2>6, <2>7
<1>30. ASSUME NEW t \in Threads, SignalKills(t) PROVE TypeInv'
  <2>1. proc' \in {"loading", "running", "exited", "crashed", "killed"} /\ proc' # "loading"
    BY <1>30 DEF SignalKills
  <2>2. UNCHANGED <<loaded, pc, handler, slots, counts, teardown, history, forks>>
    BY <1>30 DEF SignalKills
  <2> QED
    BY <2>1, <2>2
<1>31. CASE UNCHANGED vars
  BY <1>31 DEF vars
<1> QED
  BY <1>1, <1>2, <1>3, <1>4, <1>5, <1>6, <1>7, <1>8, <1>9, <1>10,
     <1>11, <1>12, <1>13, <1>14, <1>15, <1>16, <1>17, <1>18, <1>19, <1>20,
     <1>21, <1>22, <1>23, <1>24, <1>25, <1>26, <1>27, <1>28, <1>29, <1>30, <1>31
     DEF Next, ThreadStep, HandlerStep, FinalizeStep, FinalizeUnblocked, Terminated

\* Every behaviour keeps the inductive form of type correctness, which the proofs
\* below start from.
LEMMA TypeInvariant == Spec => []TypeInv
  BY InitTypeInv, TypeInvStep, PTL DEF Spec

\* Every variable keeps its type: slot indices stay below MAX_THREAD_SLOTS and the
\* slot counter inside a C int, in any number of threads.
THEOREM TypeCorrect == Spec => []TypeOK
<1>1. TypeInv => TypeOK
  BY DEF TypeInv
<1> QED
  BY <1>1, TypeInvariant, PTL

----------------------------------------------------------------------------
(* One message.                                                            *)

\* Between the exchange on g_finalized and the end of the write.
FinBody == {"fin_collect", "fin_add", "fin_enum", "fin_count", "fin_signal", "fin_wait", "fin_write"}

\* g_finalized lets one thread through, and it has not written yet.
OneFinalizer ==
  /\ \A t \in Threads : pc[t] \in FinBody => g_finalized /\ sent = <<>>
  /\ \A t, u \in Threads : pc[t] \in FinBody /\ pc[u] \in FinBody => t = u
  /\ ~g_finalized => sent = <<>>
  /\ AtMostOneMessage

\* A step that lets no thread into the body, and writes nothing, keeps it so.
LEMMA NobodyEnters ==
  ASSUME OneFinalizer, UNCHANGED <<g_finalized, sent>>,
         \A u \in Threads : pc'[u] \in FinBody => pc[u] \in FinBody
  PROVE  OneFinalizer'
  BY DEF OneFinalizer, AtMostOneMessage

LEMMA OneFinalizerStep == TypeInv /\ OneFinalizer /\ [Next]_vars => OneFinalizer'
<1> SUFFICES ASSUME TypeInv, OneFinalizer, [Next]_vars PROVE OneFinalizer'
  OBVIOUS
<1> pc \in [Threads -> PCs]
  BY DEF TypeInv, TypeOK
<1> USE DEF FinBody, Goto, AtPC, slots, counts, teardown, history
<1>1. ASSUME NEW t \in Threads, FinalizeEnter(t) PROVE OneFinalizer'
  BY <1>1 DEF FinalizeEnter, OneFinalizer, AtMostOneMessage
<1>2. ASSUME NEW t \in Threads, FinWrite(t) PROVE OneFinalizer'
  <2>1. /\ g_finalized /\ sent = <<>>
        /\ \A u \in Threads : pc[u] \in FinBody => u = t
    BY <1>2 DEF FinWrite, OneFinalizer
  <2>2. /\ \A u \in Threads : pc'[u] \notin FinBody
        /\ g_finalized'
    BY <1>2, <2>1 DEF FinWrite
  <2>3. Len(sent') = 1
    BY <1>2, <2>1 DEF FinWrite
  <2> QED
    BY <2>2, <2>3 DEF OneFinalizer, AtMostOneMessage
<1>3. ASSUME NEW t \in Threads, ForkChild(t) PROVE OneFinalizer'
  BY <1>3 DEF ForkChild, OneFinalizer, AtMostOneMessage
<1>4. ASSUME NEW t \in Threads,
         \/ ThreadCreate(t)
         \/ HookAlloc(t)
         \/ HookSnapshot(t)
         \/ HookActivate(t)
         \/ Work(t)
       PROVE  OneFinalizer'
  BY <1>4, NobodyEnters DEF ThreadCreate, HookAlloc, HookSnapshot, SnapshotAt, HookActivate, Work
<1>5. ASSUME NEW t \in Threads,
         \/ ApmcStart(t)
         \/ StartSnapshot(t)
         \/ StartActivate(t)
         \/ ApmcStop(t)
         \/ StopAdd(t)
       PROVE  OneFinalizer'
  BY <1>5, NobodyEnters DEF ApmcStart, StartSnapshot, SnapshotAt, StartActivate, ApmcStop, StopAdd, AddAt
<1>6. ASSUME NEW t \in Threads,
         \/ ThreadExit(t)
         \/ Destructor(t)
         \/ DestructorAdd(t)
         \/ CallExit(t)
       PROVE  OneFinalizer'
  BY <1>6, NobodyEnters DEF ThreadExit, Destructor, CollectAt, DestructorAdd, AddAt, CallExit
<1>7. ASSUME NEW t \in Threads,
         \/ Deliver(t)
         \/ HandlerAdd(t)
         \/ HandlerDec(t)
         \/ SignalKills(t)
       PROVE  OneFinalizer'
  BY <1>7, NobodyEnters DEF Deliver, HandlerAdd, HandlerDec, SignalKills
<1>8. ASSUME NEW t \in Threads,
         \/ FinCollect(t)
         \/ FinAdd(t)
         \/ FinEnumerate(t)
         \/ FinCount(t)
       PROVE  OneFinalizer'
  BY <1>8, NobodyEnters DEF FinCollect, CollectAt, FinAdd, AddAt, FinEnumerate, FinCount
<1>9. ASSUME NEW t \in Threads,
         \/ FinSignal(t)
         \/ FinWaitDone(t)
         \/ FinTimeout(t)
         \/ Leave(t)
       PROVE  OneFinalizer'
  BY <1>9, NobodyEnters DEF FinSignal, FinWaitDone, FinTimeout, Leave
<1>10. CASE Initialize
  BY <1>10, NobodyEnters DEF Initialize
<1>11. CASE UNCHANGED vars
  BY <1>11, NobodyEnters DEF vars
<1> QED
  BY <1>1, <1>2, <1>3, <1>4, <1>5, <1>6, <1>7, <1>8, <1>9, <1>10, <1>11
     DEF Next, ThreadStep, HandlerStep, FinalizeStep, FinalizeUnblocked, Terminated

LEMMA FinalizerInvariant == Spec => []OneFinalizer
<1>1. Init => OneFinalizer
  BY DEF Init, OneFinalizer, FinBody, AtMostOneMessage
<1> QED
  BY <1>1, TypeInvariant, OneFinalizerStep, PTL DEF Spec

\* However many threads leave the process, and whether they come from exit or from
\* _exit, the process writes at most one message.
THEOREM OneMessage == Spec => []AtMostOneMessage
<1>1. OneFinalizer => AtMostOneMessage
  BY DEF OneFinalizer
<1> QED
  BY <1>1, FinalizerInvariant, PTL

----------------------------------------------------------------------------
(* Slots.                                                                  *)

\* Where a thread is about to write to its slot.
SlotPCs == {"hook_snapshot", "hook_activate", "start_snapshot", "start_activate"}

\* The slots of existing threads lie below g_next_slot, which therefore hands out
\* an index nobody has; that is what keeps them apart.
SlotsInv ==
  /\ 0 <= g_next_slot
  /\ \A t \in Threads :
       /\ t_my_slot[t] \in Slots \cup {-1}
       /\ Exists(t) => t_my_slot[t] < g_next_slot
       /\ pc[t] \in SlotPCs => t_my_slot[t] \in Slots
  /\ SlotsDisjoint
  /\ proc # "crashed"

\* Before the counter wraps, the next value is one more.
LEMMA NoWrap ==
  ASSUME MaxTaken <= INT_MAX, NEW n \in CInt, n < MaxTaken
  PROVE  NextInt(n) = n + 1
  BY BoundsAssumption DEF NextInt, CInt

\* A step that hands out no slot, and lets no thread without one write to it.
LEMMA NoSlotTaken ==
  ASSUME TypeInv, SlotsInv, UNCHANGED <<t_my_slot, g_next_slot>>, proc' # "crashed",
         \A u \in Threads :
           /\ pc'[u] \in SlotPCs => pc[u] \in SlotPCs \/ t_my_slot[u] \in Slots
           /\ Exists(u)' => Exists(u) \/ t_my_slot[u] = -1
  PROVE  SlotsInv'
<1>1. -1 \notin Slots
  BY Ranges
<1>2. SlotsDisjoint'
  BY <1>1 DEF SlotsInv, SlotsDisjoint
<1>3. ASSUME NEW u \in Threads, Exists(u)' PROVE t_my_slot'[u] < g_next_slot'
  <2>1. CASE Exists(u)
    BY <2>1 DEF SlotsInv
  <2>2. CASE t_my_slot[u] = -1
    <3>1. g_next_slot \in Int /\ 0 <= g_next_slot
      BY DEF TypeInv, TypeOK, CInt, SlotsInv
    <3> QED
      BY <2>2, <3>1
  <2> QED
    BY <1>3, <2>1, <2>2
<1> QED
  BY <1>2, <1>3 DEF SlotsInv

\* A step that gives slot g_next_slot to one existing thread and moves the counter on.
LEMMA SlotTaken ==
  ASSUME TypeInv, SlotsInv, NEW t \in Threads, Exists(t), proc' # "crashed",
         HasSlot(g_next_slot), g_next_slot' = g_next_slot + 1,
         t_my_slot' = [t_my_slot EXCEPT ![t] = g_next_slot],
         \A u \in Threads \ {t} : pc'[u] = pc[u]
  PROVE  SlotsInv'
<1>1. g_next_slot \in Slots /\ g_next_slot \in Int /\ g_next_slot' >= 0
  BY BoundsAssumption DEF SlotsInv, TypeInv, TypeOK, CInt, HasSlot, Slots
<1>2. /\ t_my_slot'[t] = g_next_slot
      /\ \A u \in Threads \ {t} : t_my_slot'[u] = t_my_slot[u] /\ (Exists(u)' <=> Exists(u))
  BY DEF TypeInv, TypeOK, Exists
<1>3. \A u \in Threads \ {t} : Exists(u) => t_my_slot[u] # g_next_slot
  BY <1>1 DEF SlotsInv
<1>4. SlotsDisjoint'
  BY <1>2, <1>3 DEF SlotsInv, SlotsDisjoint
<1>5. ASSUME NEW u \in Threads
      PROVE  /\ t_my_slot'[u] \in Slots \cup {-1}
             /\ Exists(u)' => t_my_slot'[u] < g_next_slot'
             /\ pc'[u] \in SlotPCs => t_my_slot'[u] \in Slots
  <2>1. CASE u = t
    BY <1>1, <1>2, <2>1
  <2>2. CASE u # t
    <3>1. t_my_slot[u] \in Int
      BY DEF TypeInv, TypeOK, SlotIndices
    <3> QED
      BY <1>1, <1>2, <2>2, <3>1 DEF SlotsInv
  <2> QED
    BY <2>1, <2>2
<1> QED
  BY <1>1, <1>4, <1>5 DEF SlotsInv

\* A step that moves the counter on without giving the slot to anybody.
LEMMA CounterMoves ==
  ASSUME TypeInv, SlotsInv, g_next_slot' = g_next_slot + 1, t_my_slot' = t_my_slot,
         proc' # "crashed",
         \A u \in Threads : /\ pc'[u] \in SlotPCs => pc[u] \in SlotPCs
                            /\ Exists(u)' => Exists(u)
  PROVE  SlotsInv'
<1>1. SlotsDisjoint'
  BY DEF SlotsInv, SlotsDisjoint
<1>2. g_next_slot \in Int /\ \A u \in Threads : t_my_slot[u] \in Int
  BY DEF TypeInv, TypeOK, CInt, SlotIndices
<1> QED
  BY <1>1, <1>2 DEF SlotsInv

LEMMA SlotsInvStep ==
  ASSUME MaxTaken <= INT_MAX
  PROVE  TypeInv /\ SlotsInv /\ [Next]_vars => SlotsInv'
<1> SUFFICES ASSUME TypeInv, SlotsInv, [Next]_vars PROVE SlotsInv'
  OBVIOUS
<1> /\ pc \in [Threads -> PCs]
    /\ g_next_slot \in CInt
  BY DEF TypeInv, TypeOK
<1> USE DEF SlotPCs, Goto, AtPC, slots, counts, teardown, history
<1>1. CASE Initialize
  <2>1. /\ g_next_slot = 0 /\ pc[Main] = "user" /\ proc' = "running"
    BY <1>1 DEF Initialize, TypeInv, NothingTaken
  <2>2. CASE loaded' = "yes" /\ ~RegionMode
    BY <1>1, <2>1, <2>2, Ranges, SlotTaken, ThreadsAssumption DEF Initialize, Exists
  <2>3. CASE ~(loaded' = "yes" /\ ~RegionMode)
    BY <1>1, <2>1, <2>3, NoSlotTaken DEF Initialize, Exists
  <2> QED
    BY <2>2, <2>3
<1>2. ASSUME NEW t \in Threads, HookAlloc(t) PROVE SlotsInv'
  <2>1. g_next_slot' = g_next_slot + 1 /\ Exists(t) /\ proc' # "crashed"
    BY <1>2, NoWrap DEF HookAlloc, Exists
  <2>2. CASE HasSlot(g_next_slot)
    BY <1>2, <2>1, <2>2, SlotTaken DEF HookAlloc
  <2>3. CASE ~HasSlot(g_next_slot)
    BY <1>2, <2>1, <2>3, CounterMoves DEF HookAlloc, Exists
  <2> QED
    BY <2>2, <2>3
<1>3. ASSUME NEW t \in Threads, ApmcStart(t) PROVE SlotsInv'
  <2>1. Exists(t) /\ proc' # "crashed" /\ t_my_slot[t] \in Int
    BY <1>3 DEF ApmcStart, Exists, TypeInv, TypeOK, SlotIndices, SlotsInv
  <2>2. CASE t_my_slot[t] >= 0 /\ Goto(t, "start_snapshot") /\ UNCHANGED <<g_next_slot, t_my_slot, tls_key>>
    <3>1. t_my_slot[t] \in Slots
      BY <2>2 DEF SlotsInv
    <3> QED
      BY <2>1, <2>2, <3>1, NoSlotTaken DEF Exists
  <2>3. CASE t_my_slot[t] < 0
    <3>1. g_next_slot' = g_next_slot + 1
      <4>1. g_next_slot < MaxTaken /\ g_next_slot' = NextInt(g_next_slot)
        BY <1>3, <2>1, <2>3 DEF ApmcStart
      <4> QED
        BY <4>1, NoWrap
    <3>2. CASE HasSlot(g_next_slot)
      BY <1>3, <2>1, <2>3, <3>1, <3>2, SlotTaken DEF ApmcStart
    <3>3. CASE ~HasSlot(g_next_slot)
      <4>1. UNCHANGED <<pc, t_my_slot>>
        BY <1>3, <2>1, <2>3, <3>3 DEF ApmcStart
      <4> QED
        BY <2>1, <3>1, <4>1, CounterMoves DEF Exists
    <3> QED
      BY <3>2, <3>3
  <2> QED
    BY <1>3, <2>2, <2>3 DEF ApmcStart
<1>4. ASSUME NEW t \in Threads, ForkChild(t) PROVE SlotsInv'
  <2>1. \A u \in Threads : /\ u # t => ~Exists(u)' /\ t_my_slot'[u] = -1
                           /\ pc'[u] \notin SlotPCs
    BY <1>4 DEF ForkChild, AtforkChild, Exists
  <2>2. /\ Exists(t) /\ proc' # "crashed"
        /\ \/ t_my_slot'[t] = t_my_slot[t] /\ g_next_slot' = g_next_slot
           \/ t_my_slot'[t] = -1 /\ g_next_slot' = 0
           \/ t_my_slot'[t] = 0 /\ g_next_slot' = 1
    BY <1>4 DEF ForkChild, AtforkChild, Exists
  <2>3. /\ t_my_slot'[t] \in Slots \cup {-1}
        /\ t_my_slot'[t] < g_next_slot'
        /\ 0 <= g_next_slot'
    BY <2>2, Ranges DEF SlotsInv
  <2>4. SlotsDisjoint'
    BY <2>1 DEF SlotsDisjoint
  <2> QED
    BY <2>1, <2>2, <2>3, <2>4 DEF SlotsInv
<1>5. ASSUME NEW t \in Threads, HookSnapshot(t) \/ StartSnapshot(t) PROVE SlotsInv'
  <2>1. t_my_slot[t] \in Slots
    BY <1>5 DEF HookSnapshot, StartSnapshot, SnapshotAt, SlotsInv
  <2> QED
    BY <1>5, <2>1, NoSlotTaken DEF HookSnapshot, StartSnapshot, SnapshotAt, Exists
<1>6. ASSUME NEW t \in Threads,
         \/ ThreadCreate(t)
         \/ HookActivate(t)
         \/ Work(t)
         \/ StartActivate(t)
         \/ ApmcStop(t)
         \/ StopAdd(t)
       PROVE  SlotsInv'
  BY <1>6, NoSlotTaken DEF ThreadCreate, HookActivate, Work, StartActivate, ApmcStop, StopAdd, AddAt, Exists, TypeInv, KeyMatches
<1>7. ASSUME NEW t \in Threads,
         \/ ThreadExit(t)
         \/ Destructor(t)
         \/ DestructorAdd(t)
         \/ CallExit(t)
       PROVE  SlotsInv'
  BY <1>7, NoSlotTaken DEF ThreadExit, Destructor, CollectAt, DestructorAdd, AddAt, CallExit, Exists
<1>8. ASSUME NEW t \in Threads,
         \/ Deliver(t)
         \/ HandlerAdd(t)
         \/ HandlerDec(t)
         \/ SignalKills(t)
       PROVE  SlotsInv'
  BY <1>8, NoSlotTaken DEF Deliver, HandlerAdd, HandlerDec, SignalKills, Exists
<1>9. ASSUME NEW t \in Threads,
         \/ FinalizeEnter(t)
         \/ FinCollect(t)
         \/ FinAdd(t)
         \/ FinEnumerate(t)
         \/ FinCount(t)
       PROVE  SlotsInv'
  BY <1>9, NoSlotTaken DEF FinalizeEnter, FinCollect, CollectAt, FinAdd, AddAt, FinEnumerate, FinCount, Exists
<1>10. ASSUME NEW t \in Threads,
         \/ FinSignal(t)
         \/ FinWaitDone(t)
         \/ FinTimeout(t)
         \/ FinWrite(t)
         \/ Leave(t)
       PROVE  SlotsInv'
  BY <1>10, NoSlotTaken DEF FinSignal, FinWaitDone, FinTimeout, FinWrite, Leave, Exists
<1>11. CASE UNCHANGED vars
  BY <1>11, NoSlotTaken DEF vars, SlotsInv, Exists
<1> QED
  BY <1>1, <1>2, <1>3, <1>4, <1>5, <1>6, <1>7, <1>8, <1>9, <1>10, <1>11
     DEF Next, ThreadStep, HandlerStep, FinalizeStep, FinalizeUnblocked, Terminated

LEMMA SlotsInvariant ==
  ASSUME MaxTaken <= INT_MAX
  PROVE  Spec => []SlotsInv
<1>1. Init => SlotsInv
  BY Ranges DEF Init, SlotsInv, SlotsDisjoint, SlotPCs, Exists
<1> QED
  BY <1>1, TypeInvariant, SlotsInvStep, PTL DEF Spec

\* As long as g_next_slot does not pass INT_MAX, no two existing threads share a
\* slot, through any number of thread starts, region starts and forks.
THEOREM SlotsNeverShared ==
  ASSUME MaxTaken <= INT_MAX
  PROVE  Spec => []SlotsDisjoint
<1>1. SlotsInv => SlotsDisjoint
  BY DEF SlotsInv
<1> QED
  BY <1>1, SlotsInvariant, PTL

\* Under the same condition no thread ever writes a snapshot outside g_slots
\* (kpc_inject.c:119 and 270 index the array without a test of their own).
THEOREM SlotsInBounds ==
  ASSUME MaxTaken <= INT_MAX
  PROVE  Spec => [](proc # "crashed")
<1>1. SlotsInv => proc # "crashed"
  BY DEF SlotsInv
<1> QED
  BY <1>1, SlotsInvariant, PTL
=============================================================================
