------------------------- MODULE InjectLedgerProofs -------------------------
(***************************************************************************)
(* InjectDylib implements CounterLedger, for any number of threads, slots  *)
(* and forks and in both modes: every unit of work done while a slot is    *)
(* active is banked once and whole.                                        *)
(***************************************************************************)
EXTENDS InjectDylibProofs

----------------------------------------------------------------------------
(* The ledger, thread by thread.                                           *)

\* What a thread contributes to the variables of the ledger.
Open(t) ==
  IF Exists(t) /\ CanCollect(t_my_slot[t]) THEN hw[t] - slot_start[t_my_slot[t]] ELSE -1
Banked(t) == g_accumulated[t] + Adding(t)

\* A step that adds nothing for t, and one that leaves t's share of the ledger alone.
SameTotals(t) == Adding(t)' = Adding(t) /\ g_accumulated'[t] = g_accumulated[t]
SameShare(t) == Open(t)' = Open(t) /\ SameTotals(t)

\* No thread but t has its share of the ledger changed.
OthersKeepLedger(t) == \A u \in Threads \ {t} : SameShare(u)

LEMMA SameBanked ==
  ASSUME NEW t \in Threads, SameTotals(t)
  PROVE  Banked(t)' = Banked(t)
  BY DEF SameTotals, Banked

\* The steps of the ledger, from what they do to one thread.
LEMMA StepIsStutter ==
  ASSUME \A u \in Threads : SameShare(u), sent' = sent
  PROVE  UNCHANGED Ledger!vars
  BY DEF Ledger!vars, Open, SameShare, SameTotals

LEMMA StepIsBegin ==
  ASSUME NEW t \in Threads, OthersKeepLedger(t), sent' = sent,
         RegionMode \/ Open(t) = -1, Open(t)' = 0, SameTotals(t)
  PROVE  Ledger!Begin(t)
<1>1. \A u \in Threads : Open(u)' = IF u = t THEN 0 ELSE Open(u)
  BY DEF OthersKeepLedger, SameShare
<1>2. \A u \in Threads : SameTotals(u)
  BY DEF OthersKeepLedger, SameShare
<1> QED
  BY <1>1, <1>2 DEF Ledger!Begin, Ledger!Closed, Open, SameTotals

LEMMA StepIsWork ==
  ASSUME NEW t \in Threads, OthersKeepLedger(t), sent' = sent,
         Open(t) # -1, Open(t)' = Open(t) + 1, SameTotals(t)
  PROVE  Ledger!Work(t)
<1>1. \A u \in Threads : Open(u)' = IF u = t THEN Open(t) + 1 ELSE Open(u)
  BY DEF OthersKeepLedger, SameShare
<1>2. \A u \in Threads : SameTotals(u)
  BY DEF OthersKeepLedger, SameShare
<1> QED
  BY <1>1, <1>2 DEF Ledger!Work, Ledger!Closed, Open, SameTotals

LEMMA StepIsClose ==
  ASSUME NEW t \in Threads, OthersKeepLedger(t), sent' = sent,
         Open(t) # -1, Open(t)' = -1, Adding(t) = 0, Adding(t)' = Open(t),
         g_accumulated'[t] = g_accumulated[t]
  PROVE  Ledger!Close(t)
<1>1. \A u \in Threads : Open(u)' = IF u = t THEN -1 ELSE Open(u)
  BY DEF OthersKeepLedger, SameShare
<1>2. \A u \in Threads : Adding(u)' = IF u = t THEN Open(u) ELSE Adding(u)
  BY DEF OthersKeepLedger, SameShare, SameTotals
<1>3. \A u \in Threads : g_accumulated'[u] = g_accumulated[u]
  BY DEF OthersKeepLedger, SameShare, SameTotals
<1> QED
  BY <1>1, <1>2, <1>3 DEF Ledger!Close, Ledger!Closed, Open

LEMMA StepIsBank ==
  ASSUME NEW t \in Threads, OthersKeepLedger(t), sent' = sent,
         Open(t)' = Open(t), Adding(t)' = 0,
         g_accumulated'[t] = g_accumulated[t] + Adding(t)
  PROVE  Ledger!Bank(t)
<1>1. \A u \in Threads : Open(u)' = Open(u)
  BY DEF OthersKeepLedger, SameShare
<1>2. \A u \in Threads : Adding(u)' = IF u = t THEN 0 ELSE Adding(u)
  BY DEF OthersKeepLedger, SameShare, SameTotals
<1>3. \A u \in Threads :
        g_accumulated'[u] = IF u = t THEN g_accumulated[u] + Adding(u) ELSE g_accumulated[u]
  BY DEF OthersKeepLedger, SameShare, SameTotals
<1> QED
  BY <1>1, <1>2, <1>3 DEF Ledger!Bank, Open

LEMMA StepIsRenew ==
  ASSUME NEW t \in Threads, sent' = <<>>,
         \A u \in Threads : Adding(u)' = 0 /\ g_accumulated'[u] = 0,
         \A u \in Threads \ {t} : Open(u)' = -1,
         Open(t)' \in {-1, 0}
  PROVE  Ledger!Renew(t)
<1>1. CASE Open(t)' = -1
  <2>1. \A u \in Threads : Open(u)' = -1
    BY <1>1
  <2> QED
    BY <2>1 DEF Ledger!Renew, Ledger!Closed, Open
<1>2. CASE Open(t)' = 0
  <2>1. \A u \in Threads : Open(u)' = IF u = t THEN 0 ELSE -1
    BY <1>2
  <2> QED
    BY <2>1 DEF Ledger!Renew, Ledger!Closed, Open
<1> QED
  BY <1>1, <1>2
----------------------------------------------------------------------------
(* The inductive invariant.                                                *)

HookPCs == {"hook_snapshot", "hook_activate"}
StartPCs == {"start_snapshot", "start_activate"}

\* t won the CAS on its slot and has not added the delta yet.
Collecting(t) == handler[t] = "add" \/ pc[t] \in AddPCs

\* t's slot holds an open measurement.
Measuring(t) == Exists(t) /\ CanCollect(t_my_slot[t])

\* The snapshot a delta starts from was taken before, by the thread that reads it; it
\* is fresh where the slot is about to be activated.
SnapshotOwn(t) ==
  /\ Measuring(t) \/ Collecting(t) => slot_start[t_my_slot[t]] <= hw[t]
  /\ pc[t] \in {"hook_activate", "start_activate"} => slot_start[t_my_slot[t]] = hw[t]

\* A thread collects its slot once: it is not ACTIVE while the delta is being added,
\* and not both the handler and the code it interrupted add it.
CollectsOnce(t) ==
  /\ Collecting(t) => Exists(t) /\ t_my_slot[t] \in Slots /\ ~Measuring(t)
  /\ ~(handler[t] = "add" /\ pc[t] \in AddPCs)

\* A slot is activated only where its thread's destructor will find it, and the hook
\* activates one that is not.
KeyIsSet(t) ==
  /\ t_my_slot[t] >= 0 /\ pc[t] \notin HookPCs => tls_key[t] = t_my_slot[t] + 1
  /\ pc[t] \in HookPCs => ~Measuring(t)

\* The hook runs in normal mode, regions in region mode, and neither in a library that
\* is not fully loaded, which counts nothing.
ModeMatches(t) ==
  /\ pc[t] \in HookPCs \cup {"hook"} => loaded = "yes" /\ ~RegionMode
  /\ pc[t] \in StartPCs => loaded = "yes" /\ RegionMode
  /\ loaded # "yes" => ~Measuring(t) /\ ~Collecting(t) /\ g_accumulated[t] = 0

ThreadInv(t) ==
  /\ SnapshotOwn(t)
  /\ CollectsOnce(t)
  /\ KeyIsSet(t)
  /\ ModeMatches(t)
  /\ g_accumulated[t] >= 0

\* Nothing but the main thread runs before the library is loaded.
LoadsFirst == proc = "loading" => loaded = "no" /\ \A t \in Threads \ {Main} : pc[t] = "none"

\* An open measurement belongs to a thread that exists.
HasOwner(s) == \E t \in Threads : Exists(t) /\ t_my_slot[t] = s

LedgerInv ==
  /\ LoadsFirst
  /\ \A t \in Threads : ThreadInv(t)
  /\ \A s \in Slots : slot_state[s] = "ACTIVE" => HasOwner(s)
----------------------------------------------------------------------------
(* What one thread's step leaves alone.                                    *)

\* Only t moves, and the slots of the other threads that exist are not written.
OnlyThread(t) ==
  \A u \in Threads \ {t} :
    /\ pc'[u] = pc[u] /\ handler'[u] = handler[u]
    /\ hw'[u] = hw[u] /\ g_accumulated'[u] = g_accumulated[u]
    /\ t_my_slot'[u] = t_my_slot[u] /\ tls_key'[u] = tls_key[u]
    /\ Exists(u) /\ t_my_slot[u] \in Slots =>
         /\ slot_state'[t_my_slot[u]] = slot_state[t_my_slot[u]]
         /\ slot_start'[t_my_slot[u]] = slot_start[t_my_slot[u]]

\* A step of t never writes to a slot that another existing thread has.
LEMMA OwnSlot ==
  ASSUME SlotsInv, NEW t \in Threads, Exists(t), t_my_slot[t] \in Slots,
         NEW u \in Threads \ {t}, Exists(u), t_my_slot[u] \in Slots
  PROVE  t_my_slot[t] # t_my_slot[u]
  BY DEF SlotsInv, SlotsDisjoint

LEMMA OthersKept ==
  ASSUME SlotsInv, LedgerInv, NEW t \in Threads, OnlyThread(t), loaded' = loaded,
         NEW u \in Threads \ {t}
  PROVE  ThreadInv(u)' /\ SameShare(u)
<1>1. ThreadInv(u)
  BY DEF LedgerInv
<1>2. /\ pc'[u] = pc[u] /\ handler'[u] = handler[u]
      /\ hw'[u] = hw[u] /\ g_accumulated'[u] = g_accumulated[u]
      /\ t_my_slot'[u] = t_my_slot[u] /\ tls_key'[u] = tls_key[u]
      /\ Exists(u)' = Exists(u) /\ Collecting(u)' = Collecting(u)
  BY DEF OnlyThread, Exists, Collecting
<1>3. CASE Exists(u) /\ t_my_slot[u] \in Slots
  <2>1. /\ slot_state'[t_my_slot[u]] = slot_state[t_my_slot[u]]
        /\ slot_start'[t_my_slot[u]] = slot_start[t_my_slot[u]]
    BY <1>3 DEF OnlyThread
  <2>2. Measuring(u)' = Measuring(u)
    BY <1>2, <2>1 DEF Measuring, CanCollect
  <2>3. ThreadInv(u)'
    BY <1>1, <1>2, <2>1, <2>2 DEF ThreadInv, SnapshotOwn, CollectsOnce, KeyIsSet, ModeMatches
  <2> QED
    BY <1>2, <2>1, <2>2, <2>3 DEF SameShare, SameTotals, Open, Adding, Measuring, Collecting
<1>4. CASE ~(Exists(u) /\ t_my_slot[u] \in Slots)
  <2>1. ~Measuring(u) /\ ~Measuring(u)' /\ ~Collecting(u)
    BY <1>1, <1>2, <1>4 DEF Measuring, CanCollect, ThreadInv, CollectsOnce
  <2>2. pc[u] \notin {"hook_activate", "start_activate"}
    BY <1>4 DEF SlotsInv, SlotPCs, Exists
  <2>3. ThreadInv(u)'
    BY <1>1, <1>2, <2>1, <2>2 DEF ThreadInv, SnapshotOwn, CollectsOnce, KeyIsSet, ModeMatches
  <2> QED
    BY <1>2, <2>1, <2>3 DEF SameShare, SameTotals, Open, Adding, Measuring, Collecting
<1> QED
  BY <1>3, <1>4
\* The slots that are ACTIVE still have an owner after a step of t that gives up no
\* open measurement, and activates no slot but its own.
LEMMA OwnersKept ==
  ASSUME LedgerInv, NEW t \in Threads, OnlyThread(t),
         \A s \in Slots : slot_state'[s] = "ACTIVE" =>
           \/ slot_state[s] = "ACTIVE" /\ ~(Exists(t) /\ t_my_slot[t] = s)
           \/ Exists(t)' /\ t_my_slot'[t] = s
  PROVE  \A s \in Slots : slot_state'[s] = "ACTIVE" => HasOwner(s)'
<1> SUFFICES ASSUME NEW s \in Slots, slot_state'[s] = "ACTIVE"
             PROVE  HasOwner(s)'
  OBVIOUS
<1>1. CASE Exists(t)' /\ t_my_slot'[t] = s
  BY <1>1 DEF HasOwner
<1>2. CASE slot_state[s] = "ACTIVE" /\ ~(Exists(t) /\ t_my_slot[t] = s)
  <2>1. PICK u \in Threads : Exists(u) /\ t_my_slot[u] = s
    BY <1>2 DEF LedgerInv, HasOwner
  <2>2. u # t
    BY <1>2, <2>1
  <2>3. Exists(u)' /\ t_my_slot'[u] = s
    BY <2>1, <2>2 DEF OnlyThread, Exists
  <2> QED
    BY <2>3 DEF HasOwner
<1> QED
  BY <1>1, <1>2

\* What has to be shown of a step of t: that it keeps ThreadInv for t itself, and leaves
\* no ACTIVE slot behind.
LEMMA InvOfOne ==
  ASSUME SlotsInv, LedgerInv, NEW t \in Threads, OnlyThread(t), loaded' = loaded,
         proc' # "loading", ThreadInv(t)',
         \A s \in Slots : slot_state'[s] = "ACTIVE" =>
           \/ slot_state[s] = "ACTIVE" /\ ~(Exists(t) /\ t_my_slot[t] = s)
           \/ Exists(t)' /\ t_my_slot'[t] = s
  PROVE  LedgerInv' /\ OthersKeepLedger(t)
<1>1. \A u \in Threads : ThreadInv(u)'
  BY OthersKept
<1>2. OthersKeepLedger(t)
  BY OthersKept DEF OthersKeepLedger
<1> QED
  BY <1>1, <1>2, OwnersKept DEF LedgerInv, LoadsFirst

\* A step that the ledger sees as one of its own, or not at all.
LedgerStep == Ledger!Next \/ UNCHANGED Ledger!vars

\* A step of t, other than a fork, changes no other thread's share, and takes nothing
\* out of what t has banked.
Settles(t) ==
  /\ OthersKeepLedger(t)
  /\ \/ Banked(t)' = Banked(t)
     \/ Open(t) # -1 /\ Banked(t)' = Banked(t) + Open(t)

\* Most steps of a thread write no slot state, keep its slot while it is ACTIVE, and
\* leave its share of the ledger as it is.
LEMMA QuietStep ==
  ASSUME SlotsInv, LedgerInv, NEW t \in Threads, OnlyThread(t), loaded' = loaded,
         proc' # "loading", ThreadInv(t)', slot_state' = slot_state, sent' = sent,
         Exists(t) => (Exists(t)' /\ t_my_slot'[t] = t_my_slot[t]) \/ ~Measuring(t),
         SameShare(t)
  PROVE  LedgerInv' /\ LedgerStep /\ Settles(t)
<1>1. \A s \in Slots : slot_state'[s] = "ACTIVE" =>
        \/ slot_state[s] = "ACTIVE" /\ ~(Exists(t) /\ t_my_slot[t] = s)
        \/ Exists(t)' /\ t_my_slot'[t] = s
  BY DEF Measuring, CanCollect
<1>2. LedgerInv' /\ OthersKeepLedger(t)
  BY <1>1, InvOfOne
<1>3. UNCHANGED Ledger!vars
  BY <1>2, StepIsStutter DEF OthersKeepLedger
<1>4. Banked(t)' = Banked(t)
  BY SameBanked DEF SameShare
<1> QED
  BY <1>2, <1>3, <1>4 DEF LedgerStep, Settles

\* Of these, the steps that only move t along its code, through places where nothing
\* is being collected and no slot is being given out.
PlainPCs == PCs \ (AddPCs \cup HookPCs \cup StartPCs \cup {"none", "dead", "hook"})

LEMMA PlainStep ==
  ASSUME TypeInv, SlotsInv, LedgerInv, NEW t \in Threads, proc = "running",
         proc' # "loading",
         pc[t] \in PlainPCs, NEW l \in PlainPCs, pc' = [pc EXCEPT ![t] = l],
         UNCHANGED <<loaded, handler, slots, counts, sent>>
  PROVE  LedgerInv' /\ LedgerStep /\ Settles(t)
<1>1. OnlyThread(t)
  BY DEF OnlyThread, slots, counts
<1>2. /\ pc'[t] = l /\ Exists(t) /\ Exists(t)' /\ t_my_slot' = t_my_slot
      /\ UNCHANGED <<loaded, handler, slots, counts>>
  BY DEF TypeInv, TypeOK, Exists, PlainPCs, slots
<1>3. Measuring(t)' = Measuring(t) /\ Collecting(t)' = Collecting(t)
  BY <1>2 DEF Measuring, CanCollect, Collecting, PlainPCs, slots
<1>4. ThreadInv(t)'
  <2>1. ThreadInv(t) /\ pc[t] \notin HookPCs
    BY DEF LedgerInv, PlainPCs
  <2> QED
    BY <1>2, <1>3, <2>1 DEF ThreadInv, SnapshotOwn, CollectsOnce, KeyIsSet, ModeMatches,
         PlainPCs, HookPCs, StartPCs, slots, counts
<1>5. SameShare(t)
  BY <1>2, <1>3 DEF SameShare, SameTotals, Open, Adding, Measuring, Collecting, slots, counts, PlainPCs, CanCollect
<1> QED
  BY <1>1, <1>2, <1>4, <1>5, QuietStep DEF slots
----------------------------------------------------------------------------
(* The steps, one lemma per group of actions.                              *)

LEMMA PlainSteps ==
  ASSUME TypeInv, SlotsInv, LedgerInv, NEW t \in Threads,
         \/ CallExit(t) \/ FinalizeEnter(t) \/ FinEnumerate(t) \/ FinCount(t)
         \/ FinSignal(t) \/ FinWaitDone(t) \/ FinTimeout(t) \/ Leave(t)
  PROVE  LedgerInv' /\ LedgerStep /\ Settles(t)
<1>1. {"user", "finalize", "fin_collect", "fin_enum", "fin_count", "fin_signal",
       "fin_wait", "fin_write", "returned", "dtor"} \subseteq PlainPCs
  BY DEF PlainPCs, PCs, FinPCs, AddPCs, HookPCs, StartPCs
<1>2. pc \in [Threads -> PCs]
  BY DEF TypeInv, TypeOK
<1> USE DEF AtPC, Goto, teardown
<1>3. CASE CallExit(t)
  BY <1>1, <1>3, PlainStep DEF CallExit
<1>4. CASE FinalizeEnter(t)
  BY <1>1, <1>4, PlainStep DEF FinalizeEnter
<1>5. CASE FinEnumerate(t)
  BY <1>1, <1>5, PlainStep DEF FinEnumerate
<1>6. CASE FinCount(t)
  BY <1>1, <1>6, PlainStep DEF FinCount
<1>7. CASE FinSignal(t)
  <2>1. pc' = [pc EXCEPT ![t] = "fin_signal"] \/ pc' = [pc EXCEPT ![t] = "fin_wait"]
    BY <1>2, <1>7 DEF FinSignal
  <2> QED
    BY <1>1, <1>7, <2>1, PlainStep DEF FinSignal
<1>8. CASE FinWaitDone(t) \/ FinTimeout(t)
  BY <1>1, <1>8, PlainStep DEF FinWaitDone, FinTimeout
<1>9. CASE Leave(t)
  <2>1. pc' = [pc EXCEPT ![t] = "finalize"] \/ pc' = [pc EXCEPT ![t] = "returned"]
    BY <1>2, <1>9 DEF Leave
  <2> QED
    BY <1>1, <1>9, <2>1, PlainStep DEF Leave
<1> QED
  BY <1>3, <1>4, <1>5, <1>6, <1>7, <1>8, <1>9

LEMMA ThreadExitStep ==
  ASSUME TypeInv, SlotsInv, LedgerInv, NEW t \in Threads, ThreadExit(t)
  PROVE  LedgerInv' /\ LedgerStep /\ Settles(t)
<1> USE DEF AtPC, Goto, teardown
<1>1. pc \in [Threads -> PCs] /\ ThreadInv(t)
  BY DEF TypeInv, TypeOK, LedgerInv
<1>2. CASE tls_key[t] # 0
  <2>1. {"user", "dtor"} \subseteq PlainPCs
    BY DEF PlainPCs, PCs, FinPCs, AddPCs, HookPCs, StartPCs
  <2> QED
    BY <1>2, <2>1, PlainStep DEF ThreadExit
<1>3. CASE tls_key[t] = 0
  <2>1. pc' = [pc EXCEPT ![t] = "dead"] /\ pc[t] = "user" /\ handler[t] = "idle"
    BY <1>3 DEF ThreadExit
  <2>2. t_my_slot[t] < 0 /\ t_my_slot[t] \notin Slots /\ t_my_slot[t] \in Int
    <3>1. t_my_slot[t] >= 0 => tls_key[t] = t_my_slot[t] + 1
      BY <1>1, <2>1 DEF ThreadInv, KeyIsSet, HookPCs
    <3>2. t_my_slot[t] \in Int
      BY DEF TypeInv, TypeOK, SlotIndices
    <3> QED
      BY <1>3, <3>1, <3>2 DEF Slots
  <2>3. ~Measuring(t) /\ ~Measuring(t)' /\ ~Collecting(t) /\ ~Collecting(t)'
    BY <1>1, <2>1, <2>2 DEF ThreadExit, Measuring, CanCollect, Collecting, Exists, slots, AddPCs
  <2>4. OnlyThread(t)
    BY <1>1, <2>1 DEF ThreadExit, OnlyThread, slots, counts
  <2>5. ThreadInv(t)'
    BY <1>1, <2>1, <2>2, <2>3 DEF ThreadExit, ThreadInv, SnapshotOwn, CollectsOnce, KeyIsSet,
         ModeMatches, HookPCs, StartPCs, AddPCs, slots, counts
  <2>6. SameShare(t)
    BY <1>1, <2>1, <2>3 DEF ThreadExit, SameShare, SameTotals, Open, Adding, Measuring, Collecting, slots, counts
  <2> QED
    BY <2>3, <2>4, <2>5, <2>6, QuietStep DEF ThreadExit, slots
<1> QED
  BY <1>2, <1>3

LEMMA CreateStep ==
  ASSUME TypeInv, SlotsInv, LedgerInv, NEW t \in Threads, ThreadCreate(t)
  PROVE  LedgerInv' /\ LedgerStep /\ Settles(t)
<1> USE DEF AtPC, Goto, teardown
<1>1. pc \in [Threads -> PCs] /\ ThreadInv(t)
  BY DEF TypeInv, TypeOK, LedgerInv
<1>2. /\ pc[t] = "none" /\ pc'[t] \in {"hook", "user"} /\ t_my_slot[t] = -1 /\ -1 \notin Slots
      /\ pc'[t] = "hook" => loaded = "yes" /\ ~RegionMode
  BY <1>1, Ranges DEF ThreadCreate, TypeInv, KeyMatches
<1>3. ~Measuring(t) /\ ~Measuring(t)' /\ ~Collecting(t) /\ ~Collecting(t)'
  BY <1>1, <1>2 DEF ThreadCreate, ThreadInv, CollectsOnce, Measuring, CanCollect, Collecting, Exists,
       slots, AddPCs
<1>4. OnlyThread(t)
  BY <1>1, <1>2 DEF ThreadCreate, OnlyThread, slots, counts
<1>5. ThreadInv(t)'
  BY <1>1, <1>2, <1>3 DEF ThreadCreate, ThreadInv, SnapshotOwn, CollectsOnce, KeyIsSet,
       ModeMatches, HookPCs, StartPCs, AddPCs, slots, counts
<1>6. SameShare(t)
  BY <1>1, <1>2, <1>3 DEF ThreadCreate, SameShare, SameTotals, Open, Adding, Measuring, Collecting, slots, counts
<1> QED
  BY <1>3, <1>4, <1>5, <1>6, QuietStep DEF ThreadCreate, slots
\* The next slot is not ACTIVE: whoever owned it would lie below the counter.
LEMMA NextSlotClosed ==
  ASSUME TypeInv, SlotsInv, LedgerInv, g_next_slot \in Slots
  PROVE  slot_state[g_next_slot] # "ACTIVE"
<1> SUFFICES ASSUME slot_state[g_next_slot] = "ACTIVE" PROVE FALSE
  OBVIOUS
<1>1. PICK t \in Threads : Exists(t) /\ t_my_slot[t] = g_next_slot
  BY DEF LedgerInv, HasOwner
<1>2. t_my_slot[t] < g_next_slot /\ g_next_slot \in Int
  BY <1>1 DEF SlotsInv, TypeInv, TypeOK, CInt
<1> QED
  BY <1>1, <1>2

LEMMA HookAllocStep ==
  ASSUME TypeInv, SlotsInv, LedgerInv, NEW t \in Threads, HookAlloc(t)
  PROVE  LedgerInv' /\ LedgerStep /\ Settles(t)
<1> USE DEF AtPC, Goto, teardown
<1>1. pc \in [Threads -> PCs] /\ t_my_slot \in [Threads -> SlotIndices] /\ ThreadInv(t)
  BY DEF TypeInv, TypeOK, LedgerInv
<1>2. pc[t] = "hook" /\ t_my_slot[t] = -1 /\ -1 \notin Slots /\ handler[t] = "idle"
  BY Ranges DEF HookAlloc, TypeInv, KeyMatches
<1>3. \/ pc'[t] = "user" /\ t_my_slot'[t] = -1
      \/ pc'[t] = "hook_snapshot" /\ t_my_slot'[t] \in Slots /\ slot_state[t_my_slot'[t]] # "ACTIVE"
  <2>1. HasSlot(g_next_slot) => g_next_slot \in Slots
    BY BoundsAssumption DEF SlotsInv, HasSlot, Slots, TypeInv, TypeOK, CInt
  <2> QED
    BY <1>1, <1>2, <2>1, NextSlotClosed DEF HookAlloc
<1>4. ~Measuring(t) /\ ~Measuring(t)' /\ ~Collecting(t) /\ ~Collecting(t)'
  BY <1>2, <1>3 DEF HookAlloc, Measuring, CanCollect, Collecting, Exists, AddPCs
<1>5. OnlyThread(t)
  BY <1>1 DEF HookAlloc, OnlyThread, counts
<1>6. ThreadInv(t)'
  BY <1>1, <1>2, <1>3, <1>4 DEF HookAlloc, ThreadInv, SnapshotOwn, CollectsOnce, KeyIsSet,
       ModeMatches, HookPCs, StartPCs, AddPCs, counts
<1>7. SameShare(t)
  BY <1>1, <1>2, <1>3, <1>4 DEF HookAlloc, SameShare, SameTotals, Open, Adding, Measuring, Collecting, counts
<1> QED
  BY <1>4, <1>5, <1>6, <1>7, QuietStep DEF HookAlloc

LEMMA ApmcStartStep ==
  ASSUME TypeInv, SlotsInv, LedgerInv, NEW t \in Threads, ApmcStart(t)
  PROVE  LedgerInv' /\ LedgerStep /\ Settles(t)
<1> USE DEF AtPC, Goto, teardown
<1>1. /\ pc \in [Threads -> PCs] /\ t_my_slot \in [Threads -> SlotIndices]
      /\ tls_key \in [Threads -> KeyValues] /\ ThreadInv(t)
  BY DEF TypeInv, TypeOK, LedgerInv
<1>2. /\ pc[t] = "user" /\ handler[t] = "idle" /\ proc = "running" /\ loaded = "yes" /\ RegionMode
      /\ UNCHANGED <<proc, loaded, handler, slot_state, slot_start, counts, teardown, history, forks>>
  BY DEF ApmcStart
<1>3. OnlyThread(t)
  BY <1>1, <1>2 DEF ApmcStart, OnlyThread, counts
<1>4. CASE t_my_slot[t] >= 0 /\ pc' = [pc EXCEPT ![t] = "start_snapshot"] /\ UNCHANGED <<g_next_slot, t_my_slot, tls_key>>
  <2>1. Measuring(t)' = Measuring(t) /\ ~Collecting(t) /\ ~Collecting(t)' /\ Exists(t)'
    BY <1>1, <1>2, <1>4 DEF Measuring, CanCollect, Collecting, Exists, AddPCs
  <2>2. ThreadInv(t)'
    BY <1>1, <1>2, <1>4, <2>1 DEF ThreadInv, SnapshotOwn, CollectsOnce, KeyIsSet,
         ModeMatches, HookPCs, StartPCs, AddPCs, counts
  <2>3. SameShare(t)
    BY <1>2, <1>4, <2>1 DEF SameShare, SameTotals, Open, Adding, Measuring, Collecting, counts
  <2> QED
    BY <1>2, <1>3, <1>4, <2>1, <2>2, <2>3, QuietStep DEF teardown
<1>5. CASE t_my_slot[t] < 0 /\ HasSlot(g_next_slot)
  <2>1. t_my_slot[t] \notin Slots /\ g_next_slot \in Slots /\ slot_state[g_next_slot] # "ACTIVE" /\ g_next_slot \in Int
    <3>1. g_next_slot \in Slots /\ t_my_slot[t] \in Int /\ g_next_slot \in Int
      BY <1>1, <1>5, BoundsAssumption DEF SlotsInv, HasSlot, Slots, SlotIndices, TypeInv, TypeOK, CInt
    <3> QED
      BY <1>5, <3>1, NextSlotClosed DEF Slots
  <2>2. /\ t_my_slot'[t] = g_next_slot /\ tls_key'[t] = g_next_slot + 1
        /\ pc'[t] = "start_snapshot"
    <3>1. ~(t_my_slot[t] >= 0)
      BY <1>1, <1>5 DEF SlotIndices
    <3> QED
      BY <1>1, <1>5, <3>1 DEF ApmcStart
  <2>3. ~Measuring(t) /\ ~Measuring(t)' /\ ~Collecting(t) /\ ~Collecting(t)'
    BY <1>2, <2>1, <2>2 DEF Measuring, CanCollect, Collecting, AddPCs
  <2>4. ThreadInv(t)'
    BY <1>1, <1>2, <2>2, <2>3 DEF ThreadInv, SnapshotOwn, CollectsOnce, KeyIsSet,
         ModeMatches, HookPCs, StartPCs, AddPCs, counts
  <2>5. SameShare(t)
    BY <1>2, <2>3 DEF SameShare, SameTotals, Open, Adding, Measuring, Collecting, counts
  <2> QED
    BY <1>2, <1>3, <2>3, <2>4, <2>5, QuietStep
<1>6. CASE t_my_slot[t] < 0 /\ ~HasSlot(g_next_slot)
  <2>1. UNCHANGED <<pc, t_my_slot, tls_key>>
    <3>1. ~(t_my_slot[t] >= 0)
      BY <1>1, <1>6 DEF SlotIndices
    <3> QED
      BY <1>6, <3>1 DEF ApmcStart
  <2>2. Measuring(t)' = Measuring(t) /\ Collecting(t)' = Collecting(t) /\ Exists(t)'
    BY <1>2, <2>1 DEF Measuring, CanCollect, Collecting, Exists
  <2>3. ThreadInv(t)'
    BY <1>1, <1>2, <2>1, <2>2 DEF ThreadInv, SnapshotOwn, CollectsOnce, KeyIsSet, ModeMatches, counts
  <2>4. SameShare(t)
    BY <1>2, <2>1, <2>2 DEF SameShare, SameTotals, Open, Adding, Measuring, Collecting, counts
  <2> QED
    BY <1>2, <1>3, <2>1, <2>2, <2>3, <2>4, QuietStep
<1> QED
  BY <1>2, <1>4, <1>5, <1>6 DEF ApmcStart

\* The start snapshot of an open measurement begins it again, from zero.
LEMMA SnapshotStep ==
  ASSUME TypeInv, SlotsInv, LedgerInv, NEW t \in Threads, HookSnapshot(t) \/ StartSnapshot(t)
  PROVE  LedgerInv' /\ LedgerStep /\ Settles(t)
<1> USE DEF AtPC, Goto, teardown
<1>1. /\ pc \in [Threads -> PCs] /\ slot_start \in [Slots -> Nat] /\ hw[t] \in Nat
      /\ ThreadInv(t)
  BY DEF TypeInv, TypeOK, LedgerInv
<1>2. /\ pc[t] \in {"hook_snapshot", "start_snapshot"} /\ handler[t] = "idle" /\ proc = "running"
      /\ t_my_slot[t] \in Slots
  BY DEF HookSnapshot, StartSnapshot, SnapshotAt, SlotsInv, SlotPCs
<1>3. /\ slot_start' = [slot_start EXCEPT ![t_my_slot[t]] = hw[t]]
      /\ UNCHANGED <<proc, loaded, handler, t_my_slot, tls_key, slot_state, counts, sent>>
      /\ \/ pc[t] = "hook_snapshot" /\ pc' = [pc EXCEPT ![t] = "hook_activate"]
         \/ pc[t] = "start_snapshot" /\ pc' = [pc EXCEPT ![t] = "start_activate"]
  BY <1>2 DEF HookSnapshot, StartSnapshot, SnapshotAt, Snapshot
<1>4. slot_start'[t_my_slot[t]] = hw[t] /\ hw'[t] = hw[t] /\ hw[t] <= hw[t]
  BY <1>1, <1>2, <1>3 DEF counts
<1>5. Measuring(t)' = Measuring(t) /\ ~Collecting(t) /\ ~Collecting(t)' /\ Exists(t) /\ Exists(t)'
  BY <1>1, <1>2, <1>3 DEF Measuring, CanCollect, Collecting, Exists, AddPCs
<1>6. OnlyThread(t)
  BY <1>1, <1>2, <1>3, <1>5, OwnSlot DEF OnlyThread, counts
<1>7. ThreadInv(t)'
  BY <1>1, <1>3, <1>4, <1>5 DEF ThreadInv, SnapshotOwn, CollectsOnce, KeyIsSet,
       ModeMatches, HookPCs, StartPCs, AddPCs, counts
<1>8. SameTotals(t)
  BY <1>3, <1>5 DEF SameTotals, Adding, Collecting, counts
<1>9. CASE Measuring(t)
  <2>1. Open(t)' = 0 /\ RegionMode
    <3>1. hw[t] - hw[t] = 0
      BY <1>1
    <3> QED
      BY <1>1, <1>3, <1>4, <1>5, <1>9, <3>1 DEF Open, Measuring, ThreadInv, KeyIsSet, ModeMatches, HookPCs, StartPCs
  <2>2. LedgerInv' /\ OthersKeepLedger(t)
    BY <1>2, <1>3, <1>5, <1>6, <1>7, InvOfOne
  <2>3. Ledger!Begin(t)
    BY <1>3, <1>8, <2>1, <2>2, StepIsBegin
  <2> QED
    BY <1>8, <2>2, <2>3, SameBanked DEF LedgerStep, Settles, Ledger!Next
<1>10. CASE ~Measuring(t)
  <2>1. SameShare(t)
    BY <1>5, <1>8, <1>10 DEF SameShare, Open, Measuring
  <2> QED
    BY <1>2, <1>3, <1>6, <1>7, <1>10, <2>1, QuietStep
<1> QED
  BY <1>9, <1>10
\* Activating a slot begins a measurement, unless a region is being started again.
LEMMA ActivateStep ==
  ASSUME TypeInv, SlotsInv, LedgerInv, NEW t \in Threads, HookActivate(t) \/ StartActivate(t)
  PROVE  LedgerInv' /\ LedgerStep /\ Settles(t)
<1> USE DEF AtPC, Goto, teardown
<1>1. /\ pc \in [Threads -> PCs] /\ slot_state \in [Slots -> {"FREE", "ACTIVE", "COLLECTED"}]
      /\ tls_key \in [Threads -> KeyValues] /\ hw[t] \in Nat /\ ThreadInv(t)
  BY DEF TypeInv, TypeOK, LedgerInv
<1>2. /\ pc[t] \in {"hook_activate", "start_activate"} /\ handler[t] = "idle" /\ proc = "running"
      /\ t_my_slot[t] \in Slots /\ pc' = [pc EXCEPT ![t] = "user"]
      /\ slot_state' = [slot_state EXCEPT ![t_my_slot[t]] = "ACTIVE"]
      /\ UNCHANGED <<proc, loaded, handler, t_my_slot, slot_start, counts, sent>>
  BY DEF HookActivate, StartActivate, SlotsInv, SlotPCs
<1>3. \/ pc[t] = "hook_activate" /\ tls_key' = [tls_key EXCEPT ![t] = t_my_slot[t] + 1]
      \/ pc[t] = "start_activate" /\ tls_key' = tls_key
  BY <1>2 DEF HookActivate, StartActivate
<1>4. slot_start[t_my_slot[t]] = hw[t] /\ hw[t] <= hw[t] /\ hw[t] - hw[t] = 0 /\ hw'[t] = hw[t]
  BY <1>1, <1>2 DEF ThreadInv, SnapshotOwn, counts
<1>5. Measuring(t)' /\ ~Collecting(t) /\ ~Collecting(t)' /\ Exists(t) /\ Exists(t)'
  BY <1>1, <1>2 DEF Measuring, CanCollect, Collecting, Exists, AddPCs
<1>6. OnlyThread(t)
  BY <1>1, <1>2, <1>3, <1>5, OwnSlot DEF OnlyThread, counts
<1>7. tls_key'[t] = t_my_slot'[t] + 1
  <2>1. t_my_slot[t] >= 0
    BY <1>2 DEF Slots
  <2> QED
    BY <1>1, <1>2, <1>3, <2>1 DEF ThreadInv, KeyIsSet, HookPCs
<1>8. ThreadInv(t)'
  BY <1>1, <1>2, <1>4, <1>5, <1>7 DEF ThreadInv, SnapshotOwn, CollectsOnce, KeyIsSet,
       ModeMatches, HookPCs, StartPCs, AddPCs, counts
<1>9. Open(t)' = 0 /\ SameTotals(t)
  BY <1>2, <1>4, <1>5 DEF SameTotals, Open, Adding, Measuring, Collecting, counts
<1>10. LedgerInv' /\ OthersKeepLedger(t)
  <2>1. \A s \in Slots : slot_state'[s] = "ACTIVE" =>
          \/ slot_state[s] = "ACTIVE" /\ ~(Exists(t) /\ t_my_slot[t] = s)
          \/ Exists(t)' /\ t_my_slot'[t] = s
    BY <1>1, <1>2, <1>5
  <2> QED
    BY <1>2, <1>6, <1>8, <2>1, InvOfOne
<1>11. RegionMode \/ Open(t) = -1
  BY <1>1, <1>2 DEF ThreadInv, KeyIsSet, ModeMatches, Open, Measuring, HookPCs, StartPCs
<1>12. Ledger!Begin(t)
  BY <1>2, <1>9, <1>10, <1>11, StepIsBegin
<1> QED
  BY <1>9, <1>10, <1>12, SameBanked DEF LedgerStep, Settles, Ledger!Next

LEMMA WorkStep ==
  ASSUME TypeInv, SlotsInv, LedgerInv, NEW t \in Threads, Work(t)
  PROVE  LedgerInv' /\ LedgerStep /\ Settles(t)
<1> USE DEF AtPC, teardown
<1>1. /\ hw \in [Threads -> Nat] /\ slot_start \in [Slots -> Nat] /\ ThreadInv(t)
  BY DEF TypeInv, TypeOK, LedgerInv
<1>2. /\ pc[t] = "user" /\ handler[t] = "idle" /\ proc = "running"
      /\ hw' = [hw EXCEPT ![t] = @ + 1]
      /\ UNCHANGED <<proc, loaded, pc, handler, slots, g_accumulated, sent>>
  BY DEF Work
<1>3. hw'[t] = hw[t] + 1 /\ hw[t] \in Nat
  BY <1>1, <1>2
<1>4. Measuring(t)' = Measuring(t) /\ ~Collecting(t) /\ ~Collecting(t)' /\ Exists(t)'
  BY <1>2 DEF Measuring, CanCollect, Collecting, Exists, slots, AddPCs
<1>5. OnlyThread(t)
  BY <1>1, <1>2 DEF OnlyThread, slots
<1>6. Measuring(t) => slot_start[t_my_slot[t]] \in Nat /\ slot_start[t_my_slot[t]] <= hw[t]
  BY <1>1 DEF Measuring, CanCollect, ThreadInv, SnapshotOwn
<1>7. ThreadInv(t)'
  <2>1. SnapshotOwn(t)'
    BY <1>2, <1>3, <1>4, <1>6 DEF SnapshotOwn, slots
  <2> QED
    BY <1>1, <1>2, <1>4, <2>1 DEF ThreadInv, CollectsOnce, KeyIsSet, ModeMatches, slots
<1>8. SameTotals(t)
  BY <1>2, <1>4 DEF SameTotals, Adding, Collecting
<1>9. CASE Measuring(t)
  <2>1. Open(t) # -1 /\ Open(t)' = Open(t) + 1
    BY <1>2, <1>3, <1>4, <1>6, <1>9 DEF Open, Measuring, slots
  <2>2. LedgerInv' /\ OthersKeepLedger(t)
    BY <1>2, <1>4, <1>5, <1>7, InvOfOne DEF slots
  <2>3. Ledger!Work(t)
    BY <1>2, <1>8, <2>1, <2>2, StepIsWork
  <2> QED
    BY <1>8, <2>2, <2>3, SameBanked DEF LedgerStep, Settles, Ledger!Next
<1>10. CASE ~Measuring(t)
  <2>1. SameShare(t)
    BY <1>4, <1>8, <1>10 DEF SameShare, Open, Measuring
  <2> QED
    BY <1>2, <1>5, <1>7, <1>10, <2>1, QuietStep DEF slots
<1> QED
  BY <1>9, <1>10

\* collect_slot up to the CAS: whoever wins it closes the measurement, and has all of it
\* to add.
LEMMA CloseStep ==
  ASSUME TypeInv, SlotsInv, LedgerInv, NEW t \in Threads, proc' # "loading",
         Measuring(t), MarkCollected(t_my_slot[t]), Exists(t)',
         UNCHANGED <<loaded, t_my_slot, tls_key, slot_start, counts, sent>>,
         pc[t] \notin SlotPCs \/ pc' = pc,
         \/ pc'[t] \in AddPCs /\ handler'[t] # "add"
         \/ pc'[t] \notin AddPCs /\ handler'[t] = "add",
         pc'[t] \notin HookPCs \cup StartPCs \cup {"hook"} \/ pc' = pc,
         \A u \in Threads \ {t} : pc'[u] = pc[u] /\ handler'[u] = handler[u]
  PROVE  LedgerInv' /\ LedgerStep /\ Settles(t)
<1>1. /\ slot_state \in [Slots -> {"FREE", "ACTIVE", "COLLECTED"}] /\ slot_start \in [Slots -> Nat]
      /\ hw[t] \in Nat /\ g_accumulated[t] \in Int /\ ThreadInv(t)
  BY DEF TypeInv, TypeOK, LedgerInv
<1>2. /\ t_my_slot[t] \in Slots /\ Exists(t) /\ ~Collecting(t) /\ loaded = "yes"
      /\ slot_start[t_my_slot[t]] \in Nat /\ slot_start[t_my_slot[t]] <= hw[t]
  BY <1>1 DEF Measuring, CanCollect, ThreadInv, CollectsOnce, ModeMatches, SnapshotOwn
<1>3. /\ slot_state' = [slot_state EXCEPT ![t_my_slot[t]] = "COLLECTED"]
      /\ slot_state'[t_my_slot[t]] = "COLLECTED"
  BY <1>1, <1>2 DEF MarkCollected
<1>4. ~Measuring(t)' /\ Collecting(t)'
  BY <1>3 DEF Measuring, CanCollect, Collecting
<1>5. OnlyThread(t)
  BY <1>1, <1>2, <1>3, OwnSlot DEF OnlyThread, counts
<1>6. ThreadInv(t)'
  <2>1. pc[t] \notin HookPCs
    BY <1>1 DEF ThreadInv, KeyIsSet
  <2>2. SnapshotOwn(t)'
    BY <1>1, <1>2 DEF ThreadInv, SnapshotOwn, HookPCs, StartPCs, counts
  <2>3. CollectsOnce(t)' /\ KeyIsSet(t)' /\ ModeMatches(t)'
    BY <1>1, <1>2, <1>4, <2>1 DEF ThreadInv, CollectsOnce, KeyIsSet, ModeMatches
  <2> QED
    BY <1>1, <2>2, <2>3 DEF ThreadInv, counts
<1>7. LedgerInv' /\ OthersKeepLedger(t)
  <2>1. \A s \in Slots : slot_state'[s] = "ACTIVE" =>
          slot_state[s] = "ACTIVE" /\ ~(Exists(t) /\ t_my_slot[t] = s)
    BY <1>1, <1>2, <1>3
  <2> QED
    BY <1>5, <1>6, <2>1, InvOfOne
<1>8. /\ Open(t) # -1 /\ Open(t)' = -1 /\ Adding(t) = 0 /\ Adding(t)' = Open(t)
      /\ g_accumulated'[t] = g_accumulated[t]
  <2>1. Open(t) = hw[t] - slot_start[t_my_slot[t]] /\ Open(t)' = -1
    BY <1>4 DEF Open, Measuring
  <2>2. Adding(t) = 0 /\ Adding(t)' = hw[t] - slot_start[t_my_slot[t]]
    BY <1>2, <1>4 DEF Adding, Collecting, counts
  <2> QED
    BY <1>1, <1>2, <2>1, <2>2 DEF counts
<1>9. Banked(t)' = Banked(t) + Open(t)
  <2>1. Open(t) \in Int
    BY <1>1, <1>2 DEF Open, Measuring
  <2> QED
    BY <1>1, <1>8, <2>1 DEF Banked
<1>10. Ledger!Close(t)
  BY <1>7, <1>8, StepIsClose
<1> QED
  BY <1>7, <1>8, <1>9, <1>10 DEF LedgerStep, Settles, Ledger!Next
LEMMA StopAndFinalizerCollect ==
  ASSUME TypeInv, SlotsInv, LedgerInv, NEW t \in Threads, ApmcStop(t) \/ FinCollect(t)
  PROVE  LedgerInv' /\ LedgerStep /\ Settles(t)
<1> USE DEF AtPC, Goto, teardown
<1>1. /\ pc \in [Threads -> PCs]
      /\ pc[t] \in {"user", "fin_collect"} /\ handler[t] = "idle" /\ proc = "running"
      /\ UNCHANGED <<proc, loaded, handler, t_my_slot, tls_key, slot_start, counts, sent>>
  BY DEF TypeInv, TypeOK, ApmcStop, FinCollect, CollectAt
<1>2. CASE CanCollect(t_my_slot[t])
  <2>1. Measuring(t) /\ MarkCollected(t_my_slot[t])
    BY <1>1, <1>2 DEF Measuring, Exists, ApmcStop, FinCollect, CollectAt
  <2>2. pc' = [pc EXCEPT ![t] = "stop_add"] \/ pc' = [pc EXCEPT ![t] = "fin_add"]
    BY <1>2 DEF ApmcStop, FinCollect, CollectAt
  <2>3. /\ Exists(t)' /\ pc'[t] \in AddPCs /\ handler'[t] # "add" /\ pc[t] \notin SlotPCs
        /\ pc'[t] \notin HookPCs \cup StartPCs \cup {"hook"}
        /\ \A u \in Threads \ {t} : pc'[u] = pc[u] /\ handler'[u] = handler[u]
    BY <1>1, <2>2 DEF Exists, AddPCs, SlotPCs, HookPCs, StartPCs
  <2> QED
    BY <1>1, <2>1, <2>3, CloseStep
<1>3. CASE ~CanCollect(t_my_slot[t])
  <2>1. /\ pc[t] = "fin_collect" /\ pc' = [pc EXCEPT ![t] = "fin_enum"] /\ slot_state' = slot_state
        /\ UNCHANGED <<slots, g_next_slot>>
    BY <1>3 DEF ApmcStop, FinCollect, CollectAt, slots
  <2>2. {"fin_collect", "fin_enum"} \subseteq PlainPCs
    BY DEF PlainPCs, PCs, FinPCs, AddPCs, HookPCs, StartPCs
  <2> QED
    BY <1>1, <2>1, <2>2, PlainStep
<1> QED
  BY <1>2, <1>3

\* A thread that ends with nothing to collect takes nothing with it.
LEMMA DeathStep ==
  ASSUME TypeInv, SlotsInv, LedgerInv, NEW t \in Threads, proc' # "loading",
         pc[t] \notin HookPCs, ~Measuring(t), ~Collecting(t), handler[t] = "idle",
         pc' = [pc EXCEPT ![t] = "dead"],
         UNCHANGED <<loaded, handler, t_my_slot, tls_key, slot_state, slot_start, counts, sent>>
  PROVE  LedgerInv' /\ LedgerStep /\ Settles(t)
<1>1. pc \in [Threads -> PCs] /\ ThreadInv(t)
  BY DEF TypeInv, TypeOK, LedgerInv
<1>2. pc'[t] = "dead" /\ ~Measuring(t)' /\ ~Collecting(t)'
  BY <1>1 DEF Measuring, Exists, Collecting, AddPCs
<1>3. OnlyThread(t)
  BY <1>1 DEF OnlyThread, counts
<1>4. ThreadInv(t)'
  BY <1>1, <1>2 DEF ThreadInv, SnapshotOwn, CollectsOnce, KeyIsSet, ModeMatches,
       HookPCs, StartPCs, AddPCs, counts
<1>5. SameShare(t)
  BY <1>1, <1>2 DEF SameShare, SameTotals, Open, Adding, Measuring, Collecting, counts
<1> QED
  BY <1>3, <1>4, <1>5, QuietStep

\* The slot that the destructor computes from the key is the one its thread measures in.
LEMMA DestructorSlot ==
  ASSUME TypeInv, SlotsInv, LedgerInv, NEW t \in Threads, pc[t] = "dtor"
  PROVE  CanCollect(tls_key[t] - 1) <=> Measuring(t)
<1>0. ThreadInv(t)
  BY DEF LedgerInv
<1>1. /\ t_my_slot[t] \in Int /\ tls_key[t] \in Int
      /\ tls_key[t] # 0 => tls_key[t] = t_my_slot[t] + 1
      /\ t_my_slot[t] >= 0 => tls_key[t] = t_my_slot[t] + 1
  BY <1>0 DEF TypeInv, TypeOK, SlotIndices, KeyValues, KeyMatches, ThreadInv, KeyIsSet, HookPCs
<1>2. CASE tls_key[t] = 0
  <2>1. tls_key[t] - 1 \notin Slots /\ t_my_slot[t] \notin Slots
    BY <1>1, <1>2 DEF Slots
  <2> QED
    BY <2>1 DEF CanCollect, Measuring
<1>3. CASE tls_key[t] # 0
  <2>1. tls_key[t] - 1 = t_my_slot[t] /\ Exists(t)
    BY <1>1, <1>3 DEF Exists
  <2> QED
    BY <2>1 DEF Measuring
<1> QED
  BY <1>2, <1>3

\* The destructor finds the slot that its thread used.
LEMMA DestructorStep ==
  ASSUME TypeInv, SlotsInv, LedgerInv, NEW t \in Threads, Destructor(t)
  PROVE  LedgerInv' /\ LedgerStep /\ Settles(t)
<1> USE DEF AtPC, Goto, teardown
<1>1. /\ pc \in [Threads -> PCs] /\ ThreadInv(t)
      /\ pc[t] = "dtor" /\ handler[t] = "idle" /\ proc = "running"
      /\ UNCHANGED <<proc, loaded, handler, t_my_slot, tls_key, slot_start, counts, sent>>
  BY DEF TypeInv, TypeOK, LedgerInv, Destructor, CollectAt
<1>2. CanCollect(tls_key[t] - 1) <=> Measuring(t)
  BY <1>1, DestructorSlot
<1>3. CASE Measuring(t)
  <2>1. tls_key[t] - 1 = t_my_slot[t]
    <3>1. /\ t_my_slot[t] \in Slots /\ tls_key[t] = t_my_slot[t] + 1
      BY <1>1, <1>3 DEF Measuring, CanCollect, ThreadInv, KeyIsSet, HookPCs, Slots
    <3> QED
      BY <3>1 DEF Slots
  <2>2. MarkCollected(t_my_slot[t]) /\ pc' = [pc EXCEPT ![t] = "dtor_add"]
    BY <1>2, <1>3, <2>1 DEF Destructor, CollectAt
  <2>3. /\ Exists(t)' /\ pc'[t] \in AddPCs /\ handler'[t] # "add" /\ pc[t] \notin SlotPCs
        /\ pc'[t] \notin HookPCs \cup StartPCs \cup {"hook"}
        /\ \A u \in Threads \ {t} : pc'[u] = pc[u] /\ handler'[u] = handler[u]
    BY <1>1, <2>2 DEF Exists, AddPCs, SlotPCs, HookPCs, StartPCs
  <2> QED
    BY <1>1, <1>3, <2>2, <2>3, CloseStep
<1>4. CASE ~Measuring(t)
  <2>1. slot_state' = slot_state /\ pc' = [pc EXCEPT ![t] = "dead"]
    BY <1>2, <1>4 DEF Destructor, CollectAt
  <2> QED
    BY <1>1, <1>4, <2>1, DeathStep DEF Collecting, AddPCs, HookPCs
<1> QED
  BY <1>3, <1>4

\* The delta a thread banks is the one that it closed when it won the slot.
LEMMA AddStep ==
  ASSUME TypeInv, SlotsInv, LedgerInv, NEW t \in Threads, proc' # "loading",
         Collecting(t), Accumulate(t, t_my_slot[t]),
         UNCHANGED <<loaded, t_my_slot, tls_key, slot_state, slot_start, hw, sent>>,
         pc[t] \notin HookPCs \/ pc' = pc,
         pc'[t] \notin AddPCs, handler'[t] # "add",
         pc'[t] \notin HookPCs \cup StartPCs \cup {"hook"} \/ pc' = pc,
         \A u \in Threads \ {t} : pc'[u] = pc[u] /\ handler'[u] = handler[u]
  PROVE  LedgerInv' /\ LedgerStep /\ Settles(t)
<1>1. /\ slot_start \in [Slots -> Nat] /\ hw[t] \in Nat /\ g_accumulated \in [Threads -> Int]
      /\ ThreadInv(t)
  BY DEF TypeInv, TypeOK, LedgerInv
<1>2. /\ t_my_slot[t] \in Slots /\ Exists(t) /\ ~Measuring(t) /\ loaded = "yes"
      /\ slot_start[t_my_slot[t]] \in Nat /\ slot_start[t_my_slot[t]] <= hw[t]
  BY <1>1 DEF ThreadInv, CollectsOnce, ModeMatches, SnapshotOwn
<1>3. ~Measuring(t)' /\ ~Collecting(t)'
  BY <1>2 DEF Measuring, CanCollect, Collecting
<1>4. g_accumulated'[t] = g_accumulated[t] + (hw[t] - slot_start[t_my_slot[t]])
  BY <1>1 DEF Accumulate
<1>5. OnlyThread(t)
  BY <1>1 DEF OnlyThread, Accumulate
<1>6. ThreadInv(t)'
  <2>1. SnapshotOwn(t)'
    BY <1>1, <1>3 DEF ThreadInv, SnapshotOwn, HookPCs, StartPCs
  <2>2. CollectsOnce(t)' /\ ModeMatches(t)'
    BY <1>1, <1>2, <1>3 DEF ThreadInv, CollectsOnce, ModeMatches
  <2>3. KeyIsSet(t)'
    BY <1>1, <1>3 DEF ThreadInv, KeyIsSet
  <2>4. g_accumulated'[t] >= 0
    BY <1>1, <1>2, <1>4 DEF ThreadInv
  <2> QED
    BY <2>1, <2>2, <2>3, <2>4 DEF ThreadInv
<1>7. Open(t)' = Open(t)
  BY <1>2, <1>3 DEF Open, Measuring
<1>8. Adding(t) = hw[t] - slot_start[t_my_slot[t]] /\ Adding(t)' = 0
  BY <1>3 DEF Adding, Collecting
<1>9. Banked(t)' = Banked(t)
  BY <1>1, <1>2, <1>4, <1>8 DEF Banked
<1>10. LedgerInv' /\ OthersKeepLedger(t)
  <2>1. \A s \in Slots : slot_state'[s] = "ACTIVE" =>
          slot_state[s] = "ACTIVE" /\ ~(Exists(t) /\ t_my_slot[t] = s)
    BY <1>2 DEF Measuring, CanCollect
  <2> QED
    BY <1>5, <1>6, <2>1, InvOfOne
<1>11. Ledger!Bank(t)
  BY <1>4, <1>7, <1>8, <1>10, StepIsBank
<1> QED
  BY <1>9, <1>10, <1>11 DEF LedgerStep, Settles, Ledger!Next

LEMMA AddSteps ==
  ASSUME TypeInv, SlotsInv, LedgerInv, NEW t \in Threads,
         StopAdd(t) \/ DestructorAdd(t) \/ FinAdd(t) \/ HandlerAdd(t)
  PROVE  LedgerInv' /\ LedgerStep /\ Settles(t)
<1> USE DEF AtPC, Goto, teardown
<1>1. pc \in [Threads -> PCs] /\ handler \in [Threads -> {"idle", "add", "dec"}] /\ ThreadInv(t)
  BY DEF TypeInv, TypeOK, LedgerInv
<1>2. CASE StopAdd(t) \/ FinAdd(t)
  <2>1. /\ pc[t] \in AddPCs /\ handler[t] = "idle" /\ proc = "running"
        /\ pc' = [pc EXCEPT ![t] = "user"] \/ pc' = [pc EXCEPT ![t] = "fin_enum"]
        /\ Accumulate(t, t_my_slot[t])
        /\ UNCHANGED <<proc, loaded, handler, slots, hw, sent>>
    BY <1>2 DEF StopAdd, FinAdd, AddAt, AddPCs
  <2> QED
    BY <1>1, <2>1, AddStep DEF slots, AddPCs, HookPCs, StartPCs, Collecting
<1>3. CASE DestructorAdd(t)
  <2>1. /\ pc[t] = "dtor_add" /\ handler[t] = "idle" /\ proc = "running"
        /\ pc' = [pc EXCEPT ![t] = "dead"]
        /\ Accumulate(t, tls_key[t] - 1)
        /\ UNCHANGED <<proc, loaded, handler, slots, hw, sent>>
    BY <1>3 DEF DestructorAdd, AddAt
  <2>2. tls_key[t] - 1 = t_my_slot[t]
    <3>1. t_my_slot[t] \in Slots
      BY <1>1, <2>1 DEF ThreadInv, CollectsOnce, Collecting, AddPCs
    <3>2. tls_key[t] = t_my_slot[t] + 1
      BY <1>1, <2>1, <3>1 DEF ThreadInv, KeyIsSet, HookPCs, Slots
    <3> QED
      BY <3>1, <3>2 DEF Slots
  <2> QED
    BY <1>1, <2>1, <2>2, AddStep DEF slots, AddPCs, HookPCs, StartPCs, Collecting
<1>4. CASE HandlerAdd(t)
  <2>1. /\ handler[t] = "add" /\ proc = "running" /\ pc' = pc
        /\ handler' = [handler EXCEPT ![t] = "dec"]
        /\ Accumulate(t, t_my_slot[t])
        /\ UNCHANGED <<proc, loaded, slots, hw, sent>>
    BY <1>4 DEF HandlerAdd
  <2>2. Collecting(t) /\ pc'[t] \notin AddPCs
    BY <1>1, <2>1 DEF Collecting, ThreadInv, CollectsOnce
  <2> QED
    BY <1>1, <2>1, <2>2, AddStep DEF slots
<1> QED
  BY <1>2, <1>3, <1>4
\* The handler's other steps: it finds nothing to collect, or it is done.
LEMMA HandlerPlain ==
  ASSUME TypeInv, SlotsInv, LedgerInv, NEW t \in Threads, proc' # "loading",
         handler[t] # "add", NEW l \in {"dec", "idle"}, handler' = [handler EXCEPT ![t] = l],
         UNCHANGED <<loaded, pc, slots, counts, sent>>
  PROVE  LedgerInv' /\ LedgerStep /\ Settles(t)
<1>1. handler \in [Threads -> {"idle", "add", "dec"}] /\ ThreadInv(t)
  BY DEF TypeInv, TypeOK, LedgerInv
<1>2. handler'[t] # "add"
  BY <1>1
<1>3. Measuring(t)' = Measuring(t) /\ Collecting(t)' = Collecting(t) /\ Exists(t)' = Exists(t)
  BY <1>2 DEF Measuring, CanCollect, Collecting, Exists, slots
<1>4. OnlyThread(t)
  BY <1>1 DEF OnlyThread, slots, counts
<1>5. ThreadInv(t)'
  BY <1>1, <1>2, <1>3 DEF ThreadInv, SnapshotOwn, CollectsOnce, KeyIsSet, ModeMatches, slots, counts
<1>6. SameShare(t)
  BY <1>3 DEF SameShare, SameTotals, Open, Adding, Measuring, Collecting, slots, counts
<1> QED
  BY <1>3, <1>4, <1>5, <1>6, QuietStep DEF slots

LEMMA HandlerSteps ==
  ASSUME TypeInv, SlotsInv, LedgerInv, NEW t \in Threads, Deliver(t) \/ HandlerDec(t)
  PROVE  LedgerInv' /\ LedgerStep /\ Settles(t)
<1>1. handler \in [Threads -> {"idle", "add", "dec"}] /\ ThreadInv(t)
  BY DEF TypeInv, TypeOK, LedgerInv
<1>2. CASE HandlerDec(t)
  BY <1>2, HandlerPlain DEF HandlerDec
<1>3. CASE Deliver(t)
  <2>1. /\ proc = "running" /\ proc' = "running" /\ Exists(t) /\ handler[t] = "idle"
        /\ UNCHANGED <<loaded, pc, g_next_slot, t_my_slot, tls_key, slot_start, counts, sent>>
    BY <1>3 DEF Deliver
  <2>2. PICK slot \in HandlerSlots(t) :
          \/ /\ CanCollect(slot)
             /\ MarkCollected(slot)
             /\ handler' = [handler EXCEPT ![t] = "add"]
          \/ /\ ~CanCollect(slot)
             /\ handler' = [handler EXCEPT ![t] = "dec"]
             /\ UNCHANGED slot_state
    BY <1>3 DEF Deliver
  <2>3. CASE CanCollect(slot) /\ MarkCollected(slot) /\ handler' = [handler EXCEPT ![t] = "add"]
    <3>1. slot = t_my_slot[t]
      BY <2>3, Ranges DEF HandlerSlots, CanCollect
    <3>2. Measuring(t) /\ pc[t] \notin AddPCs
      <4>1. Measuring(t)
        BY <2>1, <2>3, <3>1 DEF Measuring
      <4> QED
        BY <1>1, <4>1 DEF ThreadInv, CollectsOnce, Collecting
    <3>3. /\ handler'[t] = "add" /\ Exists(t)' /\ pc'[t] \notin AddPCs
          /\ \A u \in Threads \ {t} : pc'[u] = pc[u] /\ handler'[u] = handler[u]
      BY <1>1, <2>1, <2>3, <3>2 DEF Exists
    <3> QED
      BY <2>1, <2>3, <3>1, <3>2, <3>3, CloseStep
  <2>4. CASE handler' = [handler EXCEPT ![t] = "dec"] /\ UNCHANGED slot_state
    BY <2>1, <2>4, HandlerPlain DEF slots
  <2> QED
    BY <2>2, <2>3, <2>4
<1> QED
  BY <1>2, <1>3

\* The one report loads what is banked.
LEMMA WriteStep ==
  ASSUME TypeInv, SlotsInv, OneFinalizer, LedgerInv, NEW t \in Threads, FinWrite(t)
  PROVE  LedgerInv' /\ LedgerStep /\ Settles(t)
<1> USE DEF AtPC, Goto, teardown
<1>1. /\ pc \in [Threads -> PCs] /\ g_accumulated \in [Threads -> Int]
      /\ slot_start \in [Slots -> Nat] /\ hw \in [Threads -> Nat]
  BY DEF TypeInv, TypeOK
<1>2. /\ pc[t] = "fin_write" /\ handler[t] = "idle" /\ proc = "running" /\ proc' = "running"
      /\ pc' = [pc EXCEPT ![t] = "returned"]
      /\ sent = <<>> /\ sent' = Append(sent, g_accumulated)
      /\ UNCHANGED <<loaded, handler, slots, counts>>
  BY DEF FinWrite, OneFinalizer, FinBody
<1>3. \A u \in Threads : /\ Measuring(u)' = Measuring(u) /\ Collecting(u)' = Collecting(u)
                         /\ Exists(u)' = Exists(u)
  BY <1>1, <1>2 DEF Measuring, CanCollect, Collecting, Exists, AddPCs, slots
<1>4. \A u \in Threads : SameShare(u)
  BY <1>2, <1>3 DEF SameShare, SameTotals, Open, Adding, Measuring, Collecting, slots, counts
<1>5. LedgerInv'
  <2>1. \A u \in Threads : ThreadInv(u)'
    <3> SUFFICES ASSUME NEW u \in Threads PROVE ThreadInv(u)'
      OBVIOUS
    <3>1. ThreadInv(u)
      BY DEF LedgerInv
    <3>2. pc'[u] = pc[u] \/ (pc'[u] = "returned" /\ pc[u] = "fin_write")
      <4>1. pc'[u] = IF u = t THEN "returned" ELSE pc[u]
        BY <1>1, <1>2
      <4> QED
        BY <1>2, <4>1
    <3> QED
      BY <1>2, <1>3, <3>1, <3>2 DEF ThreadInv, SnapshotOwn, CollectsOnce, KeyIsSet, ModeMatches,
           HookPCs, StartPCs, AddPCs, slots, counts
  <2>2. \A s \in Slots : slot_state'[s] = "ACTIVE" => HasOwner(s)'
    BY <1>2, <1>3 DEF LedgerInv, HasOwner, slots
  <2> QED
    BY <1>2, <2>1, <2>2 DEF LedgerInv, LoadsFirst
<1>6. Ledger!Report
  <2>1. sent' = <<[u \in Threads |-> g_accumulated[u]]>>
    BY <1>1, <1>2
  <2>2. \A u \in Threads : Open(u)' = Open(u) /\ Adding(u)' = Adding(u) /\ g_accumulated'[u] = g_accumulated[u]
    BY <1>4 DEF SameShare, SameTotals
  <2> QED
    BY <1>2, <2>1, <2>2 DEF Ledger!Report, Open
<1>7. Banked(t)' = Banked(t)
  BY <1>4, SameBanked DEF SameShare
<1> QED
  BY <1>4, <1>5, <1>6, <1>7 DEF LedgerStep, Settles, OthersKeepLedger, Ledger!Next
\* The fork child: one thread, from zero.
LEMMA ForkStep ==
  ASSUME TypeInv, SlotsInv, LedgerInv, NEW t \in Threads, ForkChild(t)
  PROVE  LedgerInv' /\ LedgerStep
<1> USE DEF AtPC
<1>1. /\ pc \in [Threads -> PCs] /\ t_my_slot \in [Threads -> SlotIndices]
      /\ hw \in [Threads -> Nat] /\ slot_state \in [Slots -> {"FREE", "ACTIVE", "COLLECTED"}]
      /\ slot_start \in [Slots -> Nat] /\ g_next_slot \in Int
      /\ \A u \in Threads : ThreadInv(u)
  BY DEF TypeInv, TypeOK, LedgerInv, CInt
<1>2. /\ pc[t] = "user" /\ handler[t] = "idle" /\ proc' = "running"
      /\ \A u \in Threads : pc'[u] = (IF u = t THEN "user" ELSE "none") /\ handler'[u] = "idle"
      /\ sent' = <<>> /\ UNCHANGED <<loaded, hw>>
  BY DEF ForkChild
<1>3. \A u \in Threads : ~Collecting(u)' /\ (Exists(u)' <=> u = t)
  BY <1>2 DEF Collecting, Exists, AddPCs
<1>4. /\ \A u \in Threads : g_accumulated'[u] = 0
      /\ \A u \in Threads \ {t} : t_my_slot'[u] = -1
  BY <1>1 DEF ForkChild, AtforkChild, ThreadInv, ModeMatches
\* The three kinds of child agree on what matters to the ledger.
<1>5. /\ Measuring(t)' => loaded = "yes" /\ ~RegionMode /\ slot_start'[t_my_slot'[t]] = hw[t]
      /\ t_my_slot'[t] >= 0 => tls_key'[t] = t_my_slot'[t] + 1
      /\ \A s \in Slots : slot_state'[s] = "ACTIVE" => t_my_slot'[t] = s
  <2>1. CASE loaded # "yes"
    <3>1. /\ t_my_slot'[t] = t_my_slot[t] /\ tls_key'[t] = tls_key[t]
          /\ slot_state' = slot_state
      BY <2>1 DEF ForkChild, AtforkChild
    <3>2. t_my_slot[t] >= 0 => tls_key[t] = t_my_slot[t] + 1
      BY <1>1, <1>2 DEF ThreadInv, KeyIsSet, HookPCs
    <3>3. \A s \in Slots : slot_state[s] # "ACTIVE"
      BY <1>1, <2>1 DEF LedgerInv, HasOwner, ThreadInv, ModeMatches, Measuring, CanCollect
    <3> QED
      BY <3>1, <3>2, <3>3 DEF Measuring, CanCollect
  <2>2. CASE loaded = "yes" /\ RegionMode
    <3>1. t_my_slot'[t] = -1
      BY <2>2 DEF ForkChild, AtforkChild
    <3>2. \A s \in Slots : slot_state'[s] # "ACTIVE"
      <4> SUFFICES ASSUME NEW s \in Slots, slot_state[s] = "ACTIVE"
                   PROVE  s < g_next_slot
        BY <2>2 DEF ForkChild, AtforkChild, InheritedSlots
      <4>1. PICK u \in Threads : Exists(u) /\ t_my_slot[u] = s
        BY DEF LedgerInv, HasOwner
      <4> QED
        BY <4>1 DEF SlotsInv
    <3> QED
      BY <3>1, <3>2, Ranges DEF Measuring, CanCollect
  <2>3. CASE loaded = "yes" /\ ~RegionMode
    <3>1. /\ t_my_slot'[t] = 0 /\ tls_key'[t] = 1
          /\ slot_start' = [slot_start EXCEPT ![0] = hw[t]]
          /\ slot_state' = [[s \in Slots |-> IF s \in InheritedSlots THEN "COLLECTED"
                                             ELSE slot_state[s]] EXCEPT ![0] = "ACTIVE"]
      BY <2>3 DEF ForkChild, AtforkChild, Snapshot
    <3>2. slot_start'[0] = hw[t] /\ 0 \in Slots
      BY <1>1, <3>1, Ranges
    <3>3. ASSUME NEW s \in Slots, slot_state'[s] = "ACTIVE", s # 0 PROVE FALSE
      <4>1. slot_state[s] = "ACTIVE" /\ s \notin InheritedSlots
        BY <3>1, <3>3
      <4>2. PICK u \in Threads : Exists(u) /\ t_my_slot[u] = s
        BY <4>1 DEF LedgerInv, HasOwner
      <4> QED
        BY <4>1, <4>2 DEF SlotsInv, InheritedSlots
    <3> QED
      BY <2>3, <3>1, <3>2, <3>3
  <2> QED
    BY <2>1, <2>2, <2>3
<1>6. ASSUME NEW u \in Threads PROVE ThreadInv(u)'
  <2>1. CASE u = t
    <3>1. hw[t] <= hw[t]
      BY <1>1
    <3>2. pc'[t] = "user" /\ ~Collecting(t)' /\ Exists(t)' /\ hw'[t] = hw[t] /\ loaded' = loaded
      BY <1>2, <1>3
    <3>3. SnapshotOwn(t)' /\ CollectsOnce(t)'
      BY <1>5, <3>1, <3>2 DEF SnapshotOwn, CollectsOnce, Collecting
    <3>4. KeyIsSet(t)' /\ ModeMatches(t)'
      BY <1>4, <1>5, <3>2 DEF KeyIsSet, ModeMatches, HookPCs, StartPCs
    <3> QED
      BY <1>4, <2>1, <3>3, <3>4 DEF ThreadInv
  <2>2. CASE u # t
    <3>1. pc'[u] = "none" /\ ~Collecting(u)' /\ ~Exists(u)' /\ ~Measuring(u)' /\ t_my_slot'[u] = -1
      BY <1>2, <1>3, <1>4, <2>2 DEF Measuring
    <3> QED
      BY <1>4, <3>1 DEF ThreadInv, SnapshotOwn, CollectsOnce, KeyIsSet, ModeMatches, Collecting,
           HookPCs, StartPCs
  <2> QED
    BY <2>1, <2>2
<1>7. \A s \in Slots : slot_state'[s] = "ACTIVE" => HasOwner(s)'
  BY <1>3, <1>5 DEF HasOwner
<1>8. LedgerInv'
  BY <1>2, <1>6, <1>7 DEF LedgerInv, LoadsFirst
<1>9. Ledger!Renew(t)
  <2>1. \A u \in Threads : Adding(u)' = 0 /\ g_accumulated'[u] = 0
    BY <1>3, <1>4 DEF Adding, Collecting
  <2>2. \A u \in Threads \ {t} : Open(u)' = -1
    BY <1>3 DEF Open
  <2>3. Open(t)' \in {-1, 0}
    <3>1. hw[t] - hw[t] = 0
      BY <1>1
    <3> QED
      BY <1>2, <1>5, <3>1 DEF Open, Measuring
  <2> QED
    BY <1>2, <2>1, <2>2, <2>3, StepIsRenew
<1> QED
  BY <1>8, <1>9 DEF LedgerStep, Ledger!Next

\* Loading the library opens the measurement of the main thread, in normal mode.
LEMMA InitializeStep ==
  ASSUME TypeInv, SlotsInv, LedgerInv, Initialize
  PROVE  LedgerInv' /\ LedgerStep
<1>1. /\ pc \in [Threads -> PCs] /\ t_my_slot \in [Threads -> SlotIndices]
      /\ tls_key \in [Threads -> KeyValues] /\ hw \in [Threads -> Nat]
      /\ slot_state \in [Slots -> {"FREE", "ACTIVE", "COLLECTED"}]
      /\ slot_start \in [Slots -> Nat] /\ Main \in Threads /\ 0 \in Slots /\ -1 \notin Slots
      /\ \A u \in Threads : ThreadInv(u)
  BY Ranges, ThreadsAssumption DEF TypeInv, TypeOK, LedgerInv
<1>2. /\ proc' = "running" /\ loaded = "no" /\ g_next_slot = 0 /\ pc[Main] = "user"
      /\ \A u \in Threads : t_my_slot[u] = -1
      /\ \A u \in Threads \ {Main} : pc[u] = "none"
      /\ UNCHANGED <<pc, handler, counts, sent>>
  BY DEF Initialize, TypeInv, NothingTaken, LedgerInv, LoadsFirst, teardown
<1>3. \A u \in Threads : ~Measuring(u) /\ ~Collecting(u) /\ ~Collecting(u)' /\ g_accumulated[u] = 0
  BY <1>1, <1>2 DEF ThreadInv, ModeMatches, Collecting
<1>4. \A s \in Slots : slot_state[s] # "ACTIVE"
  BY <1>1, <1>2 DEF LedgerInv, HasOwner
<1>5. CASE loaded' = "yes" /\ ~RegionMode
  <2>1. /\ t_my_slot' = [t_my_slot EXCEPT ![Main] = 0]
        /\ tls_key' = [tls_key EXCEPT ![Main] = 1]
        /\ slot_start' = [slot_start EXCEPT ![0] = hw[Main]]
        /\ slot_state' = [slot_state EXCEPT ![0] = "ACTIVE"]
    BY <1>2, <1>5, Ranges DEF Initialize, Snapshot
  <2>2. /\ t_my_slot'[Main] = 0 /\ tls_key'[Main] = 1 /\ slot_start'[0] = hw[Main]
        /\ hw'[Main] = hw[Main] /\ hw[Main] <= hw[Main] /\ hw[Main] - hw[Main] = 0
        /\ pc'[Main] = "user" /\ Measuring(Main)'
    BY <1>1, <1>2, <2>1 DEF counts, Measuring, Exists, CanCollect
  <2>3. \A u \in Threads \ {Main} : ~Exists(u)' /\ ~Measuring(u)' /\ t_my_slot'[u] = -1
    BY <1>1, <1>2, <2>1 DEF Exists, Measuring
  <2>4. ThreadInv(Main)'
    BY <1>1, <1>2, <1>3, <1>5, <2>2 DEF ThreadInv, SnapshotOwn, CollectsOnce, KeyIsSet, ModeMatches,
         Collecting, HookPCs, StartPCs, counts
  <2>5. ASSUME NEW u \in Threads \ {Main} PROVE ThreadInv(u)'
    BY <1>2, <1>3, <1>5, <2>3, <2>5 DEF ThreadInv, SnapshotOwn, CollectsOnce, KeyIsSet, ModeMatches,
         Collecting, HookPCs, StartPCs, counts
  <2>6. \A s \in Slots : slot_state'[s] = "ACTIVE" => HasOwner(s)'
    BY <1>1, <1>4, <2>1, <2>2 DEF HasOwner, Measuring
  <2>7. LedgerInv'
    BY <1>2, <2>4, <2>5, <2>6 DEF LedgerInv, LoadsFirst
  <2>8. Ledger!Begin(Main)
    <3>1. OthersKeepLedger(Main)
      BY <1>2, <1>3, <2>3 DEF OthersKeepLedger, SameShare, SameTotals, Open, Adding, Measuring, Collecting, counts
    <3>2. Open(Main) = -1 /\ Open(Main)' = 0 /\ SameTotals(Main)
      BY <1>1, <1>2, <1>3, <2>2 DEF SameTotals, Open, Adding, Measuring, Collecting, counts
    <3> QED
      BY <1>1, <1>2, <3>1, <3>2, StepIsBegin
  <2> QED
    BY <1>1, <2>7, <2>8 DEF LedgerStep, Ledger!Next
<1>6. CASE ~(loaded' = "yes" /\ ~RegionMode)
  <2>1. UNCHANGED slots
    BY <1>6 DEF Initialize
  <2>2. \A u \in Threads : ~Measuring(u)'
    BY <1>1, <1>2, <2>1 DEF slots, Measuring, CanCollect
  <2>3. ASSUME NEW u \in Threads PROVE ThreadInv(u)'
    <3>1. pc'[u] \in {"user", "none"}
      BY <1>2
    <3> QED
      BY <1>1, <1>2, <1>3, <2>1, <2>2, <3>1 DEF ThreadInv, SnapshotOwn, CollectsOnce, KeyIsSet, ModeMatches,
           Collecting, HookPCs, StartPCs, slots, counts
  <2>4. LedgerInv'
    BY <1>2, <1>4, <2>1, <2>3 DEF LedgerInv, LoadsFirst, slots
  <2>5. UNCHANGED Ledger!vars
    BY <1>2, <1>3, <2>2, StepIsStutter DEF SameShare, SameTotals, Open, Adding, Measuring, Collecting, counts
  <2> QED
    BY <2>4, <2>5 DEF LedgerStep
<1> QED
  BY <1>5, <1>6

----------------------------------------------------------------------------
(* The theorem.                                                            *)

\* The ledger does not see the process being killed.
LEMMA KillStep ==
  ASSUME LedgerInv, NEW t \in Threads, SignalKills(t)
  PROVE  LedgerInv' /\ LedgerStep
<1>1. proc' = "killed" /\ UNCHANGED <<loaded, pc, handler, slots, counts, sent>>
  BY DEF SignalKills, teardown
<1>2. LedgerInv'
  BY <1>1 DEF LedgerInv, LoadsFirst, ThreadInv, SnapshotOwn, CollectsOnce, KeyIsSet, ModeMatches,
       Collecting, Measuring, CanCollect, Exists, HasOwner, slots, counts
<1>3. UNCHANGED Ledger!vars
  BY <1>1, StepIsStutter DEF SameShare, SameTotals, Open, Adding, CanCollect, Exists, slots, counts
<1> QED
  BY <1>2, <1>3 DEF LedgerStep

LEMMA LedgerInvStep ==
  TypeInv /\ SlotsInv /\ OneFinalizer /\ LedgerInv /\ [Next]_vars => LedgerInv' /\ LedgerStep
<1> SUFFICES ASSUME TypeInv, SlotsInv, OneFinalizer, LedgerInv, [Next]_vars
             PROVE  LedgerInv' /\ LedgerStep
  OBVIOUS
<1>1. CASE UNCHANGED vars
  <2>1. UNCHANGED <<proc, loaded, pc, handler, slots, counts, sent>>
    BY <1>1 DEF vars, teardown
  <2>2. LedgerInv'
    BY <2>1 DEF LedgerInv, LoadsFirst, ThreadInv, SnapshotOwn, CollectsOnce, KeyIsSet, ModeMatches,
         Collecting, Measuring, CanCollect, Exists, HasOwner, slots, counts
  <2>3. UNCHANGED Ledger!vars
    BY <2>1, StepIsStutter DEF SameShare, SameTotals, Open, Adding, CanCollect, Exists, slots, counts
  <2> QED
    BY <2>2, <2>3 DEF LedgerStep
<1>2. CASE Initialize
  BY <1>2, InitializeStep
<1>3. ASSUME NEW t \in Threads, ThreadStep(t) PROVE LedgerInv' /\ LedgerStep
  BY <1>3, CreateStep, HookAllocStep, SnapshotStep, ActivateStep, WorkStep, ApmcStartStep,
     StopAndFinalizerCollect, AddSteps, ThreadExitStep, DestructorStep, PlainSteps, ForkStep
     DEF ThreadStep
<1>4. ASSUME NEW t \in Threads, HandlerStep(t) PROVE LedgerInv' /\ LedgerStep
  BY <1>4, HandlerSteps, AddSteps, KillStep DEF HandlerStep
<1>5. ASSUME NEW t \in Threads, FinalizeStep(t) PROVE LedgerInv' /\ LedgerStep
  BY <1>5, PlainSteps, StopAndFinalizerCollect, AddSteps, WriteStep DEF FinalizeStep, FinalizeUnblocked
<1> QED
  BY <1>1, <1>2, <1>3, <1>4, <1>5 DEF Next, Terminated

LEMMA InitLedgerInv == Init => LedgerInv /\ Ledger!Init
<1> SUFFICES ASSUME Init PROVE LedgerInv /\ Ledger!Init
  OBVIOUS
<1>1. \A t \in Threads : ~Measuring(t) /\ ~Collecting(t) /\ pc[t] \in {"user", "none"}
  BY Ranges DEF Init, Measuring, CanCollect, Collecting, AddPCs
<1>2. \A t \in Threads : ThreadInv(t)
  BY <1>1 DEF Init, ThreadInv, SnapshotOwn, CollectsOnce, KeyIsSet, ModeMatches, Collecting,
       HookPCs, StartPCs
<1>3. LedgerInv
  BY <1>2 DEF Init, LedgerInv, LoadsFirst
<1>4. Ledger!Init
  BY <1>1 DEF Init, Ledger!Init, Ledger!Closed, Adding, Measuring, Collecting
<1> QED
  BY <1>3, <1>4

LEMMA LedgerInvariant ==
  ASSUME MaxTaken <= INT_MAX
  PROVE  Spec => []LedgerInv
  BY InitLedgerInv, LedgerInvStep, TypeInvariant, SlotsInvariant, FinalizerInvariant, PTL DEF Spec

\* The library implements the ledger, as long as g_next_slot does not pass INT_MAX: in
\* every interleaving of hooks, handlers, destructors, region calls, forks and the
\* finalizer, what a thread does while its slot is active is closed once and added whole,
\* and what the process reports is the whole of what had been added by then.
THEOREM LibraryKeepsLedger ==
  ASSUME MaxTaken <= INT_MAX
  PROVE  Spec => ImplementsLedger
<1>1. LedgerStep => [Ledger!Next]_Ledger!vars
  BY DEF LedgerStep
<1> QED
  BY <1>1, InitLedgerInv, LedgerInvStep, TypeInvariant, SlotsInvariant, FinalizerInvariant,
     LedgerInvariant, PTL DEF Spec, ImplementsLedger, Ledger!Spec

\* No thread ends, and no fork leaves a slot, with work that nobody can collect: an
\* ACTIVE slot belongs to a thread that exists and whose destructor will find it.
THEOREM NoSlotIsOrphaned ==
  ASSUME MaxTaken <= INT_MAX
  PROVE  Spec => []NoOrphanSlot
<1>1. LedgerInv => NoOrphanSlot
  <2> SUFFICES ASSUME LedgerInv, NEW s \in Slots, slot_state[s] = "ACTIVE"
               PROVE  \E t \in Threads :
                        /\ Exists(t) /\ t_my_slot[t] = s
                        /\ t = Main \/ pc[t] = "start_snapshot" \/ pc[t] = "start_activate"
                             \/ tls_key[t] = s + 1
    BY DEF NoOrphanSlot
  <2>1. PICK t \in Threads : Exists(t) /\ t_my_slot[t] = s
    BY DEF LedgerInv, HasOwner
  <2>2. Measuring(t) /\ t_my_slot[t] >= 0
    BY <2>1 DEF Measuring, CanCollect, Slots
  <2>3. tls_key[t] = s + 1
    BY <2>1, <2>2 DEF LedgerInv, ThreadInv, KeyIsSet
  <2> QED
    BY <2>1, <2>3
<1> QED
  BY <1>1, LedgerInvariant, PTL

----------------------------------------------------------------------------
(* Threads without a slot.                                                 *)

\* In normal mode a thread past its hook has a slot, or found g_slots full.
HookedOrFull ==
  (loaded = "yes" /\ ~RegionMode /\ proc # "loading") =>
    \A t \in Threads :
      (pc[t] \notin {"none", "hook", "dead"} /\ t_my_slot[t] = -1) => g_next_slot >= MAX_THREAD_SLOTS

\* A step that hands out no slot and takes no thread past its hook.
LEMMA NobodyHooked ==
  ASSUME HookedOrFull, UNCHANGED <<loaded, t_my_slot, g_next_slot>>, proc # "loading",
         \A u \in Threads : pc'[u] \notin {"none", "hook", "dead"} => pc[u] \notin {"none", "hook", "dead"}
  PROVE  HookedOrFull'
  BY DEF HookedOrFull

LEMMA HookedOrFullStep ==
  ASSUME MaxTaken <= INT_MAX
  PROVE  TypeInv /\ SlotsInv /\ LedgerInv /\ HookedOrFull /\ [Next]_vars => HookedOrFull'
<1> SUFFICES ASSUME TypeInv, SlotsInv, LedgerInv, HookedOrFull, [Next]_vars PROVE HookedOrFull'
  OBVIOUS
<1> /\ pc \in [Threads -> PCs] /\ t_my_slot \in [Threads -> SlotIndices]
    /\ g_next_slot \in CInt /\ g_next_slot \in Int /\ MAX_THREAD_SLOTS \in Int
  BY BoundsAssumption DEF TypeInv, TypeOK, CInt
<1> USE DEF Goto, AtPC, slots, counts, teardown, history
<1>1. CASE Initialize
  <2>1. \A u \in Threads \ {Main} : pc'[u] = "none"
    BY <1>1 DEF Initialize, LedgerInv, LoadsFirst
  <2>2. loaded' = "yes" /\ ~RegionMode => t_my_slot'[Main] = 0
    BY <1>1, ThreadsAssumption DEF Initialize, TypeInv, NothingTaken
  <2> QED
    BY <2>1, <2>2 DEF HookedOrFull
<1>2. ASSUME NEW t \in Threads, HookAlloc(t) PROVE HookedOrFull'
  <2>1. g_next_slot' = g_next_slot + 1 /\ proc = "running" /\ proc' = proc /\ loaded' = loaded
    BY <1>2, NoWrap DEF HookAlloc
  <2>2. CASE HasSlot(g_next_slot)
    <3>1. t_my_slot'[t] >= 0
      BY <1>2, <2>2 DEF HookAlloc, SlotsInv
    <3>2. \A u \in Threads \ {t} : t_my_slot'[u] = t_my_slot[u] /\ pc'[u] = pc[u]
      BY <1>2, <2>2 DEF HookAlloc
    <3> QED
      BY <2>1, <3>1, <3>2 DEF HookedOrFull
  <2>3. CASE ~HasSlot(g_next_slot)
    <3>1. g_next_slot' >= MAX_THREAD_SLOTS
      BY <2>1, <2>3 DEF HasSlot
    <3> QED
      BY <3>1 DEF HookedOrFull
  <2> QED
    BY <2>2, <2>3
<1>3. ASSUME NEW t \in Threads, ForkChild(t) PROVE HookedOrFull'
  <2>1. \A u \in Threads \ {t} : pc'[u] = "none"
    BY <1>3 DEF ForkChild
  <2>2. loaded = "yes" /\ ~RegionMode => t_my_slot'[t] = 0
    BY <1>3 DEF ForkChild, AtforkChild
  <2>3. loaded' = loaded
    BY <1>3 DEF ForkChild
  <2> QED
    BY <2>1, <2>2, <2>3 DEF HookedOrFull
<1>4. ASSUME NEW t \in Threads, ApmcStart(t) PROVE HookedOrFull'
  BY <1>4 DEF ApmcStart, HookedOrFull
<1>5. ASSUME NEW t \in Threads, ThreadCreate(t) PROVE HookedOrFull'
  BY <1>5 DEF ThreadCreate, HookedOrFull
<1>6. ASSUME NEW t \in Threads,
         \/ HookSnapshot(t) \/ HookActivate(t) \/ Work(t) \/ StartSnapshot(t)
         \/ StartActivate(t) \/ ApmcStop(t) \/ StopAdd(t)
       PROVE  HookedOrFull'
  BY <1>6, NobodyHooked DEF HookSnapshot, SnapshotAt, HookActivate, Work, StartSnapshot,
     StartActivate, ApmcStop, StopAdd, AddAt
<1>7. ASSUME NEW t \in Threads,
         ThreadExit(t) \/ Destructor(t) \/ DestructorAdd(t) \/ CallExit(t) \/ HandlerStep(t)
       PROVE  HookedOrFull'
  BY <1>7, NobodyHooked DEF ThreadExit, Destructor, CollectAt, DestructorAdd, AddAt, CallExit,
     HandlerStep, Deliver, HandlerAdd, HandlerDec, SignalKills
<1>8. ASSUME NEW t \in Threads, FinalizeStep(t) PROVE HookedOrFull'
  <2>1. CASE FinalizeEnter(t) \/ FinCollect(t) \/ FinAdd(t) \/ FinEnumerate(t) \/ FinCount(t)
    BY <2>1, NobodyHooked DEF FinalizeEnter, FinCollect, CollectAt, FinAdd, AddAt, FinEnumerate, FinCount
  <2>2. CASE FinSignal(t) \/ FinWaitDone(t) \/ FinTimeout(t) \/ FinWrite(t) \/ Leave(t)
    BY <2>2, NobodyHooked DEF FinSignal, FinWaitDone, FinTimeout, FinWrite, Leave
  <2> QED
    BY <1>8, <2>1, <2>2 DEF FinalizeStep, FinalizeUnblocked
<1>9. CASE UNCHANGED vars
  BY <1>9 DEF vars, HookedOrFull
<1> QED
  BY <1>1, <1>2, <1>3, <1>4, <1>5, <1>6, <1>7, <1>8, <1>9 DEF Next, ThreadStep, Terminated

\* In normal mode a thread runs uncounted only once MAX_THREAD_SLOTS slots have been
\* given out; before that every thread gets one, also after forks.
THEOREM UncountedOnlyWhenFull ==
  ASSUME MaxTaken <= INT_MAX
  PROVE  Spec => []UntrackedOnlyWhenFull
<1>1. Init => HookedOrFull
  BY DEF Init, HookedOrFull
<1>2. HookedOrFull => UntrackedOnlyWhenFull
  BY DEF HookedOrFull, UntrackedOnlyWhenFull
<1> QED
  BY <1>1, <1>2, HookedOrFullStep, TypeInvariant, SlotsInvariant, LedgerInvariant, PTL DEF Spec
=============================================================================
