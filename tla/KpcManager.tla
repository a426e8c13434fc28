---------------------------- MODULE KpcManager ----------------------------
(***************************************************************************)
(* KpcManager (kpc.rs) over the kernel's counters: claiming them, which    *)
(* changes how many there are, programming events into their slots, and    *)
(* the way from the registers of every CPU through one flat buffer and two *)
(* snapshots to a value per event.                                         *)
(*                                                                         *)
(* The loop that assigns slots is SlotAssignment; here its result is one   *)
(* step.  Who uses the manager, and for which events, is in ApmcCommand.   *)
(***************************************************************************)
EXTENDS KpepDatabase, FiniteSetsExt

CONSTANTS
  hardware,        \* name |-> the number, slots and fixed counter of an event, and whether
                   \* its number selects nothing without an entitlement
  n_fixed,         \* kpc_get_counter_count(KPC_CLASS_FIXED_MASK)
  NConfigFree,     \* configurable counters while nobody forces them ...
  NConfigForced,   \* ... and once they are claimed: 5 and 8 on M4
  NCPU,            \* CPUs of the machine
  hw_ncpu,         \* what sysctl says of them, or 0 when it fails
  MOD,             \* 2^64: a counter, a sum and a difference are below it
  Bursts,          \* bound: how often an event occurs at a time
  MaxBursts,       \* bound: how many times events occur after a configure
  MaxConfigures    \* bound: calls of configure

ASSUME ManagerAssumption ==
  /\ n_fixed \in Nat /\ n_fixed >= 2
  /\ NConfigFree \in Nat /\ NConfigForced \in Nat
  /\ NCPU \in Nat \ {0} /\ hw_ncpu \in Int /\ MOD \in Nat \ {0}
  /\ Bursts \subseteq Nat /\ MaxBursts \in Nat /\ MaxConfigures \in Nat

VARIABLES
  manager,             \* none, idle, sleeping, configured or dropped
  n_config,            \* self.n_config
  configured_events,   \* self.configured_events: pairs of a name and a slot
  events,              \* the events that the last configure was given
  forced,              \* kernel: the counters belong to this manager
  config,              \* kernel: the number programmed into each slot, or 0
  counting,            \* kernel: what has been enabled, of "cpus" and "threads"
  counter,             \* kernel: the registers of each CPU, fixed ones first
  target,              \* what the library in the measured program will report
  before, after,       \* the snapshots
  occurred,            \* history: how often each event occurred between the snapshots
  lost,                \* history: the events of which the library has missed occurrences
  bursts, configures   \* bounds: occurrences since the last configure, calls of configure

own == <<manager, n_config, configured_events, events, configures>>
kernel == <<forced, config, counting, counter, target, bursts>>
snapshots == <<before, after, occurred, lost>>
manager_vars == <<own, kernel, snapshots>>

Slots == 0 .. NConfigForced - 1
Registers == 0 .. n_fixed + NConfigForced - 1
Cpus == 0 .. NCPU - 1

NothingOccurred == [e \in DOMAIN hardware |-> 0]
Zeroes == [i \in Registers |-> 0]

ManagerInit ==
  /\ manager = "none" /\ n_config = 0 /\ configured_events = {} /\ events = <<>>
  /\ forced = FALSE /\ config = [s \in Slots |-> 0] /\ counting = {}
  /\ counter = [cpu \in Cpus |-> Zeroes] /\ target = Zeroes
  /\ before = None /\ after = None /\ occurred = NothingOccurred /\ lost = {}
  /\ bursts = 0 /\ configures = 0

----------------------------------------------------------------------------
(* The kernel.                                                             *)

\* Mutant: sums grow beyond the width of u64.
WrapNever(n) == n

\* wrapping_add and wrapping_sub on u64.
Wrap(n) == n % MOD

\* kpc_get_counter_count(KPC_CLASS_CONFIGURABLE_MASK)
counter_count == IF forced THEN NConfigForced ELSE NConfigFree

\* Register i counts the event named e: the number in its slot selects it, and the slot
\* can count it.  INST_* read 0 without an entitlement (README.md:119).
Counts(i, e) ==
  LET d == hardware[e]
      slot == i - n_fixed
  IN  \/ i < n_fixed /\ d.fixed_counter = i
      \/ /\ i >= n_fixed
         /\ d.number # None /\ config[slot] = d.number /\ ~d.silent
         /\ d.counters_mask = None \/ slot \in d.counters_mask

Both == {"cpus", "threads"}

\* e occurs n times on a CPU, in what is being measured or elsewhere.  The library in the
\* measured program has it in what it will report, or misses it in all registers.
Occur(e, cpu, n, measured, kept) ==
  LET Counted(registers) ==
        [i \in Registers |-> IF Counts(i, e) THEN Wrap(registers[i] + n) ELSE registers[i]]
  IN  /\ manager = "configured" /\ after = None
      /\ bursts < MaxBursts /\ bursts' = bursts + 1
      /\ counter' = IF "cpus" \in counting THEN [counter EXCEPT ![cpu] = Counted(@)]
                    ELSE counter
      /\ IF measured /\ before # None
           THEN /\ occurred[e] + n < MOD
                /\ occurred' = [occurred EXCEPT ![e] = @ + n]
                /\ target' = IF kept /\ counting = Both THEN Counted(target) ELSE target
                /\ lost' = IF kept THEN lost ELSE lost \cup {e}
           ELSE UNCHANGED <<occurred, target, lost>>
      /\ UNCHANGED <<own, forced, config, counting, before, after>>

\* kpc_get_cpu_counters: the registers in use, of one CPU after the other.
cpu_counters ==
  LET n == n_fixed + counter_count
  IN  [j \in 0 .. NCPU * n - 1 |-> counter[j \div n][j % n]]

----------------------------------------------------------------------------
(* new and configure.                                                      *)

\* ncpu: 1 if sysctl fails.
ncpu == IF hw_ncpu <= 0 THEN 1 ELSE hw_ncpu

\* Without root, without kperf, or when one of its symbols is missing (KpcFns::load), there
\* is no manager.
New ==
  /\ manager = "none"
  /\ \/ manager' = "idle" /\ n_config' = counter_count
     \/ manager' = "dropped" /\ UNCHANGED n_config
  /\ UNCHANGED <<configured_events, events, configures, kernel, snapshots>>

\* configure(evs): release the counters, and sleep.  Snapshots from before are of no use
\* any more.
ConfigureBegin(evs) ==
  /\ manager \in {"idle", "configured"} /\ configures < MaxConfigures
  /\ manager' = "sleeping" /\ events' = evs
  /\ forced' = FALSE /\ configures' = configures + 1 /\ bursts' = 0
  /\ before' = None /\ after' = None /\ occurred' = NothingOccurred /\ lost' = {}
  /\ UNCHANGED <<n_config, configured_events, config, counting, counter, target>>

\* Another program has the counters, or the kernel refuses them.
ConfigureRefused ==
  /\ manager = "sleeping"
  /\ manager' = "idle"
  /\ UNCHANGED <<n_config, configured_events, events, configures, kernel, snapshots>>

configurable == Filter(events, {i \in DOMAIN events : is_configurable(events[i])})

\* Mutant: the counts are those that new has asked for.
RequeryNever == n_config

\* The count after claiming the counters.
Requery == NConfigForced

\* Mutant: the error return keeps the counters.
ConfigureTooManyHeld ==
  /\ manager = "sleeping"
  /\ n_config' = Requery
  /\ Len(configurable) > n_config'
  /\ manager' = "idle" /\ forced' = TRUE
  /\ UNCHANGED <<configured_events, events, configures, config, counting, counter, target,
                 bursts, snapshots>>

\* The counters are claimed, but there are too few, and they are released.
ConfigureTooMany ==
  /\ manager = "sleeping"
  /\ n_config' = Requery
  /\ Len(configurable) > n_config'
  /\ manager' = "idle"
  /\ UNCHANGED <<configured_events, events, configures, kernel, snapshots>>

\* assign_slots, for n slots: the most constrained positions of configurable choose
\* first, the lowest slot that is left to them, or they get none.
Unassigned == -1
assign_slots(n) ==
  LET Positions == 1 .. Len(configurable)
      mask(p) == configurable[p].counters_mask
      valid_count(p) == IF mask(p) = None THEN n ELSE Cardinality(mask(p))
      Earlier(p) == {q \in Positions : valid_count(q) < valid_count(p) \/
                                       (valid_count(q) = valid_count(p) /\ q < p)}
      Left(g, p) == {s \in 0 .. n - 1 : mask(p) = None \/ s \in mask(p)}
                      \ {g[q] : q \in Earlier(p)}
  IN  CHOOSE g \in [Positions -> (0 .. n - 1) \cup {Unassigned}] :
        \A p \in Positions :
          g[p] = IF Left(g, p) = {} THEN Unassigned ELSE Min(Left(g, p))

\* Disable counting, zero the configuration, program the events, enable counting; when the
\* kernel rejects the configuration, release the counters.  Only that is tested: what is
\* disabled or enabled, and the zeros, may have been refused in silence.
ConfigureProgram ==
  /\ manager = "sleeping"
  /\ n_config' = Requery
  /\ Len(configurable) <= n_config'
  /\ LET slot == assign_slots(n_config')
         placed == {p \in DOMAIN slot : slot[p] # Unassigned}
     IN /\ configured_events' = {<<configurable[p].name, slot[p]>> : p \in placed}
        /\ \/ /\ manager' = "configured" /\ forced' = TRUE
              /\ counting' \in SUBSET Both
              /\ config' = [s \in Slots |->
                   IF \E p \in placed : slot[p] = s
                     THEN configurable[CHOOSE p \in placed : slot[p] = s].number ELSE 0]
           \/ /\ manager' = "idle" /\ forced' = FALSE
              /\ counting' \in SUBSET counting
              /\ config' \in {config, [s \in Slots |-> 0]}
  /\ UNCHANGED <<events, configures, counter, target, bursts, snapshots>>

----------------------------------------------------------------------------
(* Reading.                                                                *)

n_total == n_fixed + n_config

\* read_system_wide: the sum over the CPUs, by the counts the manager knows.
read_system_wide ==
  LET buf(j) == IF j \in DOMAIN cpu_counters THEN cpu_counters[j] ELSE 0
      sums[cpus \in 0 .. ncpu] ==
        IF cpus = 0 THEN [i \in 0 .. n_total - 1 |-> 0]
        ELSE [i \in 0 .. n_total - 1 |->
                Wrap(sums[cpus - 1][i] + buf((cpus - 1) * n_total + i))]
  IN  sums[ncpu]

val(snap, idx) == IF idx \in DOMAIN snap THEN snap[idx] ELSE 0

\* delta: cycles and instructions, then one value per slot.
Fixed(i) == Wrap(val(after, i) - val(before, i))

\* Mutant: the configurable registers are thought to come first.
DeltaConfigurableFirst ==
  [slot \in 0 .. n_config - 1 |-> Wrap(val(after, slot) - val(before, slot))]

DeltaConfigurable ==
  [slot \in 0 .. n_config - 1 |->
    Wrap(val(after, n_fixed + slot) - val(before, n_fixed + slot))]

\* labeled_counters: names and values.
labeled_counters ==
  {<<ev[1], DeltaConfigurable[ev[2]]>> :
     ev \in {c \in configured_events : c[2] \in DOMAIN DeltaConfigurable}}

\* release, on Drop.
Drop ==
  /\ manager \in {"idle", "configured"}
  /\ manager' = "dropped" /\ forced' = FALSE
  /\ UNCHANGED <<n_config, configured_events, events, configures, config, counting, counter,
                 target, bursts, snapshots>>

----------------------------------------------------------------------------
(* Properties.                                                             *)

ManagerTypeOK ==
  /\ manager \in {"none", "idle", "sleeping", "configured", "dropped"}
  /\ n_config \in {0, NConfigFree, NConfigForced}
  /\ \A ev \in configured_events : ev[2] \in Slots
  /\ forced \in BOOLEAN
  /\ config \in [Slots -> 0 .. U16 - 1] /\ counting \subseteq Both
  /\ counter \in [Cpus -> [Registers -> 0 .. MOD - 1]]
  /\ target \in [Registers -> 0 .. MOD - 1]
  /\ before = None \/ before \in [0 .. n_total - 1 -> 0 .. MOD - 1]
  /\ after = None \/ after \in [0 .. n_total - 1 -> 0 .. MOD - 1]
  /\ occurred \in [DOMAIN hardware -> 0 .. MOD - 1] /\ lost \subseteq DOMAIN hardware
  /\ bursts \in 0 .. MaxBursts /\ configures \in 0 .. MaxConfigures

\* The kernel fills a buffer whose size it is not told (kpc.rs:306-313): as often as it can
\* be called, it has room for every register of every CPU.  It takes the counts from
\* after the counters were claimed (kpc.rs:204-206).
BufferFits == manager = "configured" => Cardinality(DOMAIN cpu_counters) <= ncpu * n_total

\* A configure that fails, at whichever of its returns, leaves the counters to others
\* (kpc.rs:217, 249), also while the manager lives on.
FailureReleases == manager \in {"none", "idle", "dropped"} => ~forced
=============================================================================
