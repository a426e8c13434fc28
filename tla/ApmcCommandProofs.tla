------------------------- MODULE ApmcCommandProofs -------------------------
(***************************************************************************)
(* What apmc and KpcManager promise about the counters, for any machine,   *)
(* databases and requests.                                                 *)
(***************************************************************************)
EXTENDS ApmcCommand, KpepDatabaseProofs

----------------------------------------------------------------------------
(* The database.                                                           *)

\* Whoever has a database has parsed the contents of one of the files that are there.
FromFile ==
  /\ files \in Directories
  /\ db # None => command # None
  /\ Loaded => file \in DOMAIN files /\ db = load_from_path(files[file])
  /\ command # None => command \in Commands

LEMMA FromFileStep == FromFile /\ [Next]_vars => FromFile'
<1> SUFFICES ASSUME FromFile, [Next]_vars PROVE FromFile'
  OBVIOUS
<1>1. CASE Main
  <2>1. UNCHANGED <<files, file, db>> /\ command' \in Commands /\ command = None
    BY <1>1 DEF Main
  <2> QED
    BY <2>1 DEF FromFile, Loaded
<1>2. CASE Load
  <2>1. UNCHANGED <<command, files>> /\ command # None
    BY <1>2 DEF Load
  <2>2. PICK read \in IF command.sub = "list" /\ command.path # None
                        THEN {<<command.path, load_from_path(contents(command.path))>>}
                        ELSE UNION {load_current_cpu(cpu) : cpu \in read_cpu_info} :
          file' = read[1] /\ db' = read[2]
    BY <1>2 DEF Load
  <2>3. \A path : load_from_path(contents(path)).ok =>
           path \in DOMAIN files /\ load_from_path(contents(path)) = load_from_path(files[path])
    BY DEF contents, load_from_path, Err
  <2>4. CASE command.sub = "list" /\ command.path # None
    <3>1. file' = command.path /\ db' = load_from_path(contents(command.path))
      BY <2>2, <2>4
    <3> QED
      BY <2>1, <2>3, <3>1 DEF FromFile, Loaded
  <2>5. CASE ~(command.sub = "list" /\ command.path # None)
    <3>1. PICK cpu \in read_cpu_info : read \in load_current_cpu(cpu)
      BY <2>2, <2>5
    <3>2. \/ read = <<None, cpu>> /\ ~cpu.ok
          \/ read = <<None, Err("DatabaseNotFound")>>
          \/ \E f : read = <<f, load_from_path(contents(f))>>
      BY <3>1 DEF load_current_cpu
    <3>3. read[2].ok => read[2] = load_from_path(contents(read[1]))
      BY <3>2 DEF Err
    <3> QED
      BY <2>1, <2>2, <2>3, <3>3 DEF FromFile, Loaded
  <2> QED
    BY <2>4, <2>5
<1>3. CASE UNCHANGED command_vars
  BY <1>3 DEF FromFile, Loaded, command_vars
<1> QED
  BY <1>1, <1>2, <1>3
  DEF Next, Create, Configure, Configuring, ConfigureRefused, ConfigureTooMany,
      ConfigureProgram, ReadBefore, Occurs, ReadAfter, Return, Finished, vars

LEMMA FromFileInvariant == Spec => []FromFile
<1>1. Init => FromFile
  BY DEF Init, FromFile, Loaded
<1> QED
  BY <1>1, FromFileStep, PTL DEF Spec

\* `apmc list` shows every event of the file that can be counted at all, each once, in the
\* order of their numbers, and finds it again by its name (kpep.rs:184-325): for any
\* property lists that may be there, and any width of the numbers.
THEOREM ListingIsComplete == Spec => []ListsEachEventOnce
<1>1. FromFile => ListsEachEventOnce
  <2> SUFFICES ASSUME FromFile, Loaded PROVE ListsEachEventOnce
    BY DEF ListsEachEventOnce
  <2> DEFINE root == files[file]
  <2>1. IsContents(root) /\ load_from_path(root).ok /\ db.value = load_from_path(root).value
    BY CommandAssumption DEF FromFile, Loaded
  <2>2. entries(file) = countable(root)
    <3>1. get(root, "system") # None /\ get(get(root, "system"), "cpu") # None /\ root # Junk
          /\ events_dict(root) # None
      BY <2>1, ParseSucceeds
    <3>2. events_dict(root) = root.system.cpu.events
      BY <3>1 DEF events_dict, get
    <3> QED
      BY <3>2 DEF entries, countable
  <2>3. Complete(root)
    BY <2>1, ListingComplete
  <2> QED
    BY <2>1, <2>2, <2>3 DEF ListsEachEventOnce, Complete
<1> QED
  BY <1>1, FromFileInvariant, PTL

----------------------------------------------------------------------------
(* Claiming the counters.                                                  *)

\* The counters belong to the manager exactly while it is configured, and then it knows
\* how many there are.
ClaimInv ==
  /\ forced <=> manager = "configured"
  /\ forced \in BOOLEAN
  /\ manager = "configured" => n_config = NConfigForced

\* Every step that touches the claim, or who holds it.
LEMMA ClaimStep == ClaimInv /\ [Next]_vars => ClaimInv'
<1> SUFFICES ASSUME ClaimInv, [Next]_vars PROVE ClaimInv'
  OBVIOUS
<1> USE DEF ClaimInv, manager_vars, own, kernel, snapshots
<1>1. CASE Main \/ Load \/ Finished
  BY <1>1 DEF Main, Load, Finished, vars
<1>2. CASE Create
  BY <1>2 DEF Create, New
<1>3. CASE Configure
  <2>1. PICK evs : ConfigureBegin(evs)
    BY <1>3 DEF Configure
  <2> QED
    BY <2>1 DEF ConfigureBegin
<1>4. CASE Configuring
  <2>1. CASE ConfigureRefused
    BY <2>1 DEF ConfigureRefused
  <2>2. CASE ConfigureTooMany
    BY <2>2 DEF ConfigureTooMany
  <2>3. CASE ConfigureProgram
    <3>1. n_config' = NConfigForced
      BY <2>3 DEF ConfigureProgram, Requery
    <3>2. \/ manager' = "configured" /\ forced' = TRUE
          \/ manager' = "idle" /\ forced' = FALSE
      BY <2>3 DEF ConfigureProgram
    <3> QED
      BY <3>1, <3>2
  <2> QED
    BY <1>4, <2>1, <2>2, <2>3 DEF Configuring
<1>5. CASE ReadBefore
  BY <1>5 DEF ReadBefore
<1>6. CASE Occurs
  <2>1. \E e, cpu, n, measured, kept : Occur(e, cpu, n, measured, kept)
    BY <1>6 DEF Occurs
  <2>2. UNCHANGED <<own, forced>>
    BY <2>1 DEF Occur
  <2> QED
    BY <2>2
<1>7. CASE ReadAfter
  BY <1>7 DEF ReadAfter
<1>8. CASE Return
  BY <1>8 DEF Return, Drop
<1>9. CASE UNCHANGED vars
  BY <1>9 DEF vars
<1> QED
  BY <1>1, <1>2, <1>3, <1>4, <1>5, <1>6, <1>7, <1>8, <1>9 DEF Next

LEMMA ClaimInvariant == Spec => []ClaimInv
<1>1. Init => ClaimInv
  BY DEF Init, ManagerInit, ClaimInv
<1> QED
  BY <1>1, ClaimStep, PTL DEF Spec

\* A configure that fails, at whichever of its returns, leaves the counters to others, and
\* so does the end of the manager (kpc.rs:197-255).
THEOREM FailedConfigureReleases == Spec => []FailureReleases
<1>1. ClaimInv => FailureReleases
  BY DEF ClaimInv, FailureReleases
<1> QED
  BY <1>1, ClaimInvariant, PTL

\* Where sysctl tells the number of CPUs, or more, the buffer has room for all that the
\* kernel writes into it (kpc.rs:100-110, 306-313).
THEOREM BufferHasRoom ==
  ASSUME hw_ncpu >= NCPU
  PROVE  Spec => []BufferFits
<1>1. ClaimInv => BufferFits
  <2> SUFFICES ASSUME ClaimInv, manager = "configured"
               PROVE  Cardinality(DOMAIN cpu_counters) <= ncpu * n_total
    BY DEF BufferFits
  <2> DEFINE n == n_fixed + NConfigForced
  <2>1. n_total = n /\ n_fixed + counter_count = n
    BY DEF ClaimInv, n_total, counter_count
  <2>2. n \in Nat /\ NCPU \in Nat \ {0} /\ ncpu = hw_ncpu /\ hw_ncpu \in Int
    BY ManagerAssumption DEF ncpu
  <2>3. DOMAIN cpu_counters = 0 .. NCPU * n - 1
    BY <2>1 DEF cpu_counters
  <2> HIDE DEF n
  <2>4. NCPU * n \in Nat /\ NCPU * n <= hw_ncpu * n
    BY <2>2
  <2>5. Cardinality(0 .. NCPU * n - 1) = NCPU * n
    <3>1. NCPU * n - 1 \in Int
      BY <2>4
    <3>2. Cardinality(0 .. NCPU * n - 1) = IF 0 > NCPU * n - 1 THEN 0 ELSE (NCPU * n - 1) - 0 + 1
      BY <3>1, FS_Interval
    <3> QED
      BY <2>4, <3>2
  <2> QED
    BY <2>1, <2>2, <2>3, <2>4, <2>5
<1> QED
  BY <1>1, ClaimInvariant, PTL
----------------------------------------------------------------------------
(* Reading the registers of all CPUs.                                      *)

\* Registers in use once the counters are claimed.
Width == n_fixed + NConfigForced
Columns == 0 .. Width - 1
Values == 0 .. MOD - 1
Banks == [Cpus -> [Registers -> Values]]

LEMMA WidthType ==
  /\ Width \in Nat \ {0} /\ Columns = Registers /\ ncpu \in Nat \ {0} /\ NCPU \in Nat \ {0}
  /\ MOD \in Nat \ {0} /\ 0 \in Values /\ n_fixed \in Nat /\ NConfigForced \in Nat
  BY ManagerAssumption DEF Width, Columns, Registers, ncpu, Values

\* totals[c] is the sum over the first c CPUs.
Totals(totals, bank) ==
  /\ totals \in [0 .. ncpu -> [Columns -> Values]]
  /\ \A i \in Columns : totals[0][i] = 0
  /\ \A c \in 1 .. ncpu, i \in Columns :
       totals[c][i] = IF c <= NCPU THEN (totals[c - 1][i] + bank[c - 1][i]) % MOD
                      ELSE totals[c - 1][i]

\* The recursion in read_system_wide, up to CPU n.
Added(s, c) ==
  [i \in 0 .. n_total - 1 |->
     Wrap(s[c - 1][i] + (IF (c - 1) * n_total + i \in DOMAIN cpu_counters
                           THEN cpu_counters[(c - 1) * n_total + i] ELSE 0))]

IsSums(s, n) ==
  s = [c \in 0 .. n |-> IF c = 0 THEN [i \in 0 .. n_total - 1 |-> 0] ELSE Added(s, c)]

LEMMA SumsExist == \E s : IsSums(s, ncpu)
<1> DEFINE zero == [i \in 0 .. n_total - 1 |-> 0]
           S == {n \in Nat : \E s : IsSums(s, n)}
<1>1. 0 \in S
  <2> DEFINE s == [c \in 0 .. 0 |-> zero]
  <2>1. IsSums(s, 0)
    BY DEF IsSums
  <2> QED
    BY <2>1
<1>2. ASSUME NEW n \in Nat, n \in S PROVE n + 1 \in S
  <2>1. PICK s : IsSums(s, n)
    BY <1>2
  <2> DEFINE t == [c \in 0 .. n + 1 |-> IF c <= n THEN s[c] ELSE Added(s, c)]
  <2>2. \A c \in 1 .. n + 1 : c - 1 \in 0 .. n + 1 /\ t[c - 1] = s[c - 1]
    OBVIOUS
  <2>3. \A c \in 1 .. n + 1 : Added(t, c) = Added(s, c)
    <3> HIDE DEF t
    <3> QED
      BY <2>2 DEF Added
  <2>4. \A c \in 0 .. n : s[c] = IF c = 0 THEN zero ELSE Added(s, c)
    BY <2>1 DEF IsSums
  <2>5. ASSUME NEW c \in 0 .. n + 1 PROVE t[c] = IF c = 0 THEN zero ELSE Added(t, c)
    <3>1. CASE c = 0
      <4>1. t[c] = s[c] /\ c \in 0 .. n
        BY <3>1
      <4> HIDE DEF t
      <4> QED
        BY <2>4, <3>1, <4>1
    <3>2. CASE c \in 1 .. n
      <4>1. t[c] = s[c] /\ c \in 0 .. n /\ c # 0 /\ c \in 1 .. n + 1
        BY <3>2
      <4> HIDE DEF t
      <4> QED
        BY <2>3, <2>4, <4>1
    <3>3. CASE c = n + 1
      <4>1. t[c] = Added(s, c) /\ c # 0 /\ c \in 1 .. n + 1
        BY <3>3
      <4> HIDE DEF t
      <4> QED
        BY <2>3, <4>1
    <3> QED
      BY <3>1, <3>2, <3>3
  <2>6. t = [c \in 0 .. n + 1 |-> t[c]]
    OBVIOUS
  <2> HIDE DEF t
  <2>7. IsSums(t, n + 1)
    BY <2>5, <2>6 DEF IsSums
  <2> QED
    BY <2>7
<1> HIDE DEF S
<1>3. Nat \subseteq S
  BY <1>1, <1>2, Induction
<1> QED
  BY <1>3, WidthType DEF S

LEMMA ReadIsSums == \E s : IsSums(s, ncpu) /\ read_system_wide = s[ncpu]
<1> DEFINE sums == CHOOSE s : IsSums(s, ncpu)
<1>1. read_system_wide = sums[ncpu]
  BY DEF read_system_wide, IsSums, Added
<1>2. IsSums(sums, ncpu)
  BY SumsExist
<1> HIDE DEF sums
<1> QED
  BY <1>1, <1>2

LEMMA ReadIsTotal ==
  ClaimInv /\ manager = "configured" /\ counter \in Banks =>
    \E totals : Totals(totals, counter) /\ read_system_wide = totals[ncpu]
<1> SUFFICES ASSUME ClaimInv, manager = "configured", counter \in Banks
             PROVE  \E totals : Totals(totals, counter) /\ read_system_wide = totals[ncpu]
  OBVIOUS
<1>1. n_total = Width /\ n_fixed + counter_count = Width
  BY DEF ClaimInv, n_total, counter_count, Width
<1>2. PICK s : IsSums(s, ncpu) /\ read_system_wide = s[ncpu]
  BY ReadIsSums
<1>3. /\ s = [c \in 0 .. ncpu |-> s[c]]
      /\ s[0] = [i \in Columns |-> 0]
      /\ \A c \in 1 .. ncpu : s[c] = Added(s, c)
  <2> DEFINE term(c) == IF c = 0 THEN [i \in 0 .. n_total - 1 |-> 0] ELSE Added(s, c)
  <2>1. s = [c \in 0 .. ncpu |-> term(c)]
    BY <1>2 DEF IsSums
  <2>2. term(0) = [i \in Columns |-> 0] /\ \A c \in 1 .. ncpu : term(c) = Added(s, c)
    BY <1>1 DEF Columns
  <2>3. 0 \in 0 .. ncpu /\ \A c \in 1 .. ncpu : c \in 0 .. ncpu
    BY WidthType
  <2> HIDE DEF term
  <2> QED
    BY <2>1, <2>2, <2>3
\* What is added for a CPU is its bank, or nothing beyond the last CPU.
<1>4. ASSUME NEW c \in 1 .. ncpu, NEW i \in Columns
      PROVE  (IF (c - 1) * n_total + i \in DOMAIN cpu_counters
                THEN cpu_counters[(c - 1) * n_total + i] ELSE 0)
               = IF c <= NCPU THEN counter[c - 1][i] ELSE 0
  <2> DEFINE j == (c - 1) * Width + i
  <2>0. c - 1 \in Nat /\ Width \in Nat /\ i \in 0 .. Width - 1 /\ NCPU \in Nat
    BY WidthType DEF Columns
  <2>1. j \div Width = c - 1 /\ j % Width = i
    BY <2>0, RowAndColumn
  <2>2. CASE c <= NCPU
    <3>1. c - 1 \in 0 .. NCPU - 1
      BY <2>0, <2>2
    <3>2. j \in 0 .. NCPU * Width - 1
      BY <2>0, <3>1, RowFits
    <3> HIDE DEF j
    <3>3. j \in DOMAIN cpu_counters /\ cpu_counters[j] = counter[c - 1][i]
      BY <1>1, <2>1, <3>2 DEF cpu_counters
    <3> QED
      BY <1>1, <2>2, <3>3 DEF j
  <2>3. CASE ~(c <= NCPU)
    <3>1. c - 1 >= NCPU
      BY <2>0, <2>3
    <3>2. j \notin 0 .. NCPU * Width - 1
      BY <2>0, <3>1, RowBeyond
    <3> HIDE DEF j
    <3>3. j \notin DOMAIN cpu_counters
      BY <1>1, <3>2 DEF cpu_counters
    <3> QED
      BY <1>1, <2>3, <3>3 DEF j
  <2> QED
    BY <2>2, <2>3
<1>5. \A c \in 1 .. ncpu : s[c] = [i \in Columns |->
          (s[c - 1][i] + (IF c <= NCPU THEN counter[c - 1][i] ELSE 0)) % MOD]
  <2> SUFFICES ASSUME NEW c \in 1 .. ncpu
               PROVE  s[c] = [i \in Columns |->
          (s[c - 1][i] + (IF c <= NCPU THEN counter[c - 1][i] ELSE 0)) % MOD]
    OBVIOUS
  <2>1. s[c] = Added(s, c)
    BY <1>3
  <2>2. Added(s, c) = [i \in Columns |->
          (s[c - 1][i] + (IF (c - 1) * n_total + i \in DOMAIN cpu_counters
                THEN cpu_counters[(c - 1) * n_total + i] ELSE 0)) % MOD]
    BY <1>1 DEF Added, Columns, Wrap
  <2> QED
    BY <1>4, <2>1, <2>2
\* By induction over the CPUs, the sums are values.
<1> DEFINE S == {n \in Nat : n <= ncpu => s[n] \in [Columns -> Values]}
<1>6. 0 \in S
  BY <1>3, WidthType
<1>7. ASSUME NEW n \in Nat, n \in S PROVE n + 1 \in S
  <2> SUFFICES ASSUME n + 1 <= ncpu PROVE s[n + 1] \in [Columns -> Values]
    OBVIOUS
  <2>1. n <= ncpu /\ n + 1 \in 1 .. ncpu /\ (n + 1) - 1 = n
    BY WidthType
  <2>2. s[n] \in [Columns -> Values]
    BY <1>7, <2>1
  <2>3. s[n + 1] = [i \in Columns |->
          (s[n][i] + (IF n + 1 <= NCPU THEN counter[n][i] ELSE 0)) % MOD]
    BY <1>5, <2>1
  <2>4. ASSUME NEW i \in Columns
        PROVE  (s[n][i] + (IF n + 1 <= NCPU THEN counter[n][i] ELSE 0)) % MOD \in Values
    <3>1. s[n][i] \in Int
      BY <2>2 DEF Values
    <3>2. (IF n + 1 <= NCPU THEN counter[n][i] ELSE 0) \in Int
      BY WidthType DEF Banks, Cpus, Values
    <3>3. \A x, y \in Int : (x + y) % MOD \in Values
      BY WidthType DEF Values
    <3> QED
      BY <3>1, <3>2, <3>3
  <2> QED
    BY <2>3, <2>4
<1> HIDE DEF S
<1>8. Nat \subseteq S
  BY <1>6, <1>7, Induction
<1>9. \A c \in 0 .. ncpu : s[c] \in [Columns -> Values]
  BY <1>8, WidthType DEF S
<1>10. ASSUME NEW c \in 1 .. ncpu, NEW i \in Columns
       PROVE  s[c][i] = IF c <= NCPU THEN (s[c - 1][i] + counter[c - 1][i]) % MOD
                        ELSE s[c - 1][i]
  <2>1. s[c][i] = (s[c - 1][i] + (IF c <= NCPU THEN counter[c - 1][i] ELSE 0)) % MOD
    BY <1>5
  <2>2. c - 1 \in 0 .. ncpu
    BY WidthType
  <2>3. s[c - 1][i] \in Values
    BY <1>9, <2>2
  <2>4. (s[c - 1][i] + 0) % MOD = s[c - 1][i]
    BY <2>3, WidthType DEF Values
  <2> QED
    BY <2>1, <2>4
<1>11. Totals(s, counter)
  BY <1>3, <1>9, <1>10 DEF Totals
<1> QED
  BY <1>2, <1>11
----------------------------------------------------------------------------
(* Assigning slots.                                                        *)

\* The positions that choose before p, and the slots that are left to it.
valid(p, n) ==
  IF configurable[p].counters_mask = None THEN n
  ELSE Cardinality(configurable[p].counters_mask)

EarlierThan(n) ==
  [p \in 1 .. Len(configurable) |->
    {q \in 1 .. Len(configurable) : valid(q, n) < valid(p, n) \/
                                    (valid(q, n) = valid(p, n) /\ q < p)}]

LeftTo(g, p, n) ==
  {s \in 0 .. n - 1 : configurable[p].counters_mask = None \/ s \in configurable[p].counters_mask}
    \ {g[q] : q \in EarlierThan(n)[p]}

Choice(g, p, n) == IF LeftTo(g, p, n) = {} THEN Unassigned ELSE Min(LeftTo(g, p, n))

IsGreedy(g, n) ==
  /\ g \in [1 .. Len(configurable) -> (0 .. n - 1) \cup {Unassigned}]
  /\ \A p \in 1 .. Len(configurable) : g[p] = Choice(g, p, n)

\* The masks are finite.
MasksFit ==
  /\ Len(configurable) \in Nat
  /\ \A p \in 1 .. Len(configurable) :
       configurable[p].counters_mask = None
         \/ configurable[p].counters_mask \in SUBSET (0 .. U8_BITS - 1)

LEMMA ChoiceIsLeft ==
  ASSUME NEW n \in Nat, NEW g, NEW p
  PROVE  /\ Choice(g, p, n) \in (0 .. n - 1) \cup {Unassigned}
         /\ Choice(g, p, n) # Unassigned => Choice(g, p, n) \in LeftTo(g, p, n)
<1>1. LeftTo(g, p, n) \subseteq 0 .. n - 1 /\ LeftTo(g, p, n) \subseteq Nat
  BY DEF LeftTo
<1>2. LeftTo(g, p, n) # {} => Min(LeftTo(g, p, n)) \in LeftTo(g, p, n)
  <2> DEFINE T == LeftTo(g, p, n)
  <2> HIDE DEF T
  <2>1. T # {} => \E x \in T : \A y \in T : x <= y
    BY <1>1, LeastNatural DEF T
  <2>2. T # {} => Min(T) \in T
    BY <2>1 DEF Min
  <2> QED
    BY <2>2 DEF T
<1> QED
  BY <1>1, <1>2 DEF Choice

\* Position after position, each choice depends only on those before.
LEMMA GreedyExists ==
  ASSUME NEW n \in Nat, MasksFit
  PROVE  \E g : IsGreedy(g, n)
<1> DEFINE P == 1 .. Len(configurable)
           prior == EarlierThan(n)
           rank(p) == Cardinality(prior[p])
           Good(g, k) == /\ g \in [P -> (0 .. n - 1) \cup {Unassigned}]
                         /\ \A p \in P : rank(p) < k => g[p] = Choice(g, p, n)
           S == {k \in Nat : \E g : Good(g, k)}
<1>1. \A p \in P : valid(p, n) \in Int
  <2> SUFFICES ASSUME NEW p \in P PROVE valid(p, n) \in Int
    OBVIOUS
  <2>1. CASE configurable[p].counters_mask = None
    BY <2>1 DEF valid
  <2>2. CASE configurable[p].counters_mask # None
    <3>1. configurable[p].counters_mask \in SUBSET (0 .. U8_BITS - 1)
      BY <2>2 DEF MasksFit
    <3>2. IsFiniteSet(0 .. U8_BITS - 1)
      <4>1. U8_BITS - 1 \in Int
        BY DatabaseAssumption
      <4> QED
        BY <4>1, FS_Interval
    <3>3. IsFiniteSet(configurable[p].counters_mask)
      BY <3>1, <3>2, FS_Subset
    <3> QED
      BY <2>2, <3>3, FS_CardinalityType DEF valid
  <2> QED
    BY <2>1, <2>2
<1>2. IsFiniteSet(P) /\ P \subseteq Int
  BY FS_Interval DEF MasksFit
<1>3. /\ prior \in [P -> SUBSET P]
      /\ \A p, q \in P : q \in prior[p] <=>
           valid(q, n) < valid(p, n) \/ (valid(q, n) = valid(p, n) /\ q < p)
  BY DEF EarlierThan
<1> HIDE DEF P, prior
<1>4. /\ \A x \in P : x \notin prior[x]
      /\ \A x, y \in P : x # y => x \in prior[y] \/ y \in prior[x]
      /\ \A x, y \in P : x \in prior[y] => prior[x] \subseteq prior[y]
  <2>1. \A x \in P : x \notin prior[x]
    BY <1>1, <1>2, <1>3
  <2>2. \A x, y \in P : x # y => x \in prior[y] \/ y \in prior[x]
    BY <1>1, <1>2, <1>3
  <2>3. ASSUME NEW x \in P, NEW y \in P, x \in prior[y], NEW z \in prior[x] PROVE z \in prior[y]
    <3>1. z \in P
      BY <1>3
    <3> QED
      BY <1>1, <1>2, <1>3, <2>3, <3>1
  <2> QED
    BY <2>1, <2>2, <2>3
<1>5. /\ Cardinality(P) \in Nat
      /\ \A x \in P : Cardinality(prior[x]) \in 0 .. Cardinality(P) - 1
      /\ \A m \in 0 .. Cardinality(P) - 1 : \E x \in P : Cardinality(prior[x]) = m
      /\ \A x, y \in P : x \in prior[y] => Cardinality(prior[x]) < Cardinality(prior[y])
      /\ \A x, y \in P : Cardinality(prior[x]) = Cardinality(prior[y]) => x = y
  BY <1>2, <1>3, <1>4, Ranking
<1>6. \A p \in P : rank(p) \in Nat /\ rank(p) < Cardinality(P)
  BY <1>5
<1>7. \A p, q \in P : q \in prior[p] => rank(q) < rank(p)
  BY <1>5
<1>8. \A p, q \in P : rank(p) = rank(q) => p = q
  BY <1>5
<1> HIDE DEF rank
<1>9. 0 \in S
  <2> DEFINE g == [p \in P |-> Unassigned]
  <2>1. Good(g, 0)
    BY <1>6
  <2> QED
    BY <2>1
\* A choice depends only on the earlier positions.
<1>10. ASSUME NEW g, NEW h, NEW p \in P, \A q \in prior[p] : g[q] = h[q]
       PROVE  Choice(g, p, n) = Choice(h, p, n)
  <2>1. {g[q] : q \in prior[p]} = {h[q] : q \in prior[p]}
    BY <1>10
  <2> QED
    BY <2>1 DEF Choice, LeftTo, prior
<1>11. ASSUME NEW k \in Nat, k \in S PROVE k + 1 \in S
  <2>1. PICK g : Good(g, k)
    BY <1>11
  <2> DEFINE h == [p \in P |-> IF rank(p) < k THEN g[p] ELSE Choice(g, p, n)]
  <2>2. h \in [P -> (0 .. n - 1) \cup {Unassigned}]
    BY <2>1, ChoiceIsLeft
  <2>3. ASSUME NEW p \in P, rank(p) < k + 1 PROVE h[p] = Choice(h, p, n)
    <3>1. h[p] = Choice(g, p, n)
      BY <2>1
    <3>2. \A q \in prior[p] : g[q] = h[q]
      <4> SUFFICES ASSUME NEW q \in prior[p] PROVE g[q] = h[q]
        OBVIOUS
      <4>1. q \in P
        BY <1>3
      <4>2. rank(q) < rank(p) /\ rank(q) \in Nat /\ rank(p) \in Nat
        BY <1>6, <1>7, <4>1
      <4>3. rank(q) < k
        BY <2>3, <4>2
      <4> QED
        BY <4>1, <4>3
    <3> HIDE DEF h
    <3>3. Choice(g, p, n) = Choice(h, p, n)
      BY <1>10, <3>2
    <3> QED
      BY <3>1, <3>3
  <2> HIDE DEF h
  <2>4. Good(h, k + 1)
    BY <2>2, <2>3
  <2> QED
    BY <2>4
<1> HIDE DEF S
<1>12. Nat \subseteq S
  BY <1>9, <1>11, Induction
<1>13. PICK g : Good(g, Cardinality(P))
  BY <1>5, <1>12 DEF S
<1>14. IsGreedy(g, n)
  BY <1>6, <1>13 DEF IsGreedy, P
<1> QED
  BY <1>14

\* assign_slots is that assignment.
LEMMA AssignmentIsGreedy ==
  ASSUME NEW n \in Nat, MasksFit
  PROVE  IsGreedy(assign_slots(n), n)
<1> DEFINE g == CHOOSE h : h \in [1 .. Len(configurable) -> (0 .. n - 1) \cup {Unassigned}]
                             /\ \A p \in 1 .. Len(configurable) : h[p] = Choice(h, p, n)
<1>1. assign_slots(n) = g
  BY DEF assign_slots, Choice, LeftTo, EarlierThan, valid
<1>2. PICK h : IsGreedy(h, n)
  BY GreedyExists
<1>3. IsGreedy(g, n)
  BY <1>2 DEF IsGreedy
<1> QED
  BY <1>1, <1>3
----------------------------------------------------------------------------
(* The events that are asked for.                                          *)

\* An event as parse makes it.
IsEvent(e) ==
  /\ e.number \in 0 .. U16 - 1 \cup {None}
  /\ e.counters_mask = None \/ e.counters_mask \in SUBSET (0 .. U8_BITS - 1)

\* A sequence of events of the database that was read.
AreEvents(evs) ==
  /\ Len(evs) \in Nat /\ DOMAIN evs = 1 .. Len(evs)
  /\ \A i \in 1 .. Len(evs) :
       /\ IsEvent(evs[i])
       /\ Loaded /\ \E k \in 1 .. Len(db.value.events) : evs[i] = db.value.events[k]

LEMMA DatabaseEvents ==
  FromFile /\ Loaded =>
    /\ Len(db.value.events) \in Nat /\ DOMAIN db.value.events = 1 .. Len(db.value.events)
    /\ \A k \in 1 .. Len(db.value.events) : IsEvent(db.value.events[k])
<1> SUFFICES ASSUME FromFile, Loaded
             PROVE  /\ Len(db.value.events) \in Nat
                    /\ DOMAIN db.value.events = 1 .. Len(db.value.events)
                    /\ \A k \in 1 .. Len(db.value.events) : IsEvent(db.value.events[k])
  OBVIOUS
<1> DEFINE root == files[file]
           dict == events_dict(root)
           evs == db.value.events
<1>1. IsContents(root) /\ load_from_path(root).ok /\ db.value = load_from_path(root).value
  BY CommandAssumption DEF FromFile, Loaded
<1> HIDE DEF root
<1>2. PICK m, from : Order(root, m, from)
  BY <1>1, ParsedInOrder
<1>3. /\ m \in Nat /\ from \in [1 .. m -> DOMAIN dict]
      /\ DOMAIN evs = 1 .. m /\ Len(evs) = m
      /\ \A k \in 1 .. m : evs[k] = event(dict[from[k]][1], dict[from[k]][2])
      /\ \A k \in 1 .. m : dict[from[k]][2] # Junk
  BY <1>1, <1>2 DEF Order
<1>4. ASSUME NEW k \in 1 .. m PROVE IsEvent(evs[k])
  <2> DEFINE name == dict[from[k]][1]
             ev_dict == dict[from[k]][2]
  <2>1. get(ev_dict, "number") \in Nat \cup {None}
    BY <1>1, <1>3, ParseSucceeds
  <2>2. evs[k] = event(name, ev_dict)
    BY <1>3
  <2> HIDE DEF name, ev_dict, evs
  <2>3. event(name, ev_dict).number \in 0 .. U16 - 1 \cup {None}
    BY <2>1, NumberFits
  <2>4. \/ event(name, ev_dict).counters_mask = None
        \/ event(name, ev_dict).counters_mask \in SUBSET (0 .. U8_BITS - 1)
    BY DEF event, AsU8
  <2> QED
    BY <2>2, <2>3, <2>4 DEF IsEvent
<1> QED
  BY <1>3, <1>4

LEMMA NamedEvents ==
  ASSUME FromFile, Loaded, NEW names, names \in Seq(Range(names))
  PROVE  AreEvents(events_by_names(names))
<1> DEFINE kept == {i \in DOMAIN names : event_by_name(db.value, names[i]) # None}
           known == Filter(names, kept)
           evs == events_by_names(names)
           m == Cardinality(kept)
<1>1. evs = [i \in DOMAIN known |-> event_by_name(db.value, known[i])]
  BY DEF events_by_names
<1>2. Len(names) \in Nat /\ kept \in SUBSET (1 .. Len(names))
  OBVIOUS
<1>3. \A i \in kept : event_by_name(db.value, names[i]) # None
  OBVIOUS
<1> HIDE DEF kept
<1>4. PICK order : Selects(order, names, kept)
  BY <1>2, Filtered
<1>5. /\ m \in Nat /\ order \in [1 .. m -> kept]
      /\ DOMAIN known = 1 .. m /\ \A k \in 1 .. m : known[k] = names[order[k]]
  BY <1>4 DEF Selects
<1> HIDE DEF known, m, evs
<1>6. evs \in Seq({evs[i] : i \in 1 .. m}) /\ DOMAIN evs = 1 .. m /\ Len(evs) = m
  <2> DEFINE found == {evs[i] : i \in 1 .. m}
  <2>1. evs \in [1 .. m -> found] /\ DOMAIN evs = 1 .. m
    BY <1>1, <1>5
  <2> HIDE DEF found
  <2>2. evs \in Seq(found) /\ Len(evs) = m
    BY <1>5, <2>1
  <2> QED
    BY <2>1, <2>2 DEF found
<1>7. ASSUME NEW i \in 1 .. m
      PROVE  \E k \in 1 .. Len(db.value.events) : evs[i] = db.value.events[k]
  <2>1. evs[i] = event_by_name(db.value, known[i]) /\ known[i] = names[order[i]] /\ order[i] \in kept
    BY <1>1, <1>5
  <2>2. event_by_name(db.value, known[i]) # None
    BY <1>3, <2>1
  <2>3. Len(db.value.events) \in Nat
    BY DatabaseEvents
  <2>4. \E k \in 1 .. Len(db.value.events) :
           event_by_name(db.value, known[i]) = db.value.events[k]
    BY <2>2, <2>3, Lookup
  <2> QED
    BY <2>1, <2>4
<1>8. \A i \in 1 .. m : IsEvent(evs[i])
  BY <1>7, DatabaseEvents
<1> QED
  BY <1>5, <1>6, <1>7, <1>8 DEF AreEvents, evs

\* A manager has only events of the database.
Chosen ==
  /\ manager # "none" => Loaded
  /\ AreEvents(events)

LEMMA ChosenStep == FromFile /\ Chosen /\ [Next]_vars => Chosen'
<1> SUFFICES ASSUME FromFile, Chosen, [Next]_vars PROVE Chosen'
  OBVIOUS
<1>1. CASE Main \/ Load
  <2>1. UNCHANGED <<manager, events>> /\ (db # None => UNCHANGED db)
    BY <1>1 DEF Main, Load, manager_vars, own
  <2>2. CASE db # None
    BY <2>1, <2>2 DEF Chosen, AreEvents, Loaded
  <2>3. CASE db = None
    <3>1. ~Loaded
      BY <2>3 DEF Loaded
    <3>2. manager = "none" /\ \A i \in 1 .. Len(events) : FALSE
      BY <3>1 DEF Chosen, AreEvents
    <3> QED
      BY <2>1, <3>2 DEF Chosen, AreEvents
  <2> QED
    BY <2>2, <2>3
<1>2. CASE Create
  <2>1. Loaded /\ UNCHANGED <<db, events>>
    BY <1>2 DEF Create, IsStat, IsLibrary, New, command_vars
  <2> QED
    BY <2>1 DEF Chosen, AreEvents, Loaded
<1>3. CASE Configure
  <2>1. Loaded /\ UNCHANGED db
    BY <1>3 DEF Configure, IsStat, IsLibrary, command_vars
  <2>2. AreEvents(events')
    <3>1. CASE IsStat /\ ConfigureBegin(monitored)
      <4>1. events' = monitored
        BY <3>1 DEF ConfigureBegin
      <4>2. PICK names : monitored = events_by_names(names)
                         /\ (names = DEFAULT_EVENTS \/ names = command.event_names)
                         /\ (command.event_names = <<>> => names = DEFAULT_EVENTS)
        BY DEF monitored
      <4>3. names \in Requests
        <5>1. command.event_names \in Requests \cup {<<>>}
          BY <2>1, <3>1 DEF FromFile, Commands, IsStat, Loaded
        <5> QED
          BY <4>2, <5>1, CommandAssumption
      <4>4. names \in Seq(Range(names))
        BY <4>3, CommandAssumption
      <4> QED
        BY <2>1, <4>1, <4>2, <4>4, NamedEvents
    <3>2. CASE \E names \in Requests : ConfigureBegin(events_by_names(names))
      <4>1. PICK names \in Requests : events' = events_by_names(names)
        BY <3>2 DEF ConfigureBegin
      <4>2. names \in Seq(Range(names))
        BY CommandAssumption
      <4> QED
        BY <2>1, <4>1, <4>2, NamedEvents
    <3> QED
      BY <1>3, <3>1, <3>2 DEF Configure
  <2> QED
    BY <2>1, <2>2 DEF Chosen, AreEvents, Loaded
<1>4. CASE UNCHANGED <<db, events>> /\ (manager' # "none" => manager # "none")
  BY <1>4 DEF Chosen, AreEvents, Loaded
<1> QED
  BY <1>1, <1>2, <1>3, <1>4
  DEF Next, Configuring, ConfigureRefused, ConfigureTooMany, ConfigureProgram, ReadBefore,
      Occurs, Occur, ReadAfter, Return, Drop, Finished, vars, command_vars, manager_vars, own
LEMMA ConfigurableEvents ==
  AreEvents(events) =>
    /\ MasksFit
    /\ \A p \in 1 .. Len(configurable) :
         /\ is_configurable(configurable[p]) /\ IsEvent(configurable[p])
         /\ Loaded /\ \E k \in 1 .. Len(db.value.events) : configurable[p] = db.value.events[k]
<1> SUFFICES ASSUME AreEvents(events)
             PROVE  /\ MasksFit
                    /\ \A p \in 1 .. Len(configurable) :
                         /\ is_configurable(configurable[p]) /\ IsEvent(configurable[p])
                         /\ Loaded
                         /\ \E k \in 1 .. Len(db.value.events) :
                              configurable[p] = db.value.events[k]
  OBVIOUS
<1> DEFINE kept == {i \in DOMAIN events : is_configurable(events[i])}
           m == Cardinality(kept)
<1>1. Len(events) \in Nat /\ kept \in SUBSET (1 .. Len(events))
      /\ \A i \in kept : is_configurable(events[i])
  BY DEF AreEvents
<1>2. configurable = Filter(events, kept)
  BY DEF configurable
<1> HIDE DEF kept
<1>3. PICK order : Selects(order, events, kept)
  BY <1>1, Filtered
<1>4. /\ m \in Nat /\ order \in [1 .. m -> kept]
      /\ DOMAIN configurable = 1 .. m /\ \A p \in 1 .. m : configurable[p] = events[order[p]]
      /\ configurable \in Seq({events[i] : i \in kept})
  BY <1>2, <1>3 DEF Selects
<1>5. Len(configurable) = m
  BY <1>4
<1>6. \A p \in 1 .. m : order[p] \in 1 .. Len(events) /\ is_configurable(events[order[p]])
  BY <1>1, <1>4
<1>7. \A p \in 1 .. m :
        /\ is_configurable(configurable[p]) /\ IsEvent(configurable[p])
        /\ Loaded /\ \E k \in 1 .. Len(db.value.events) : configurable[p] = db.value.events[k]
  BY <1>4, <1>6 DEF AreEvents
<1> QED
  BY <1>4, <1>5, <1>7 DEF MasksFit, IsEvent

----------------------------------------------------------------------------
(* Types.                                                                  *)

\* Snapshots are of the counters as they are configured, and the second comes last.
Snapshots ==
  /\ before # None => manager \in {"configured", "dropped"}
  /\ after # None => before # None

CommandInv == TypeOK /\ ClaimInv /\ FromFile /\ Chosen /\ Snapshots

\* What ConfigureProgram writes.
LEMMA ProgramTypes ==
  ASSUME Chosen, ConfigureProgram, ManagerTypeOK
  PROVE  /\ \A ev \in configured_events' : ev[2] \in Slots
         /\ config' \in [Slots -> 0 .. U16 - 1] /\ counting' \subseteq Both
<1> DEFINE g == assign_slots(n_config')
           placed == {p \in DOMAIN g : g[p] # Unassigned}
           P == 1 .. Len(configurable)
<1>1. /\ MasksFit
      /\ \A p \in P : is_configurable(configurable[p]) /\ IsEvent(configurable[p])
  BY ConfigurableEvents DEF Chosen
<1>2. n_config' = NConfigForced
  BY DEF ConfigureProgram, Requery
<1>3. g \in [P -> (0 .. NConfigForced - 1) \cup {Unassigned}]
  BY <1>1, <1>2, AssignmentIsGreedy, WidthType DEF IsGreedy
<1>4. placed \subseteq P /\ \A p \in placed : g[p] \in Slots
  BY <1>3 DEF Slots
<1>5. /\ configured_events' = {<<configurable[p].name, g[p]>> : p \in placed}
      /\ \/ config' = [s \in Slots |->
                   IF \E p \in placed : g[p] = s
                     THEN configurable[CHOOSE p \in placed : g[p] = s].number ELSE 0]
         \/ config' \in {config, [s \in Slots |-> 0]}
  BY DEF ConfigureProgram
<1>6. 0 \in 0 .. U16 - 1 /\ config \in [Slots -> 0 .. U16 - 1]
  BY DatabaseAssumption DEF ManagerTypeOK
<1>9. counting' \subseteq Both
  BY DEF ConfigureProgram, ManagerTypeOK
<1>7. \A p \in P : configurable[p].number \in 0 .. U16 - 1
  BY <1>1 DEF is_configurable, IsEvent
<1> HIDE DEF g, placed, P
<1>8. ASSUME NEW s \in Slots
      PROVE  (IF \E p \in placed : g[p] = s
                THEN configurable[CHOOSE p \in placed : g[p] = s].number ELSE 0) \in 0 .. U16 - 1
  <2>1. CASE \E p \in placed : g[p] = s
    <3> DEFINE q == CHOOSE p \in placed : g[p] = s
    <3>1. q \in placed
      BY <2>1
    <3> HIDE DEF q
    <3>2. configurable[q].number \in 0 .. U16 - 1
      BY <1>4, <1>7, <3>1
    <3> QED
      BY <2>1, <3>2 DEF q
  <2> QED
    BY <1>6, <2>1
<1>10. config' \in [Slots -> 0 .. U16 - 1]
  <2>1. [s \in Slots |-> 0] \in [Slots -> 0 .. U16 - 1]
    BY <1>6
  <2> QED
    BY <1>5, <1>6, <1>8, <2>1
<1> QED
  BY <1>4, <1>5, <1>9, <1>10

\* A bank in which an event has been counted is one again.
LEMMA CountedTypes ==
  ASSUME NEW registers \in [Registers -> Values], NEW n \in Nat, NEW e
  PROVE  [i \in Registers |->
            IF Counts(i, e) THEN Wrap(registers[i] + n) ELSE registers[i]]
           \in [Registers -> Values]
<1> SUFFICES ASSUME NEW i \in Registers
             PROVE  (IF Counts(i, e) THEN Wrap(registers[i] + n) ELSE registers[i]) \in Values
  OBVIOUS
<1>1. registers[i] \in Nat /\ registers[i] \in Values /\ MOD \in Nat \ {0}
  BY WidthType DEF Values
<1>2. Wrap(registers[i] + n) \in Values
  BY <1>1 DEF Wrap, Values
<1> QED
  BY <1>1, <1>2

\* What Occur writes.
LEMMA OccurTypes ==
  ASSUME ManagerTypeOK,
         NEW e \in DOMAIN hardware, NEW cpu \in Cpus, NEW n \in Bursts, NEW measured, NEW kept,
         Occur(e, cpu, n, measured, kept)
  PROVE  /\ counter' \in [Cpus -> [Registers -> Values]]
         /\ target' \in [Registers -> Values]
         /\ occurred' \in [DOMAIN hardware -> Values] /\ lost' \subseteq DOMAIN hardware
         /\ bursts' \in 0 .. MaxBursts
<1> DEFINE Counted(registers) ==
             [i \in Registers |-> IF Counts(i, e) THEN Wrap(registers[i] + n) ELSE registers[i]]
<1>1. n \in Nat /\ MOD \in Nat \ {0} /\ MaxBursts \in Nat
  BY ManagerAssumption
<1>2. /\ counter \in [Cpus -> [Registers -> Values]] /\ target \in [Registers -> Values]
      /\ occurred \in [DOMAIN hardware -> Values] /\ bursts \in 0 .. MaxBursts
      /\ lost \subseteq DOMAIN hardware
  BY DEF ManagerTypeOK, Values
<1>3. /\ bursts < MaxBursts /\ bursts' = bursts + 1
      /\ counter' \in {counter, [counter EXCEPT ![cpu] = Counted(counter[cpu])]}
      /\ \/ occurred[e] + n < MOD /\ occurred' = [occurred EXCEPT ![e] = @ + n]
            /\ target' \in {target, Counted(target)} /\ lost' \in {lost, lost \cup {e}}
         \/ UNCHANGED <<occurred, target, lost>>
  BY DEF Occur
<1>4. Counted(counter[cpu]) \in [Registers -> Values] /\ Counted(target) \in [Registers -> Values]
  BY <1>1, <1>2, CountedTypes
<1> HIDE DEF Counted
<1>5. occurred[e] + n < MOD => occurred[e] + n \in Values
  BY <1>1, <1>2 DEF Values
<1> QED
  BY <1>1, <1>2, <1>3, <1>4, <1>5

\* The database and the arguments keep their types.
LEMMA DatabaseTypes ==
  ASSUME FromFile, FromFile', TypeOK, [Next]_vars
  PROVE  /\ command' \in Commands \cup {None}
         /\ file' \in Paths \cup DOMAIN files' \cup {None}
         /\ Loaded' => \A i \in DOMAIN db'.value.events :
                         db'.value.events[i].number \in 0 .. U16 - 1 \cup {None}
<1>1. Loaded' => \A i \in DOMAIN db'.value.events :
                   db'.value.events[i].number \in 0 .. U16 - 1 \cup {None}
  <2>1. (FromFile /\ Loaded =>
           /\ DOMAIN db.value.events = 1 .. Len(db.value.events)
           /\ \A k \in 1 .. Len(db.value.events) : IsEvent(db.value.events[k]))'
    BY DatabaseEvents, PTL
  <2> QED
    BY <2>1 DEF IsEvent
<1>2. CASE Main
  BY <1>1, <1>2 DEF TypeOK, Main
<1>3. CASE Load
  <2>1. UNCHANGED <<command, files>> /\ command \in Commands
    BY <1>3 DEF Load, FromFile
  <2>2. PICK read \in IF command.sub = "list" /\ command.path # None
                        THEN {<<command.path, load_from_path(contents(command.path))>>}
                        ELSE UNION {load_current_cpu(cpu) : cpu \in read_cpu_info} :
          file' = read[1]
    BY <1>3 DEF Load
  <2>3. CASE command.sub = "list" /\ command.path # None
    <3>1. file' = command.path
      BY <2>2, <2>3
    <3>2. command.path \in Paths
      BY <2>1, <2>3 DEF Commands
    <3> QED
      BY <1>1, <2>1, <3>1, <3>2
  <2>4. CASE ~(command.sub = "list" /\ command.path # None)
    <3>1. PICK cpu \in read_cpu_info : read \in load_current_cpu(cpu)
      BY <2>2, <2>4
    <3>2. read[1] = None \/ read[1] \in find_database_path(DOMAIN files, cpu.value)
      BY <3>1 DEF load_current_cpu
    <3>3. find_database_path(DOMAIN files, cpu.value) \subseteq DOMAIN files
      BY DEF find_database_path
    <3> QED
      BY <1>1, <2>1, <2>2, <3>2, <3>3
  <2> QED
    BY <2>3, <2>4
<1>4. CASE UNCHANGED command_vars
  BY <1>1, <1>4 DEF TypeOK, command_vars
<1> QED
  BY <1>2, <1>3, <1>4
  DEF Next, Create, Configure, Configuring, ConfigureRefused, ConfigureTooMany,
      ConfigureProgram, ReadBefore, Occurs, ReadAfter, Return, Finished, vars

\* In which the counts are known, and a step keeps all of it.
LEMMA CommandStep == CommandInv /\ [Next]_vars => CommandInv'
<1> SUFFICES ASSUME CommandInv, [Next]_vars PROVE CommandInv'
  OBVIOUS
<1>1. ClaimInv' /\ FromFile' /\ Chosen'
  BY ClaimStep, FromFileStep, ChosenStep DEF CommandInv
<1>2. ClaimInv /\ FromFile /\ Chosen /\ Snapshots /\ TypeOK /\ ManagerTypeOK
  BY DEF CommandInv, TypeOK
<1>3. ManagerTypeOK' /\ Snapshots' => CommandInv'
  BY <1>1, <1>2, DatabaseTypes DEF CommandInv, TypeOK
<1> SUFFICES ManagerTypeOK' /\ Snapshots'
  BY <1>3
<1> USE DEF ManagerTypeOK, Snapshots
<1>4. CASE UNCHANGED manager_vars
  BY <1>2, <1>4 DEF manager_vars, own, kernel, snapshots, n_total
<1>5. CASE Create
  <2>1. /\ manager = "none"
        /\ manager' \in {"idle", "dropped"} /\ n_config' \in {n_config, counter_count}
        /\ UNCHANGED <<configured_events, events, configures, kernel, snapshots>>
    BY <1>5 DEF Create, New
  <2>2. before = None /\ after = None
    BY <1>2, <2>1
  <2>3. n_config' \in {0, NConfigFree, NConfigForced}
    BY <1>2, <2>1 DEF counter_count
  <2> QED
    BY <1>2, <2>1, <2>2, <2>3 DEF kernel, snapshots
<1>6. CASE Configure
  <2>1. PICK evs : ConfigureBegin(evs)
    BY <1>6 DEF Configure
  <2>2. NothingOccurred \in [DOMAIN hardware -> 0 .. MOD - 1]
    BY WidthType DEF NothingOccurred, Values
  <2>3. configures + 1 \in 0 .. MaxConfigures /\ 0 \in 0 .. MaxBursts /\ lost' = {}
    BY <1>2, <2>1, ManagerAssumption DEF ConfigureBegin
  <2> QED
    BY <1>2, <2>1, <2>2, <2>3 DEF ConfigureBegin
<1>7. CASE ConfigureRefused
  BY <1>2, <1>7 DEF ConfigureRefused, kernel, snapshots, n_total
<1>8. CASE ConfigureTooMany
  <2>1. n_config' = NConfigForced /\ before = None /\ after = None
    BY <1>2, <1>8 DEF ConfigureTooMany, Requery
  <2> QED
    BY <1>2, <1>8, <2>1 DEF ConfigureTooMany, kernel, snapshots
<1>9. CASE ConfigureProgram
  <2>1. n_config' = NConfigForced /\ before = None /\ after = None
    BY <1>2, <1>9 DEF ConfigureProgram, Requery
  <2>2. /\ \A ev \in configured_events' : ev[2] \in Slots
        /\ config' \in [Slots -> 0 .. U16 - 1] /\ counting' \subseteq Both
    BY <1>2, <1>9, ProgramTypes
  <2>3. /\ manager' \in {"configured", "idle"} /\ forced' \in BOOLEAN
        /\ UNCHANGED <<events, configures, counter, target, bursts, snapshots>>
    BY <1>9 DEF ConfigureProgram
  <2> QED
    BY <1>2, <2>1, <2>2, <2>3 DEF snapshots
<1>10. CASE ReadBefore
  <2>1. /\ manager = "configured" /\ before = None
        /\ \/ before' = read_system_wide /\ UNCHANGED target
           \/ before' = [i \in 0 .. n_total - 1 |-> 0] /\ target' = Zeroes
        /\ UNCHANGED <<own, forced, config, counting, counter, bursts, after, occurred, lost>>
    <3>1. CASE command.system_wide
      BY <1>10, <3>1 DEF ReadBefore
    <3>2. CASE ~command.system_wide
      BY <1>10, <3>2, Zenon DEF ReadBefore
    <3> QED
      BY <3>1, <3>2
  <2>2. Columns = 0 .. n_total - 1 /\ n_config = NConfigForced
    <3>1. n_config = NConfigForced
      BY <1>2, <2>1 DEF ClaimInv
    <3>2. n_total = Width
      BY <3>1 DEF n_total, Width
    <3> QED
      BY <3>1, <3>2 DEF Columns
  <2>3. read_system_wide \in [Columns -> Values]
    <3>1. counter \in Banks
      BY <1>2 DEF Banks, Values
    <3>2. PICK totals : Totals(totals, counter) /\ read_system_wide = totals[ncpu]
      BY <1>2, <2>1, <3>1, ReadIsTotal
    <3> QED
      BY <3>2, WidthType DEF Totals
  <2>4. [i \in 0 .. n_total - 1 |-> 0] \in [Columns -> Values]
        /\ Zeroes \in [Registers -> Values]
    BY <2>2, WidthType DEF Zeroes
  <2>5. before' \in [0 .. n_total - 1 -> 0 .. MOD - 1]
        /\ target' \in [Registers -> 0 .. MOD - 1]
    BY <1>2, <2>1, <2>2, <2>3, <2>4 DEF Values
  <2>6. after = None
    BY <1>2, <2>1
  <2>7. UNCHANGED <<manager, n_config, configured_events, configures, n_total>>
    BY <2>1 DEF own, n_total
  <2> QED
    BY <1>2, <2>1, <2>5, <2>6, <2>7
<1>11. CASE Occurs
  <2>1. PICK e \in DOMAIN hardware, cpu \in Cpus, n \in Bursts, measured \in BOOLEAN,
             kept \in BOOLEAN : Occur(e, cpu, n, measured, kept)
    BY <1>11 DEF Occurs
  <2>2. /\ counter' \in [Cpus -> [Registers -> 0 .. MOD - 1]]
        /\ target' \in [Registers -> 0 .. MOD - 1]
        /\ occurred' \in [DOMAIN hardware -> 0 .. MOD - 1] /\ lost' \subseteq DOMAIN hardware
        /\ bursts' \in 0 .. MaxBursts
    BY <1>2, <2>1, OccurTypes DEF Values
  <2>3. UNCHANGED <<own, forced, config, counting, before, after>>
    BY <2>1 DEF Occur
  <2> QED
    BY <1>2, <2>2, <2>3 DEF own, n_total
<1>12. CASE ReadAfter
  <2>1. /\ manager = "configured" /\ before # None
        /\ \/ after' = read_system_wide
           \/ after' = [i \in 0 .. n_fixed + counter_count - 1 |-> target[i]]
        /\ UNCHANGED <<own, kernel, before, occurred, lost>>
    BY <1>12 DEF ReadAfter
  <2>2. /\ Columns = 0 .. n_total - 1 /\ Columns = 0 .. n_fixed + counter_count - 1
        /\ Registers = Columns
    <3>1. n_config = NConfigForced /\ counter_count = NConfigForced
      BY <1>2, <2>1 DEF ClaimInv, counter_count
    <3>2. n_total = Width /\ n_fixed + counter_count = Width
      BY <3>1 DEF n_total, Width
    <3>3. Columns = 0 .. n_total - 1
      BY <3>2 DEF Columns
    <3>4. Columns = 0 .. n_fixed + counter_count - 1
      BY <3>1, WidthType DEF Columns, Width
    <3> QED
      BY <3>3, <3>4, WidthType
  <2>3. read_system_wide \in [Columns -> Values]
    <3>1. counter \in Banks
      BY <1>2 DEF Banks, Values
    <3>2. PICK totals : Totals(totals, counter) /\ read_system_wide = totals[ncpu]
      BY <1>2, <2>1, <3>1, ReadIsTotal
    <3> QED
      BY <3>2, WidthType DEF Totals
  <2>4. [i \in 0 .. n_fixed + counter_count - 1 |-> target[i]] \in [Columns -> Values]
    <3>1. \A i \in Columns : target[i] \in Values
      BY <1>2, <2>2 DEF Values
    <3> HIDE DEF ManagerTypeOK
    <3> QED
      BY <2>2, <3>1
  <2>5. after' \in [0 .. n_total - 1 -> 0 .. MOD - 1]
    BY <2>1, <2>2, <2>3, <2>4 DEF Values
  <2>6. UNCHANGED <<manager, n_config, configured_events, configures, before, occurred>>
        /\ UNCHANGED <<lost, forced, config, counting, counter, target, bursts, n_total>>
    BY <2>1 DEF own, kernel, n_total
  <2> QED
    BY <1>2, <2>1, <2>5, <2>6
<1>13. CASE Return
  BY <1>2, <1>13 DEF Return, Drop, snapshots, n_total
<1> QED
  BY <1>4, <1>5, <1>6, <1>7, <1>8, <1>9, <1>10, <1>11, <1>12, <1>13
  DEF Next, Main, Load, Configuring, Finished, vars

LEMMA CommandInvariant == Spec => []CommandInv
<1>1. Init => CommandInv
  <2> SUFFICES ASSUME Init PROVE CommandInv
    OBVIOUS
  <2>1. ClaimInv /\ FromFile /\ Snapshots
    BY DEF Init, ManagerInit, ClaimInv, FromFile, Loaded, Snapshots
  <2>2. Chosen
    BY DEF Init, ManagerInit, Chosen, AreEvents
  <2>3. /\ Zeroes \in [Registers -> 0 .. MOD - 1] /\ NothingOccurred \in [DOMAIN hardware -> 0 .. MOD - 1]
        /\ 0 \in 0 .. U16 - 1 /\ 0 \in 0 .. MaxBursts /\ 0 \in 0 .. MaxConfigures
    BY WidthType, ManagerAssumption, DatabaseAssumption DEF Zeroes, NothingOccurred, Values
  <2>4. ManagerTypeOK
    BY <2>3 DEF Init, ManagerInit, ManagerTypeOK
  <2> QED
    BY <2>1, <2>2, <2>4 DEF CommandInv, TypeOK, Init, Loaded
<1> QED
  BY <1>1, CommandStep, PTL DEF Spec

\* Whatever apmc or a user of the library does, registers, sums, snapshots and counts
\* stay within their widths, a snapshot has as many values as the manager has counters,
\* and no event is given a slot that is not there (kpc.rs:197-364).
THEOREM TypeInvariant == Spec => []TypeOK
<1>1. CommandInv => TypeOK
  BY DEF CommandInv
<1> QED
  BY <1>1, CommandInvariant, PTL
----------------------------------------------------------------------------
(* The counts.                                                             *)

LEMMA ModInner ==
  ASSUME NEW M \in Nat \ {0}, NEW x \in Int, NEW y \in Int
  PROVE  ((x % M) + y) % M = (x + y) % M
<1> DEFINE r == x % M
           s == (r + y) % M
<1>1. PICK q \in Int : r \in 0 .. M - 1 /\ x = M * q + r
  BY ModQuotient
<1> HIDE DEF r
<1>2. r + y \in Int
  BY <1>1
<1>3. PICK p \in Int : s \in 0 .. M - 1 /\ r + y = M * p + s
  BY <1>2, ModQuotient
<1>4. x + y = M * (q + p) + s /\ q + p \in Int
  <2> HIDE DEF s
  <2>1. M * (q + p) = M * q + M * p /\ M * q \in Int /\ M * p \in Int
    OBVIOUS
  <2> QED
    BY <1>1, <1>3, <2>1
<1>5. (M * (q + p) + s) % M = s
  <2> HIDE DEF s
  <2> QED
    BY <1>3, <1>4, ModOfMultiple
<1> QED
  BY <1>4, <1>5 DEF r

\* One CPU has counted n more: so has the sum.  For n = 0, there is one sum only.
LEMMA OneMore ==
  ASSUME NEW t, NEW u, NEW bank \in Banks, NEW more \in Banks, Totals(t, bank), Totals(u, more),
         NCPU <= ncpu, NEW i \in Columns, NEW cpu \in Cpus, NEW n \in Nat,
         \A c \in Cpus \ {cpu} : more[c][i] = bank[c][i],
         more[cpu][i] = (bank[cpu][i] + n) % MOD
  PROVE  u[ncpu][i] = (t[ncpu][i] + n) % MOD
<1> DEFINE Related(c) == u[c][i] = IF c > cpu THEN (t[c][i] + n) % MOD ELSE t[c][i]
           S == {c \in Nat : c <= ncpu => Related(c)}
<1>1. /\ MOD \in Nat \ {0} /\ ncpu \in Nat /\ NCPU \in Nat /\ cpu \in 0 .. NCPU - 1
      /\ Registers = Columns
  BY WidthType DEF Cpus
<1>2. /\ \A c \in 0 .. ncpu : t[c][i] \in Values /\ u[c][i] \in Values
      /\ \A c \in Cpus : bank[c][i] \in Values /\ more[c][i] \in Values
  BY <1>1 DEF Totals, Banks
<1>3. 0 \in S
  BY <1>1 DEF Totals
<1>4. ASSUME NEW c \in Nat, c \in S PROVE c + 1 \in S
  <2> SUFFICES ASSUME c + 1 <= ncpu PROVE Related(c + 1)
    OBVIOUS
  <2>1. c + 1 \in 1 .. ncpu /\ (c + 1) - 1 = c /\ c \in 0 .. ncpu /\ c + 1 \in 0 .. ncpu
    BY <1>1
  <2>2. Related(c)
    BY <1>4, <2>1
  <2>3. /\ t[c + 1][i] = IF c + 1 <= NCPU THEN (t[c][i] + bank[c][i]) % MOD ELSE t[c][i]
        /\ u[c + 1][i] = IF c + 1 <= NCPU THEN (u[c][i] + more[c][i]) % MOD ELSE u[c][i]
    BY <2>1 DEF Totals
  <2> HIDE DEF S
  <2>4. CASE c + 1 > NCPU
    BY <1>1, <2>2, <2>3, <2>4
  <2>5. CASE c + 1 <= NCPU
    <3> DEFINE a == t[c][i]
               b == bank[c][i]
               d == more[c][i]
    <3>1. c \in Cpus /\ a \in Int /\ b \in Int /\ d \in Int /\ n \in Int
      BY <1>1, <1>2, <2>1, <2>5 DEF Cpus, Values
    <3>2. t[c + 1][i] = (a + b) % MOD /\ u[c + 1][i] = (u[c][i] + d) % MOD
      BY <2>3, <2>5
    <3>3. (((a + b) % MOD) + n) % MOD = ((a + b) + n) % MOD
      <4> HIDE DEF a, b
      <4>1. PICK ab \in Int : ab = a + b
        BY <3>1
      <4>2. ((ab % MOD) + n) % MOD = (ab + n) % MOD
        BY <1>1, <3>1, ModInner
      <4> QED
        BY <4>1, <4>2
    <3>4. CASE c < cpu
      <4>1. u[c][i] = a /\ d = b
        BY <1>1, <2>2, <3>1, <3>4
      <4> QED
        BY <1>1, <3>2, <3>4, <4>1
    <3>5. CASE c = cpu
      <4>1. u[c][i] = a /\ d = (b + n) % MOD
        BY <1>1, <2>2, <3>5
      <4> HIDE DEF a, b, d
      <4>2. (((b + n) % MOD) + a) % MOD = ((b + n) + a) % MOD
        <5>1. b + n \in Int
          BY <3>1
        <5> QED
          BY <1>1, <3>1, <5>1, ModInner
      <4>3. (b + n) + a = (a + b) + n /\ a + d = d + a
        BY <3>1
      <4> QED
        BY <1>1, <3>2, <3>3, <3>5, <4>1, <4>2, <4>3
    <3>6. CASE c > cpu
      <4>1. u[c][i] = (a + n) % MOD /\ d = b
        BY <1>1, <2>2, <3>1, <3>6
      <4> HIDE DEF a, b, d
      <4>2. (((a + n) % MOD) + b) % MOD = ((a + n) + b) % MOD
        <5>1. a + n \in Int
          BY <3>1
        <5> QED
          BY <1>1, <3>1, <5>1, ModInner
      <4>3. (a + n) + b = (a + b) + n
        BY <3>1
      <4> QED
        BY <1>1, <3>2, <3>3, <3>6, <4>1, <4>2, <4>3
    <3> QED
      BY <1>1, <3>4, <3>5, <3>6
  <2> QED
    BY <1>1, <2>4, <2>5
<1> HIDE DEF S
<1>5. Nat \subseteq S
  BY <1>3, <1>4, Induction
<1>6. Related(ncpu)
  BY <1>1, <1>5 DEF S
<1> QED
  BY <1>1, <1>6

LEMMA OneSum ==
  ASSUME NEW t, NEW u, NEW bank \in Banks, Totals(t, bank), Totals(u, bank), NCPU <= ncpu,
         NEW i \in Columns
  PROVE  u[ncpu][i] = t[ncpu][i]
<1>1. 0 \in Cpus /\ 0 \in Nat /\ Registers = Columns /\ MOD \in Nat \ {0} /\ ncpu \in 0 .. ncpu
  BY WidthType DEF Cpus
<1>2. bank[0][i] \in Values /\ t[ncpu][i] \in Values
  BY <1>1 DEF Banks, Totals
<1>3. \A v \in Values : (v + 0) % MOD = v
  BY <1>1 DEF Values
<1>4. u[ncpu][i] = (t[ncpu][i] + 0) % MOD
  BY <1>1, <1>2, <1>3, OneMore
<1> QED
  BY <1>2, <1>3, <1>4

\* The register i counts the event e, if it can be counted, and nothing else.
Measures(i, e) ==
  /\ i \in Registers /\ e \in DOMAIN hardware
  /\ \A f \in DOMAIN hardware : Counts(i, f) <=> f = e /\ ~hardware[e].silent

\* With the database of the CPU, each event that has got a slot is counted there.
Programmed ==
  manager = "configured" \/ before # None =>
    /\ n_config = NConfigForced
    /\ file.id = own_cpu => \A c \in configured_events : Measures(n_fixed + c[2], c[1])

\* What may be said of e.
Says(v, e) ==
  /\ v \in 0 .. Countable(e)
  /\ command.system_wide \/ e \notin lost => v = Countable(e)

\* What has been added to register i since the first snapshot, up to now or to the second.
Measured(i, e) ==
  IF after # None THEN Says((after[i] - before[i]) % MOD, e)
  ELSE IF command.system_wide
    THEN \A totals : Totals(totals, counter) =>
                       (totals[ncpu][i] - before[i]) % MOD = Countable(e)
  ELSE before[i] = 0 /\ Says(target[i], e)

CountInv ==
  /\ Programmed
  /\ before = None => occurred = NothingOccurred
  /\ before # None =>
       \A i \in Registers, e \in DOMAIN hardware : Measures(i, e) => Measured(i, e)

LEMMA CountableType ==
  ManagerTypeOK => \A f \in DOMAIN hardware : Countable(f) \in Values
<1> SUFFICES ASSUME ManagerTypeOK, NEW f \in DOMAIN hardware PROVE Countable(f) \in Values
  OBVIOUS
<1>1. occurred[f] \in Values /\ 0 \in Values
  BY WidthType DEF ManagerTypeOK, Values
<1> QED
  BY <1>1 DEF Countable

LEMMA FixedMeasures == Measures(0, cycles) /\ Measures(1, instructions)
<1>1. n_fixed \in Nat /\ n_fixed >= 2 /\ 0 \in Registers /\ 1 \in Registers
  BY ManagerAssumption DEF Registers
<1>2. cycles \in DOMAIN hardware /\ instructions \in DOMAIN hardware
  BY CommandAssumption
<1>3. \A e : /\ Counts(0, e) <=> hardware[e].fixed_counter = 0
             /\ Counts(1, e) <=> hardware[e].fixed_counter = 1
  BY <1>1 DEF Counts
<1>4. \A e \in DOMAIN hardware : (Counts(0, e) <=> e = cycles) /\ (Counts(1, e) <=> e = instructions)
  <2> SUFFICES ASSUME NEW e \in DOMAIN hardware
               PROVE  (Counts(0, e) <=> e = cycles) /\ (Counts(1, e) <=> e = instructions)
    OBVIOUS
  <2>1. (hardware[e].fixed_counter = 0 <=> e = cycles)
        /\ (hardware[e].fixed_counter = 1 <=> e = instructions)
    BY HardwareAssumption
  <2>2. (Counts(0, e) <=> hardware[e].fixed_counter = 0)
        /\ (Counts(1, e) <=> hardware[e].fixed_counter = 1)
    BY <1>3
  <2> QED
    BY <2>1, <2>2
<1>7. ~hardware[cycles].silent /\ ~hardware[instructions].silent
  BY <1>2, HardwareAssumption
<1>5. Measures(0, cycles)
  BY <1>1, <1>2, <1>4, <1>7 DEF Measures
<1>6. Measures(1, instructions)
  BY <1>1, <1>2, <1>4, <1>7 DEF Measures
<1> QED
  BY <1>5, <1>6

\* No two events have the same slot.
LEMMA SlotsDiffer ==
  ASSUME NEW n \in Nat, MasksFit, NEW g, IsGreedy(g, n),
         NEW p \in 1 .. Len(configurable), NEW q \in 1 .. Len(configurable),
         p # q, g[p] # Unassigned
  PROVE  g[p] # g[q]
<1>1. Len(configurable) \in Nat /\ p \in Nat /\ q \in Nat
  BY DEF MasksFit
<1>2. \A r \in 1 .. Len(configurable) : valid(r, n) \in Nat
  <2> SUFFICES ASSUME NEW r \in 1 .. Len(configurable) PROVE valid(r, n) \in Nat
    OBVIOUS
  <2>1. CASE configurable[r].counters_mask = None
    BY <2>1 DEF valid
  <2>2. CASE configurable[r].counters_mask # None
    <3>1. configurable[r].counters_mask \in SUBSET (0 .. U8_BITS - 1) /\ U8_BITS \in Nat
      BY <2>2, DatabaseAssumption DEF MasksFit
    <3>2. IsFiniteSet(0 .. U8_BITS - 1)
      BY <3>1, FS_Interval
    <3>3. IsFiniteSet(configurable[r].counters_mask)
      BY <3>1, <3>2, FS_Subset
    <3>4. Cardinality(configurable[r].counters_mask) \in Nat
      BY <3>3, FS_CardinalityType
    <3> QED
      BY <2>2, <3>4 DEF valid
  <2> QED
    BY <2>1, <2>2
<1>3. q \in EarlierThan(n)[p] \/ p \in EarlierThan(n)[q]
  <2>1. valid(p, n) \in Nat /\ valid(q, n) \in Nat
    BY <1>2
  <2>2. EarlierThan(n)[p] = {r \in 1 .. Len(configurable) :
           valid(r, n) < valid(p, n) \/ (valid(r, n) = valid(p, n) /\ r < p)}
    BY DEF EarlierThan
  <2>3. EarlierThan(n)[q] = {r \in 1 .. Len(configurable) :
           valid(r, n) < valid(q, n) \/ (valid(r, n) = valid(q, n) /\ r < q)}
    BY DEF EarlierThan
  <2>4. valid(q, n) < valid(p, n) \/ valid(p, n) < valid(q, n)
        \/ (valid(p, n) = valid(q, n) /\ (p < q \/ q < p))
    BY <1>1, <2>1
  <2> QED
    BY <2>2, <2>3, <2>4
<1>4. /\ g[p] = Choice(g, p, n) /\ g[q] = Choice(g, q, n)
  BY DEF IsGreedy
<1>5. CASE q \in EarlierThan(n)[p]
  <2>1. g[p] \in LeftTo(g, p, n)
    BY <1>4, ChoiceIsLeft
  <2> QED
    BY <1>5, <2>1 DEF LeftTo
<1>6. CASE p \in EarlierThan(n)[q] /\ g[q] # Unassigned
  <2>1. g[q] \in LeftTo(g, q, n)
    BY <1>4, <1>6, ChoiceIsLeft
  <2> QED
    BY <1>6, <2>1 DEF LeftTo
<1> QED
  BY <1>3, <1>5, <1>6

\* Programming gives each event that is placed a register that counts it.
LEMMA ProgramMeasures ==
  ASSUME FromFile, Chosen, ConfigureProgram, manager' = "configured", file.id = own_cpu,
         UNCHANGED file
  PROVE  \A c \in configured_events' : Measures(n_fixed + c[2], c[1])'
<1> DEFINE g == assign_slots(n_config')
           placed == {p \in DOMAIN g : g[p] # Unassigned}
           P == 1 .. Len(configurable)
<1>1. /\ MasksFit
      /\ \A p \in P : /\ is_configurable(configurable[p]) /\ Loaded
                      /\ \E k \in 1 .. Len(db.value.events) : configurable[p] = db.value.events[k]
  BY ConfigurableEvents DEF Chosen
<1>2. n_config' = NConfigForced /\ NConfigForced \in Nat
  BY ManagerAssumption DEF ConfigureProgram, Requery
<1>3. IsGreedy(g, NConfigForced)
  BY <1>1, <1>2, AssignmentIsGreedy
<1>4. /\ configured_events' = {<<configurable[p].name, g[p]>> : p \in placed}
      /\ config' = [s \in Slots |->
                   IF \E p \in placed : g[p] = s
                     THEN configurable[CHOOSE p \in placed : g[p] = s].number ELSE 0]
  BY DEF ConfigureProgram
<1> HIDE DEF g
<1>5. placed \subseteq P /\ \A p \in placed : g[p] \in Slots /\ g[p] # Unassigned
  BY <1>3 DEF IsGreedy, Slots
<1>6. \A p \in placed : g[p] \in LeftTo(g, p, NConfigForced)
  BY <1>2, <1>3, <1>5, ChoiceIsLeft DEF IsGreedy
<1> HIDE DEF placed
<1>7. ASSUME NEW p \in placed PROVE config'[g[p]] = configurable[p].number
  <2> DEFINE q == CHOOSE x \in placed : g[x] = g[p]
  <2>1. q \in placed /\ g[q] = g[p]
    OBVIOUS
  <2>2. config'[g[p]] = configurable[q].number
    BY <1>4, <1>5
  <2> HIDE DEF q
  <2>3. q = p
    BY <1>1, <1>2, <1>3, <1>5, <2>1, SlotsDiffer
  <2> QED
    BY <2>2, <2>3
<1>8. ASSUME NEW p \in placed, NEW e, e = configurable[p], NEW s, s = g[p]
      PROVE  Measures(n_fixed + s, e.name)'
  <2>1. /\ e.name \in DOMAIN hardware /\ hardware[e.name].number = e.number
        /\ \A slot \in 0 .. NConfigForced - 1 :
             (e.counters_mask = None \/ slot \in e.counters_mask) =>
               \/ hardware[e.name].counters_mask = None
               \/ slot \in hardware[e.name].counters_mask
    <3>1. PICK k \in 1 .. Len(db.value.events) : e = db.value.events[k]
      BY <1>1, <1>5, <1>8
    <3>2. /\ is_configurable(e) /\ Loaded
          /\ db = load_from_path(files[file]) /\ db.ok /\ file \in DOMAIN files /\ files \in Directories
      BY <1>1, <1>5, <1>8 DEF FromFile, Loaded
    <3>3. k \in DOMAIN db.value.events
      BY <3>2, DatabaseEvents
    <3> QED
      BY <3>1, <3>2, <3>3, DescriptionAssumption
  <2>2. e.number # None
    BY <1>1, <1>5, <1>8 DEF is_configurable
  <2>3. /\ s \in 0 .. NConfigForced - 1
        /\ e.counters_mask = None \/ s \in e.counters_mask
    BY <1>6, <1>8 DEF LeftTo
  <2>4. /\ n_fixed + s \in Registers /\ ~(n_fixed + s < n_fixed) /\ n_fixed + s >= n_fixed
        /\ (n_fixed + s) - n_fixed = s
    BY <1>2, <2>3, ManagerAssumption DEF Registers
  <2>5. config'[s] = e.number
    BY <1>7, <1>8
  <2>6. ASSUME NEW f \in DOMAIN hardware
        PROVE  Counts(n_fixed + s, f)' <=> f = e.name /\ ~hardware[e.name].silent
    <3>1. Counts(n_fixed + s, f)' <=> /\ hardware[f].number # None /\ e.number = hardware[f].number
                            /\ ~hardware[f].silent
                            /\ \/ hardware[f].counters_mask = None
                               \/ s \in hardware[f].counters_mask
      BY <2>4, <2>5 DEF Counts
    <3>2. hardware[f].number # None /\ e.number = hardware[f].number => f = e.name
      BY <2>1, HardwareAssumption
    <3> QED
      BY <2>1, <2>2, <2>3, <3>1, <3>2
  <2> QED
    BY <2>1, <2>4, <2>6 DEF Measures
<1>9. ASSUME NEW c, c \in configured_events' PROVE Measures(n_fixed + c[2], c[1])'
  <2>1. PICK p \in placed : c = <<configurable[p].name, g[p]>>
    BY <1>4, <1>9
  <2>2. PICK e, s : e = configurable[p] /\ s = g[p]
    OBVIOUS
  <2>3. c[1] = e.name /\ c[2] = s
    BY <2>1, <2>2
  <2>4. Measures(n_fixed + s, e.name)'
    BY <1>8, <2>2
  <2> QED
    BY <2>3, <2>4
<1> QED
  BY <1>9

\* n is added to what a register that counts e holds, if anything counts, and to none that
\* does not count e.
LEMMA OccurCounts ==
  ASSUME ManagerTypeOK, NEW e \in DOMAIN hardware, NEW cpu \in Cpus, NEW n \in Bursts,
         NEW measured, NEW kept, Occur(e, cpu, n, measured, kept),
         NEW i \in Registers, NEW f, Measures(i, f),
         NEW more, more = IF f = e THEN n ELSE 0,
         NEW seen, seen = IF hardware[f].silent THEN 0 ELSE more
  PROVE  /\ \A c \in Cpus \ {cpu} : counter'[c][i] = counter[c][i]
         /\ counter'[cpu][i] = (counter[cpu][i] + (IF "cpus" \in counting THEN seen ELSE 0)) % MOD
         /\ IF measured /\ before # None
              THEN /\ occurred'[f] = occurred[f] + more
                   /\ occurred'[f] \in Values
                   /\ target'[i] = (target[i] + (IF kept /\ counting = Both THEN seen ELSE 0)) % MOD
                   /\ lost' = IF kept THEN lost ELSE lost \cup {e}
              ELSE UNCHANGED <<occurred, target, lost>>
<1> DEFINE Counted(registers) ==
             [j \in Registers |-> IF Counts(j, e) THEN Wrap(registers[j] + n) ELSE registers[j]]
<1>1. /\ n \in Nat /\ MOD \in Nat \ {0} /\ f \in DOMAIN hardware
      /\ Counts(i, e) <=> f = e /\ ~hardware[f].silent
  BY ManagerAssumption DEF Measures
<1>2. /\ counter \in [Cpus -> [Registers -> Values]] /\ target \in [Registers -> Values]
      /\ occurred \in [DOMAIN hardware -> Values]
  BY DEF ManagerTypeOK, Values
<1>3. /\ counter' = IF "cpus" \in counting
                      THEN [counter EXCEPT ![cpu] = Counted(counter[cpu])] ELSE counter
      /\ IF measured /\ before # None
           THEN /\ occurred[e] + n < MOD /\ occurred' = [occurred EXCEPT ![e] = @ + n]
                /\ target' = IF kept /\ counting = Both THEN Counted(target) ELSE target
                /\ lost' = IF kept THEN lost ELSE lost \cup {e}
           ELSE UNCHANGED <<occurred, target, lost>>
  BY DEF Occur
<1>10. \A v \in Values : (v + 0) % MOD = v
  BY <1>1 DEF Values
<1>4. \A registers : registers[i] \in Values => Counted(registers)[i] = (registers[i] + seen) % MOD
  <2> SUFFICES ASSUME NEW registers, registers[i] \in Values
               PROVE  Counted(registers)[i] = (registers[i] + seen) % MOD
    OBVIOUS
  <2>1. Counted(registers)[i] = IF f = e /\ ~hardware[f].silent THEN Wrap(registers[i] + n)
                                ELSE registers[i]
    BY <1>1
  <2> HIDE DEF Counted
  <2> QED
    BY <1>10, <2>1 DEF Wrap
<1>5. counter[cpu][i] \in Values /\ target[i] \in Values
  BY <1>2
<1>6. Counted(counter[cpu])[i] = (counter[cpu][i] + seen) % MOD
      /\ Counted(target)[i] = (target[i] + seen) % MOD
  BY <1>4, <1>5
<1> HIDE DEF Counted
<1>7. /\ counter'[cpu][i] = (counter[cpu][i] + (IF "cpus" \in counting THEN seen ELSE 0)) % MOD
      /\ \A c \in Cpus \ {cpu} : counter'[c][i] = counter[c][i]
  <2>1. CASE "cpus" \in counting
    BY <1>2, <1>3, <1>6, <2>1
  <2>2. CASE "cpus" \notin counting
    BY <1>3, <1>5, <1>10, <2>2
  <2> QED
    BY <2>1, <2>2
<1>8. CASE measured /\ before # None
  <2>1. /\ occurred[e] + n < MOD /\ occurred' = [occurred EXCEPT ![e] = @ + n]
        /\ target' = IF kept /\ counting = Both THEN Counted(target) ELSE target
        /\ lost' = IF kept THEN lost ELSE lost \cup {e}
    BY <1>3, <1>8
  <2>2. occurred'[f] = occurred[f] + more
    <3>1. occurred[f] \in Int
      BY <1>1, <1>2 DEF Values
    <3> QED
      BY <1>1, <1>2, <2>1, <3>1
  <2>3. occurred[f] + more \in Values
    BY <1>1, <1>2, <2>1 DEF Values
  <2>4. target'[i] = (target[i] + (IF kept /\ counting = Both THEN seen ELSE 0)) % MOD
    <3>1. CASE kept /\ counting = Both
      BY <1>6, <2>1, <3>1
    <3>2. CASE ~(kept /\ counting = Both)
      BY <1>5, <1>10, <2>1, <3>2
    <3> QED
      BY <3>1, <3>2
  <2>5. occurred'[f] = occurred[f] + more /\ occurred'[f] \in Values
    BY <2>2, <2>3
  <2>6. lost' = IF kept THEN lost ELSE lost \cup {e}
    BY <2>1
  <2> QED
    BY <1>7, <1>8, <2>4, <2>5, <2>6
<1>9. CASE ~(measured /\ before # None)
  BY <1>3, <1>7, <1>9
<1> QED
  BY <1>8, <1>9

\* The second snapshot is to come, and events occur.
LEMMA OccurStep ==
  ASSUME CommandInv, CountInv, Occurs, NCPU <= ncpu,
         NEW i \in Registers, NEW f \in DOMAIN hardware, Measures(i, f), before # None
  PROVE  Measured(i, f)'
<1>1. PICK e \in DOMAIN hardware, cpu \in Cpus, n \in Bursts, measured \in BOOLEAN,
           kept \in BOOLEAN :
             /\ Occur(e, cpu, n, measured, kept)
             /\ command.system_wide => measured /\ kept
  BY DEF Occurs
<1>2. ManagerTypeOK /\ ClaimInv
  BY DEF CommandInv, TypeOK
<1>3. /\ manager = "configured" /\ after = None
      /\ UNCHANGED <<before, after, command, counting, ncpu>>
  BY <1>1 DEF Occurs, Occur, command_vars, ncpu
<1>4. n \in Nat /\ MOD \in Nat \ {0}
  BY ManagerAssumption
<1>5. /\ counter \in Banks /\ counter' \in Banks
      /\ before \in [0 .. n_total - 1 -> Values] /\ occurred[f] \in Values
      /\ target[i] \in Values
  BY <1>1, <1>2, OccurTypes DEF ManagerTypeOK, Banks, Values
<1>6. i \in Columns /\ Columns = 0 .. n_total - 1
  <2>1. n_total = Width
    BY <1>2, <1>3 DEF ClaimInv, n_total, Width
  <2> QED
    BY <2>1, WidthType DEF Columns
<1>7. before[i] \in Int /\ occurred[f] \in Nat /\ target[i] \in Nat
  BY <1>5, <1>6 DEF Values
<1>20. PICK more, seen : /\ more = IF f = e THEN n ELSE 0
                         /\ seen = IF hardware[f].silent THEN 0 ELSE more
  OBVIOUS
<1>8. /\ \A c \in Cpus \ {cpu} : counter'[c][i] = counter[c][i]
      /\ counter'[cpu][i] = (counter[cpu][i] + (IF "cpus" \in counting THEN seen ELSE 0)) % MOD
      /\ IF measured
           THEN /\ occurred'[f] = occurred[f] + more /\ occurred'[f] \in Values
                /\ target'[i] = (target[i] + (IF kept /\ counting = Both THEN seen ELSE 0)) % MOD
                /\ lost' = IF kept THEN lost ELSE lost \cup {e}
           ELSE UNCHANGED <<occurred, target, lost>>
  BY <1>1, <1>2, <1>20, OccurCounts
<1>9. more \in Nat /\ seen \in Nat
  BY <1>4, <1>20
<1>10. Measured(i, f)
  BY DEF CountInv
\* What e may count grows by what the registers see, if they are enabled.
<1>13. PICK grown : grown = IF Enabled THEN seen ELSE 0
  OBVIOUS
<1>14. grown \in Nat
  BY <1>9, <1>13
<1>15. Countable(f) \in Nat
  BY <1>2, CountableType DEF Values
<1>16. measured => Countable(f)' = Countable(f) + grown /\ Countable(f) + grown < MOD
  <2> SUFFICES ASSUME measured
               PROVE  Countable(f)' = Countable(f) + grown /\ Countable(f) + grown < MOD
    OBVIOUS
  <2>1. Enabled' <=> Enabled
    BY <1>3 DEF Enabled
  <2>2. occurred'[f] = occurred[f] + more /\ occurred'[f] < MOD
    BY <1>4, <1>8 DEF Values
  <2>3. CASE Enabled /\ ~hardware[f].silent
    BY <1>7, <1>9, <1>13, <1>20, <2>1, <2>2, <2>3 DEF Countable
  <2>4. CASE ~(Enabled /\ ~hardware[f].silent)
    <3>1. Countable(f) = 0 /\ Countable(f)' = 0 /\ grown = 0
      BY <1>13, <1>20, <2>1, <2>4 DEF Countable
    <3> QED
      BY <1>4, <3>1
  <2> QED
    BY <2>3, <2>4
\* The sum over the CPUs has grown, since the first snapshot as well.
<1>21. \A y, b \in Int, c \in Nat :
         (y - b) % MOD = c /\ c + grown < MOD => (((y + grown) % MOD) - b) % MOD = c + grown
  <2> SUFFICES ASSUME NEW y \in Int, NEW b \in Int, NEW c \in Nat, (y - b) % MOD = c, c + grown < MOD
               PROVE  (((y + grown) % MOD) - b) % MOD = c + grown
    OBVIOUS
  <2>1. PICK M \in Nat \ {0}, g \in Nat : M = MOD /\ g = grown
    BY <1>4, <1>14
  <2>2. y + g \in Int /\ -b \in Int /\ y - b \in Int /\ g \in Int
    OBVIOUS
  <2>3. (((y + g) % M) + (-b)) % M = ((y + g) + (-b)) % M
    BY <2>2, ModInner
  <2>4. (((y - b) % M) + g) % M = ((y - b) + g) % M
    BY <2>2, ModInner
  <2>5. (y + g) + (-b) = (y - b) + g
    OBVIOUS
  <2>6. (y + g) % M \in Int /\ ((y + g) % M) - b = ((y + g) % M) + (-b)
    BY <2>2
  <2>7. (y - b) % M = c /\ c + g < M
    BY <2>1
  <2>8. (c + g) % M = c + g
    BY <2>7
  <2>9. (((y + g) % M) - b) % M = c + g
    BY <2>3, <2>4, <2>5, <2>6, <2>7, <2>8
  <2> QED
    BY <2>1, <2>9
<1>11. CASE command.system_wide
  <2>1. measured /\ grown = IF "cpus" \in counting THEN seen ELSE 0
    BY <1>1, <1>11, <1>13 DEF Enabled
  <2>2. PICK t : Totals(t, counter)
    BY <1>2, <1>3, <1>5, ReadIsTotal
  <2>3. (t[ncpu][i] - before[i]) % MOD = Countable(f)
    BY <1>3, <1>10, <1>11, <2>2 DEF Measured
  <2>4. ASSUME NEW u, Totals(u, counter') PROVE (u[ncpu][i] - before[i]) % MOD = Countable(f)'
    <3> DEFINE x == t[ncpu][i]
    <3>1. u[ncpu][i] = (x + grown) % MOD
      <4>1. counter'[cpu][i] = (counter[cpu][i] + grown) % MOD
        BY <1>8, <2>1
      <4>2. counter \in Banks /\ counter' \in Banks /\ i \in Columns
        BY <1>5, <1>6
      <4>3. \A c \in Cpus \ {cpu} : counter'[c][i] = counter[c][i]
        BY <1>8
      <4>4. u[ncpu][i] = (t[ncpu][i] + grown) % MOD
        BY <1>14, <2>2, <2>4, <4>1, <4>2, <4>3, OneMore, SMTT(30)
      <4> QED
        BY <4>4
    <3>2. x \in Int
      BY <1>6, <2>2, WidthType DEF Totals, Values
    <3>3. (x - before[i]) % MOD = Countable(f)
      BY <2>3
    <3> HIDE DEF x
    <3>4. (((x + grown) % MOD) - before[i]) % MOD = Countable(f) + grown
      <4>1. PICK y \in Int, b \in Int, c \in Nat : y = x /\ b = before[i] /\ c = Countable(f)
        BY <1>7, <1>15, <3>2
      <4>3. (y - b) % MOD = c /\ c + grown < MOD
        BY <1>16, <2>1, <3>3, <4>1
      <4>2. (((y + grown) % MOD) - b) % MOD = c + grown
        BY <4>3, <1>21
      <4> QED
        BY <4>1, <4>2
    <3> QED
      BY <1>16, <2>1, <3>1, <3>4
  <2>5. ~(after' # None) /\ before' = before /\ command'.system_wide
    BY <1>3, <1>11
  <2>6. ncpu' = ncpu
    BY <1>3
  <2> QED
    BY <2>4, <2>5, <2>6 DEF Measured, Totals
<1>12. CASE ~command.system_wide
  <2>1. before[i] = 0 /\ Says(target[i], f)
    BY <1>3, <1>10, <1>12 DEF Measured
  <2>2. Says(target[i], f)'
    <3>1. CASE measured
      <4>1. /\ target'[i] = (target[i] + (IF kept THEN grown ELSE 0)) % MOD
            /\ lost' = IF kept THEN lost ELSE lost \cup {e}
        BY <1>8, <1>12, <1>13, <3>1 DEF Enabled
      <4>2. target[i] + (IF kept THEN grown ELSE 0) \in 0 .. Countable(f) + grown
        BY <1>7, <1>14, <1>15, <2>1 DEF Says
      <4>3. target'[i] = target[i] + (IF kept THEN grown ELSE 0)
        <5> DEFINE v == target[i] + (IF kept THEN grown ELSE 0)
        <5>1. v \in Nat /\ v < MOD
          BY <1>4, <1>7, <1>14, <1>15, <1>16, <3>1, <4>2
        <5> HIDE DEF v
        <5>2. v % MOD = v
          BY <1>4, <5>1
        <5> QED
          BY <4>1, <5>2 DEF v
      <4>4. Countable(f)' = Countable(f) + grown
        BY <1>16, <3>1
      <4>5. f \notin lost' => target'[i] = Countable(f) + grown
        <5> SUFFICES ASSUME f \notin lost' PROVE target'[i] = Countable(f) + grown
          OBVIOUS
        <5>1. target[i] = Countable(f)
          BY <2>1, <4>1 DEF Says
        <5>2. kept \/ grown = 0
          BY <1>13, <1>20, <4>1
        <5> QED
          BY <1>14, <1>15, <4>3, <5>1, <5>2
      <4>6. target'[i] \in 0 .. Countable(f) + grown
        BY <4>2, <4>3
      <4> QED
        BY <1>3, <1>12, <4>4, <4>5, <4>6 DEF Says
    <3>2. CASE ~measured
      <4>1. UNCHANGED <<occurred, target, lost, command, counting>>
        BY <1>3, <1>8, <3>2
      <4>2. Countable(f)' = Countable(f)
        BY <4>1 DEF Countable, Enabled
      <4> QED
        BY <2>1, <4>1, <4>2 DEF Says
    <3> QED
      BY <3>1, <3>2
  <2> QED
    BY <1>3, <1>12, <2>1, <2>2 DEF Measured
<1> QED
  BY <1>11, <1>12

\* The snapshots: nothing has occurred since the first, and the second keeps what the
\* registers say.
LEMMA BeforeStep ==
  ASSUME CommandInv, CountInv, ReadBefore, NCPU <= ncpu,
         NEW i \in Registers, NEW f \in DOMAIN hardware
  PROVE  Measured(i, f)'
<1>1. ClaimInv /\ ManagerTypeOK /\ manager = "configured" /\ before = None /\ after = None
  BY DEF CommandInv, TypeOK, Snapshots, ReadBefore
<1>2. /\ UNCHANGED <<command, counter, after>> /\ occurred' = occurred
      /\ IF command.system_wide
           THEN before' = read_system_wide
           ELSE before' = [j \in 0 .. n_total - 1 |-> 0] /\ target' = Zeroes
  BY DEF ReadBefore, command_vars
<1>3. Countable(f)' = 0
  BY <1>1, <1>2 DEF CountInv, NothingOccurred, Countable
<1>8. Says(0, f)'
  BY <1>3 DEF Says
<1>4. i \in Columns /\ Columns = 0 .. n_total - 1 /\ MOD \in Nat \ {0} /\ ncpu \in 0 .. ncpu
  <2>1. n_total = Width
    BY <1>1 DEF ClaimInv, n_total, Width
  <2> QED
    BY <2>1, WidthType DEF Columns
<1>5. counter \in Banks
  BY <1>1 DEF ManagerTypeOK, Banks, Values
<1>6. CASE command.system_wide
  <2>1. PICK t : Totals(t, counter) /\ read_system_wide = t[ncpu]
    BY <1>1, <1>5, ReadIsTotal
  <2>2. before'[i] = t[ncpu][i] /\ t[ncpu][i] \in Values
    BY <1>2, <1>4, <1>6, <2>1 DEF Totals
  <2>3. ASSUME NEW u, Totals(u, counter) PROVE (u[ncpu][i] - before'[i]) % MOD = Countable(f)'
    <3>1. u[ncpu][i] = t[ncpu][i]
      BY <1>4, <1>5, <2>1, <2>3, OneSum
    <3>2. u[ncpu][i] - before'[i] = 0
      BY <2>2, <3>1 DEF Values
    <3> QED
      BY <1>3, <1>4, <3>2
  <2> QED
    BY <1>1, <1>2, <1>6, <2>3 DEF Measured, Totals
<1>7. CASE ~command.system_wide
  <2>1. before'[i] = 0 /\ target'[i] = 0
    BY <1>2, <1>4, <1>7 DEF Zeroes
  <2> QED
    BY <1>1, <1>2, <1>7, <1>8, <2>1 DEF Measured, Says
<1> QED
  BY <1>6, <1>7

LEMMA AfterStep ==
  ASSUME CommandInv, CountInv, ReadAfter,
         NEW i \in Registers, NEW f \in DOMAIN hardware, Measures(i, f)
  PROVE  Measured(i, f)'
<1>1. /\ ClaimInv /\ ManagerTypeOK /\ manager = "configured" /\ before # None /\ after = None
      /\ Measured(i, f)
  BY DEF CommandInv, CountInv, TypeOK, ReadAfter
<1>2. /\ UNCHANGED <<command, before, occurred, lost, counting, counter, target>>
      /\ after' = IF command.system_wide THEN read_system_wide
                  ELSE [j \in 0 .. n_fixed + counter_count - 1 |-> target[j]]
  BY DEF ReadAfter, command_vars, kernel
<1>3. /\ i \in Columns /\ Columns = 0 .. n_fixed + counter_count - 1 /\ MOD \in Nat \ {0}
  <2>1. counter_count = NConfigForced
    BY <1>1 DEF ClaimInv, counter_count
  <2>2. Columns = 0 .. n_fixed + counter_count - 1
    BY <2>1, WidthType DEF Columns, Width
  <2> QED
    BY <2>2, WidthType
<1>4. Says((after'[i] - before[i]) % MOD, f)
  <2>1. CASE command.system_wide
    <3>1. counter \in Banks
      BY <1>1 DEF ManagerTypeOK, Banks, Values
    <3>2. PICK t : Totals(t, counter) /\ read_system_wide = t[ncpu]
      BY <1>1, <3>1, ReadIsTotal
    <3>3. (t[ncpu][i] - before[i]) % MOD = Countable(f)
      BY <1>1, <2>1, <3>2 DEF Measured
    <3>4. Countable(f) \in 0 .. Countable(f)
      BY <1>1, CountableType DEF Values
    <3> QED
      BY <1>2, <2>1, <3>2, <3>3, <3>4 DEF Says
  <2>2. CASE ~command.system_wide
    <3>1. after'[i] = target[i] /\ before[i] = 0 /\ Says(target[i], f)
      BY <1>1, <1>2, <1>3, <2>2 DEF Measured
    <3>2. target[i] \in Values
      BY <1>1 DEF ManagerTypeOK, Values
    <3>3. (target[i] - 0) % MOD = target[i]
      BY <1>3, <3>2 DEF Values
    <3> QED
      BY <3>1, <3>3
  <2> QED
    BY <2>1, <2>2
<1>6. Countable(f)' = Countable(f) /\ (f \in lost' <=> f \in lost) /\ command' = command
  BY <1>2 DEF Countable, Enabled
<1>7. Says((after[i] - before[i]) % MOD, f)'
  BY <1>2, <1>4, <1>6 DEF Says
<1>8. CASE after' = None
  <2>1. Measured(i, f)
    BY <1>1
  <2> QED
    BY <1>1, <1>2, <1>6, <1>8, <2>1 DEF Measured, Says, Totals
<1> QED
  BY <1>7, <1>8 DEF Measured

LEMMA CountStep ==
  ASSUME CommandInv, CommandInv', CountInv, [Next]_vars, NCPU <= ncpu
  PROVE  CountInv'
<1>1. /\ manager # "none" => Loaded
      /\ before # None => manager \in {"configured", "dropped"}
      /\ db # None => command # None
      /\ FromFile /\ Chosen
  BY DEF CommandInv, Chosen, Snapshots, FromFile
\* Nothing has been measured since the last configure, if there has been one.
<1>2. CASE manager' # "configured" /\ before' = None /\ occurred' = NothingOccurred
  BY <1>2 DEF CountInv, Programmed
<1>3. CASE Main \/ Load
  <2>1. db = None /\ UNCHANGED manager_vars
    BY <1>1, <1>3 DEF Main, Load
  <2>2. manager = "none" /\ before = None /\ occurred = NothingOccurred
    BY <1>1, <2>1 DEF Loaded, CountInv
  <2> QED
    BY <1>2, <2>1, <2>2 DEF manager_vars, own, snapshots
<1>4. CASE Create
  <2>1. manager = "none" /\ manager' # "configured" /\ UNCHANGED snapshots
    BY <1>4 DEF Create, New
  <2> QED
    BY <1>1, <1>2, <2>1 DEF CountInv, snapshots
<1>5. CASE Configure
  <2>1. PICK evs : ConfigureBegin(evs)
    BY <1>5 DEF Configure
  <2> QED
    BY <1>2, <2>1 DEF ConfigureBegin
<1>6. CASE Configuring
  <2>1. manager = "sleeping" /\ UNCHANGED snapshots /\ UNCHANGED command_vars
    BY <1>6 DEF Configuring, ConfigureRefused, ConfigureTooMany, ConfigureProgram
  <2>2. before' = None /\ occurred' = NothingOccurred
    BY <1>1, <2>1 DEF CountInv, snapshots
  <2>3. CASE manager' # "configured"
    BY <1>2, <2>2, <2>3
  <2>4. CASE manager' = "configured"
    <3>1. ConfigureProgram /\ n_config' = NConfigForced /\ UNCHANGED file
      BY <1>6, <2>1, <2>4
      DEF Configuring, ConfigureRefused, ConfigureTooMany, ConfigureProgram, Requery, command_vars
    <3>2. file.id = own_cpu => \A c \in configured_events' : Measures(n_fixed + c[2], c[1])'
      BY <1>1, <2>4, <3>1, ProgramMeasures
    <3>3. Programmed'
      BY <3>1, <3>2 DEF Programmed
    <3> QED
      BY <2>2, <3>3 DEF CountInv
  <2> QED
    BY <2>3, <2>4
\* What is programmed stays.
<1>7. CASE /\ UNCHANGED <<config, configured_events, n_config, file>>
           /\ manager' = "configured" \/ before' # None => manager = "configured" \/ before # None
           /\ before' = None => before = None /\ UNCHANGED occurred
           /\ \A i \in Registers, f \in DOMAIN hardware :
                before' # None /\ Measures(i, f) => Measured(i, f)'
  <2>1. \A i, f : Measures(i, f)' <=> Measures(i, f)
    BY <1>7 DEF Measures, Counts
  <2>2. Programmed'
    BY <1>7, <2>1 DEF CountInv, Programmed
  <2>3. before' = None => occurred' = NothingOccurred
    BY <1>7 DEF CountInv
  <2> QED
    BY <1>7, <2>1, <2>2, <2>3 DEF CountInv
<1>8. CASE ReadBefore
  <2>1. /\ UNCHANGED <<config, configured_events, n_config, file, manager, occurred>>
        /\ manager = "configured" /\ before = None
    BY <1>8 DEF ReadBefore, own, command_vars
  <2>2. \A i \in Registers, f \in DOMAIN hardware : Measured(i, f)'
    BY <1>8, BeforeStep
  <2> QED
    BY <1>7, <2>1, <2>2
<1>9. CASE Occurs
  <2>1. /\ UNCHANGED <<config, configured_events, n_config, file, manager, before>>
        /\ before = None => UNCHANGED occurred
    BY <1>9 DEF Occurs, Occur, own, command_vars
  <2>2. \A i \in Registers, f \in DOMAIN hardware :
          before # None /\ Measures(i, f) => Measured(i, f)'
    BY <1>9, OccurStep
  <2> QED
    BY <1>7, <2>1, <2>2
<1>10. CASE ReadAfter
  <2>1. UNCHANGED <<config, configured_events, n_config, file, manager, before, occurred>>
    BY <1>10 DEF ReadAfter, own, kernel, command_vars
  <2>2. \A i \in Registers, f \in DOMAIN hardware : Measures(i, f) => Measured(i, f)'
    BY <1>10, AfterStep
  <2> QED
    BY <1>7, <2>1, <2>2
<1>11. CASE Return \/ Finished \/ UNCHANGED vars
  <2>1. /\ UNCHANGED <<config, configured_events, n_config, counting, counter, target,
                       command_vars, snapshots>>
        /\ manager' = "configured" => manager = "configured"
    BY <1>11 DEF Return, Drop, Finished, vars, manager_vars, own, kernel
  <2>2. UNCHANGED <<before, after, occurred, lost, command, file>>
    BY <2>1 DEF snapshots, command_vars
  <2>4. \A f : Countable(f)' = Countable(f)
    BY <2>1, <2>2 DEF Countable, Enabled
  <2>3. \A i \in Registers, f \in DOMAIN hardware :
          before # None /\ Measures(i, f) => Measured(i, f)'
    BY <2>1, <2>2, <2>4 DEF CountInv, Measured, Says, Totals
  <2> QED
    BY <1>7, <2>1, <2>2, <2>3
<1> QED
  BY <1>3, <1>4, <1>5, <1>6, <1>8, <1>9, <1>10, <1>11 DEF Next

----------------------------------------------------------------------------
(* The numbers that are printed.                                           *)

\* The recursions in to_string, fmt_comma and reading, up to n.
IsQuotient(quotient, value, n) ==
  quotient = [k \in 0 .. n |-> IF k = 0 THEN value ELSE quotient[k - 1] \div Base]

IsResult(result, digits, n) ==
  result = [k \in 0 .. n |->
    IF k = 0 THEN <<>>
    ELSE result[k - 1] \o (IF k > 1 /\ k % 3 = 1 THEN <<Comma>> ELSE <<>>) \o <<digits[k]>>]

IsNumber(number, value, n) ==
  number = [k \in 0 .. n |->
    IF k = 0 THEN 0
    ELSE IF value[k] = Comma THEN number[k - 1] ELSE Base * number[k - 1] + value[k]]

\* A value for each number, each from the one before.
Steps(s, a, f, n) == s[0] = a /\ \A k \in 1 .. n : s[k] = f[k][s[k - 1]]

LEMMA Recursion ==
  ASSUME NEW T, NEW a \in T, NEW f \in [Nat -> [T -> T]], NEW n \in Nat
  PROVE  \E s \in [0 .. n -> T] : Steps(s, a, f, n)
<1> DEFINE Good(s, m) == s \in [0 .. m -> T] /\ Steps(s, a, f, m)
           S == {m \in Nat : \E s : Good(s, m)}
<1>1. 0 \in S
  <2> DEFINE s == [k \in 0 .. 0 |-> a]
  <2>1. Good(s, 0)
    BY DEF Steps
  <2> QED
    BY <2>1
<1>2. ASSUME NEW m \in Nat, m \in S PROVE m + 1 \in S
  <2>1. PICK s : Good(s, m)
    BY <1>2
  <2> DEFINE t == [k \in 0 .. m + 1 |-> IF k <= m THEN s[k] ELSE f[m + 1][s[m]]]
  <2>2. s[m] \in T /\ f[m + 1][s[m]] \in T
    BY <2>1
  <2>3. t \in [0 .. m + 1 -> T] /\ t[m + 1] = f[m + 1][s[m]] /\ \A k \in 0 .. m : t[k] = s[k]
    BY <2>1, <2>2
  <2> HIDE DEF t
  <2>4. \A k \in 1 .. m + 1 : t[k] = f[k][t[k - 1]]
    <3> SUFFICES ASSUME NEW k \in 1 .. m + 1 PROVE t[k] = f[k][t[k - 1]]
      OBVIOUS
    <3>1. CASE k = m + 1
      BY <2>3, <3>1
    <3>2. CASE k \in 1 .. m
      BY <2>1, <2>3, <3>2 DEF Steps
    <3> QED
      BY <3>1, <3>2
  <2>5. Good(t, m + 1)
    BY <2>1, <2>3, <2>4 DEF Steps
  <2> QED
    BY <2>5
<1> HIDE DEF S
<1>3. Nat \subseteq S
  BY <1>1, <1>2, Induction
<1>4. PICK s : Good(s, n)
  BY <1>3 DEF S
<1> QED
  BY <1>4

\* The string of a number is its digits, which are the remainders of its quotients.
Quotients(quotient, value, length) ==
  /\ quotient \in [0 .. value + 1 -> Nat] /\ quotient[0] = value
  /\ \A k \in 1 .. value + 1 : quotient[k] = quotient[k - 1] \div Base
  /\ length \in 1 .. value + 1 /\ quotient[length] = 0

AreDigits(s, quotient, length) == s = [i \in 1 .. length |-> quotient[length - i] % Base]

\* The two that to_string chooses.
ChosenQuotients(value) == CHOOSE s : IsQuotient(s, value, value + 1)

ChosenLength(value) ==
  CHOOSE k \in 1 .. value + 1 :
    ChosenQuotients(value)[k] = 0 /\ (k = 1 \/ ChosenQuotients(value)[k - 1] # 0)

LEMMA QuotientsEnd ==
  ASSUME NEW value \in Nat
  PROVE  Quotients(ChosenQuotients(value), value, ChosenLength(value))
<1> DEFINE q == ChosenQuotients(value)
           length == ChosenLength(value)
           f == [k \in Nat |-> [x \in Nat |-> x \div Base]]
<1>0. PICK n \in Nat : n = value + 1
  OBVIOUS
<1>2. \A x \in Nat : x \div Base \in Nat
  BY DEF Base
<1>3. f \in [Nat -> [Nat -> Nat]] /\ \A k, x \in Nat : f[k][x] = x \div Base
  BY <1>2
<1> HIDE DEF f
<1>4. PICK s \in [0 .. n -> Nat] : Steps(s, value, f, n)
  BY <1>3, Recursion
<1>5. s[0] = value /\ \A k \in 1 .. n : s[k] = s[k - 1] \div Base
  <2>1. s[0] = value /\ \A k \in 1 .. n : s[k] = f[k][s[k - 1]]
    BY <1>4 DEF Steps
  <2>2. \A k \in 1 .. n : k \in Nat /\ s[k - 1] \in Nat
    OBVIOUS
  <2> QED
    BY <1>3, <2>1, <2>2
<1>6. IsQuotient(s, value, n)
  <2> DEFINE t == [k \in 0 .. n |-> IF k = 0 THEN value ELSE s[k - 1] \div Base]
  <2>1. \A k \in 0 .. n : s[k] = t[k]
    BY <1>4, <1>5
  <2>2. s = t
    BY <1>4, <2>1
  <2> QED
    BY <2>2 DEF IsQuotient
<1>7. IsQuotient(q, value, n)
  BY <1>0, <1>6 DEF ChosenQuotients
<1> HIDE DEF q
<1>8. q[0] = value /\ \A k \in 1 .. n : q[k] = q[k - 1] \div Base
  <2> DEFINE term(k) == IF k = 0 THEN value ELSE q[k - 1] \div Base
  <2>1. q = [k \in 0 .. n |-> term(k)]
    BY <1>7 DEF IsQuotient
  <2>2. 0 \in 0 .. n /\ \A k \in 1 .. n : k \in 0 .. n /\ k # 0
    BY <1>2
  <2>3. term(0) = value /\ \A k \in 1 .. n : term(k) = q[k - 1] \div Base
    BY <2>2
  <2> HIDE DEF term
  <2> QED
    BY <2>1, <2>2, <2>3
<1>9. DOMAIN q = 0 .. n /\ q = [k \in 0 .. n |-> q[k]]
  BY <1>7 DEF IsQuotient
<1> DEFINE S == {k \in Nat : k <= n => q[k] \in Nat /\ (q[k] = 0 \/ q[k] + k <= value)}
<1>10. 0 \in S
  BY <1>8
<1>11. ASSUME NEW k \in Nat, k \in S PROVE k + 1 \in S
  <2> SUFFICES ASSUME k + 1 <= n
               PROVE  q[k + 1] \in Nat /\ (q[k + 1] = 0 \/ q[k + 1] + (k + 1) <= value)
    OBVIOUS
  <2>1. q[k] \in Nat /\ (q[k] = 0 \/ q[k] + k <= value)
    BY <1>0, <1>11
  <2>2. q[k + 1] = q[k] \div Base
    BY <1>2, <1>8
  <2>3. \A x \in Nat : x \div 10 \in Nat /\ (x > 0 => x \div 10 < x) /\ (x = 0 => x \div 10 = 0)
    OBVIOUS
  <2> QED
    BY <2>1, <2>2, <2>3 DEF Base
<1> HIDE DEF S
<1>12. Nat \subseteq S
  BY <1>10, <1>11, Induction
<1>13. \A k \in 0 .. n : q[k] \in Nat /\ (q[k] = 0 \/ q[k] + k <= value)
  BY <1>2, <1>12 DEF S
<1>14. q \in [0 .. n -> Nat]
  BY <1>9, <1>13
<1>15. \E k \in 1 .. n : q[k] = 0 /\ (k = 1 \/ q[k - 1] # 0)
  <2> DEFINE Ends == {k \in 1 .. n : q[k] = 0}
  <2>1. n \in Ends
    BY <1>0, <1>13
  <2>2. Ends \subseteq Nat
    OBVIOUS
  <2> HIDE DEF Ends
  <2>3. PICK k \in Ends : \A j \in Ends : k <= j
    BY <2>1, <2>2, LeastNatural
  <2>4. k \in 1 .. n /\ q[k] = 0 /\ (k # 1 => k - 1 \in 1 .. n /\ ~(k <= k - 1))
    BY <1>2, <2>3 DEF Ends
  <2>5. k = 1 \/ q[k - 1] # 0
    BY <2>3, <2>4 DEF Ends
  <2> QED
    BY <2>4, <2>5
<1>16. length \in 1 .. n /\ q[length] = 0
  BY <1>0, <1>15 DEF ChosenLength, q
<1> HIDE DEF length
<1>17. Quotients(q, value, length)
  BY <1>0, <1>8, <1>14, <1>16 DEF Quotients
<1> QED
  BY <1>17 DEF q, length

LEMMA NumberDigits ==
  ASSUME NEW value \in Nat
  PROVE  AreDigits(to_string(value), ChosenQuotients(value), ChosenLength(value))
  BY DEF to_string, IsQuotient, AreDigits, ChosenQuotients, ChosenLength

\* How many places k digits take, and which digit, from the last, is at place i.
Places(k) == IF k = 0 THEN 0 ELSE k + ((k - 1) \div 3)
Digit(i) == i - (i \div 4)

LEMMA NextPlace ==
  ASSUME NEW k \in Nat
  PROVE  /\ Places(k) \in Nat
         /\ k > 0 /\ k % 3 = 0 =>
              /\ Places(k + 1) = Places(k) + 2 /\ (Places(k) + 1) % 4 = 0
              /\ (Places(k) + 2) % 4 # 0 /\ Digit(Places(k) + 2) = k + 1
         /\ k = 0 \/ k % 3 # 0 =>
              /\ Places(k + 1) = Places(k) + 1
              /\ (Places(k) + 1) % 4 # 0 /\ Digit(Places(k) + 1) = k + 1
<1>1. CASE k = 0
  BY <1>1 DEF Places, Digit
<1>2. CASE k > 0
  <2>1. PICK m \in Nat, x \in 1 .. 3 : k = 3 * m + x
    <3>1. k = 3 * ((k - 1) \div 3) + (((k - 1) % 3) + 1) /\ (k - 1) \div 3 \in Nat
          /\ ((k - 1) % 3) + 1 \in 1 .. 3
      BY <1>2
    <3> QED
      BY <3>1
  <2>2. (k - 1) \div 3 = m
    BY <2>1
  <2>3. Places(k) = 4 * m + x
    BY <1>2, <2>1, <2>2 DEF Places
  <2>4. CASE x = 3
    <3>1. k = 3 * m + 3 /\ k % 3 = 0 /\ k + 1 # 0 /\ ((k + 1) - 1) \div 3 = m + 1
      BY <2>1, <2>4
    <3>2. Places(k + 1) = 4 * m + 5 /\ Places(k) = 4 * m + 3
      BY <2>3, <2>4, <3>1 DEF Places
    <3>3. (4 * m + 4) % 4 = 0 /\ (4 * m + 5) % 4 # 0 /\ (4 * m + 5) \div 4 = m + 1
      OBVIOUS
    <3> QED
      BY <1>2, <3>1, <3>2, <3>3 DEF Digit
  <2>5. CASE x # 3
    <3>1. k % 3 # 0 /\ k + 1 # 0 /\ ((k + 1) - 1) \div 3 = m
      BY <2>1, <2>5
    <3>2. Places(k + 1) = 4 * m + x + 1
      BY <2>1, <3>1 DEF Places
    <3>3. (4 * m + x + 1) % 4 # 0 /\ (4 * m + x + 1) \div 4 = m
      BY <2>5
    <3> QED
      BY <1>2, <2>1, <2>3, <3>1, <3>2, <3>3 DEF Digit
  <2> QED
    BY <2>4, <2>5
<1> QED
  BY <1>1, <1>2

\* From one place to the next one to its right.
LEMMA PlaceBefore ==
  ASSUME NEW i \in Nat, i > 0
  PROVE  /\ Digit(i) \in Nat /\ Digit(i) > 0 /\ Digit(i) <= i
         /\ Digit(i - 1) = IF i % 4 = 0 THEN Digit(i) ELSE Digit(i) - 1
<1>1. PICK m \in Nat, x \in 0 .. 3 : i = 4 * m + x
  <2>1. i = 4 * (i \div 4) + (i % 4) /\ i \div 4 \in Nat /\ i % 4 \in 0 .. 3
    OBVIOUS
  <2> QED
    BY <2>1
<1>2. i \div 4 = m /\ i % 4 = x
  BY <1>1
<1>3. (i - 1) \div 4 = IF x = 0 THEN m - 1 ELSE m
  BY <1>1
<1> QED
  BY <1>1, <1>2, <1>3 DEF Digit

\* What has been pushed when k digits have been, and what the digits are.
Symbols == 0 .. 9 \cup {Comma}

Pushed(s, digits, k) ==
  /\ s \in Seq(Symbols) /\ Len(s) = Places(k)
  /\ \A i \in 1 .. Len(s) : s[i] = IF i % 4 = 0 THEN Comma ELSE digits[Digit(i)]

LEMMA PushDigit ==
  ASSUME NEW digits, NEW k \in Nat, digits[k + 1] \in 0 .. 9, NEW s, Pushed(s, digits, k)
  PROVE  Pushed(s \o (IF k + 1 > 1 /\ (k + 1) % 3 = 1 THEN <<Comma>> ELSE <<>>)
                  \o <<digits[k + 1]>>, digits, k + 1)
<1>1. s \in Seq(Symbols) /\ Len(s) = Places(k) /\ Places(k) \in Nat
      /\ \A i \in 1 .. Len(s) : s[i] = IF i % 4 = 0 THEN Comma ELSE digits[Digit(i)]
  BY NextPlace DEF Pushed
<1>2. digits[k + 1] \in Symbols /\ Comma \in Symbols
  BY DEF Symbols
<1>3. CASE k > 0 /\ k % 3 = 0
  <2>1. k + 1 > 1 /\ (k + 1) % 3 = 1
    BY <1>3
  <2> DEFINE t == (s \o <<Comma>>) \o <<digits[k + 1]>>
  <2>2. t \in Seq(Symbols) /\ Len(t) = Len(s) + 2
        /\ t[Len(s) + 1] = Comma /\ t[Len(s) + 2] = digits[k + 1]
        /\ \A i \in 1 .. Len(s) : t[i] = s[i]
    BY <1>1, <1>2
  <2>3. /\ Places(k + 1) = Places(k) + 2 /\ (Places(k) + 1) % 4 = 0
        /\ (Places(k) + 2) % 4 # 0 /\ Digit(Places(k) + 2) = k + 1
    BY <1>3, NextPlace
  <2> HIDE DEF t
  <2>4. ASSUME NEW i \in 1 .. Len(t) PROVE t[i] = IF i % 4 = 0 THEN Comma ELSE digits[Digit(i)]
    <3>1. i \in 1 .. Len(s) \/ i = Len(s) + 1 \/ i = Len(s) + 2
      BY <1>1, <2>2
    <3> QED
      BY <1>1, <2>2, <2>3, <3>1
  <2>5. Pushed(t, digits, k + 1)
    BY <1>1, <2>2, <2>3, <2>4 DEF Pushed
  <2> QED
    BY <2>1, <2>5 DEF t
<1>4. CASE k = 0 \/ k % 3 # 0
  <2>1. ~(k + 1 > 1 /\ (k + 1) % 3 = 1)
    BY <1>4
  <2> DEFINE t == (s \o <<>>) \o <<digits[k + 1]>>
  <2>2. t \in Seq(Symbols) /\ Len(t) = Len(s) + 1 /\ t[Len(s) + 1] = digits[k + 1]
        /\ \A i \in 1 .. Len(s) : t[i] = s[i]
    BY <1>1, <1>2
  <2>3. /\ Places(k + 1) = Places(k) + 1
        /\ (Places(k) + 1) % 4 # 0 /\ Digit(Places(k) + 1) = k + 1
    BY <1>4, NextPlace
  <2> HIDE DEF t
  <2>4. ASSUME NEW i \in 1 .. Len(t) PROVE t[i] = IF i % 4 = 0 THEN Comma ELSE digits[Digit(i)]
    <3>1. i \in 1 .. Len(s) \/ i = Len(s) + 1
      BY <1>1, <2>2
    <3> QED
      BY <1>1, <2>2, <2>3, <3>1
  <2>5. Pushed(t, digits, k + 1)
    BY <1>1, <2>2, <2>3, <2>4 DEF Pushed
  <2> QED
    BY <2>1, <2>5 DEF t
<1> QED
  BY <1>3, <1>4

\* Turned around, the last digit first.
Turned(digits, quotient, length) ==
  /\ digits \in Seq(0 .. 9) /\ Len(digits) = length
  /\ \A j \in 1 .. length : digits[j] = quotient[j - 1] % Base

LEMMA DigitsTurned ==
  ASSUME NEW value \in Nat
  PROVE  Turned(Reverse(to_string(value)), ChosenQuotients(value), ChosenLength(value))
<1>1. PICK q, length : q = ChosenQuotients(value) /\ length = ChosenLength(value)
  OBVIOUS
<1>2. q \in [0 .. value + 1 -> Nat] /\ length \in 1 .. value + 1
  BY <1>1, QuotientsEnd DEF Quotients
<1>3. PICK s : s = to_string(value)
  OBVIOUS
<1>4. s = [i \in 1 .. length |-> q[length - i] % Base]
  BY <1>1, <1>3, NumberDigits DEF AreDigits
<1>5. \A i \in 1 .. length : length - i \in 0 .. value + 1 /\ q[length - i] \in Nat
  BY <1>2
<1>6. \A x \in Nat : x % Base \in 0 .. 9
  BY DEF Base
<1>7. \A i \in 1 .. length : s[i] \in 0 .. 9
  BY <1>4, <1>5, <1>6
<1>8. s \in Seq(0 .. 9) /\ Len(s) = length
  BY <1>2, <1>4, <1>7
<1>9. PICK d : d = Reverse(s)
  OBVIOUS
<1>10. d = [i \in 1 .. length |-> s[(length - i) + 1]]
  BY <1>8, <1>9 DEF Reverse
<1>11. \A j \in 1 .. length : (length - j) + 1 \in 1 .. length /\ length - ((length - j) + 1) = j - 1
  BY <1>2
<1>12. \A j \in 1 .. length : d[j] = q[j - 1] % Base /\ d[j] \in 0 .. 9
  BY <1>4, <1>7, <1>10, <1>11
<1>13. d \in Seq(0 .. 9) /\ Len(d) = length
  BY <1>2, <1>10, <1>12
<1> QED
  BY <1>1, <1>3, <1>9, <1>12, <1>13 DEF Turned

\* What fmt_comma has pushed after each of the digits.
ChosenResult(digits) == CHOOSE result : IsResult(result, digits, Len(digits))

Push(s, digits, k) == s \o (IF k > 1 /\ k % 3 = 1 THEN <<Comma>> ELSE <<>>) \o <<digits[k]>>

LEMMA ResultPushed ==
  ASSUME NEW digits \in Seq(0 .. 9)
  PROVE  \A k \in 0 .. Len(digits) : Pushed(ChosenResult(digits)[k], digits, k)
<1>0. PICK n \in Nat : n = Len(digits)
  OBVIOUS
<1>1. PICK r : r = ChosenResult(digits)
  OBVIOUS
<1> DEFINE T == Seq(Symbols)
           f == [k \in Nat |-> [x \in T |-> IF k \in 1 .. n THEN Push(x, digits, k) ELSE x]]
<1>2. \A k \in 1 .. n, x \in T : Push(x, digits, k) \in T
  <2> SUFFICES ASSUME NEW k \in 1 .. n, NEW x \in T PROVE Push(x, digits, k) \in T
    OBVIOUS
  <2>1. digits[k] \in Symbols /\ Comma \in Symbols
    BY <1>0 DEF Symbols
  <2>2. <<digits[k]>> \in T /\ (IF k > 1 /\ k % 3 = 1 THEN <<Comma>> ELSE <<>>) \in T
    BY <2>1
  <2>3. \A y, z \in T : y \o z \in T
    OBVIOUS
  <2> QED
    BY <2>2, <2>3 DEF Push
<1>3. f \in [Nat -> [T -> T]] /\ \A k \in 1 .. n, x \in T : f[k][x] = Push(x, digits, k)
  BY <1>2
<1>4. <<>> \in T
  OBVIOUS
<1> HIDE DEF f, T
<1>5. PICK s \in [0 .. n -> T] : Steps(s, <<>>, f, n)
  BY <1>3, <1>4, Recursion
<1>6. s[0] = <<>> /\ \A k \in 1 .. n : s[k] = Push(s[k - 1], digits, k)
  <2>1. s[0] = <<>> /\ \A k \in 1 .. n : s[k] = f[k][s[k - 1]]
    BY <1>5 DEF Steps
  <2>2. \A k \in 1 .. n : s[k - 1] \in T
    OBVIOUS
  <2> QED
    BY <1>3, <2>1, <2>2
<1>7. IsResult(s, digits, n)
  <2> DEFINE t == [k \in 0 .. n |-> IF k = 0 THEN <<>> ELSE Push(s[k - 1], digits, k)]
  <2>1. \A k \in 0 .. n : s[k] = t[k]
    BY <1>6
  <2>2. s = t
    BY <1>5, <2>1
  <2> QED
    BY <2>2 DEF IsResult, Push
<1>8. IsResult(r, digits, n)
  BY <1>0, <1>1, <1>7 DEF ChosenResult
<1>9. r[0] = <<>> /\ \A k \in 1 .. n : r[k] = Push(r[k - 1], digits, k)
  <2> DEFINE term(k) == IF k = 0 THEN <<>> ELSE Push(r[k - 1], digits, k)
  <2>1. r = [k \in 0 .. n |-> term(k)]
    BY <1>8 DEF IsResult, Push
  <2>2. 0 \in 0 .. n /\ \A k \in 1 .. n : k \in 0 .. n /\ k # 0
    OBVIOUS
  <2>3. term(0) = <<>> /\ \A k \in 1 .. n : term(k) = Push(r[k - 1], digits, k)
    BY <2>2
  <2> HIDE DEF term
  <2> QED
    BY <2>1, <2>2, <2>3
<1> DEFINE S == {k \in Nat : k <= n => Pushed(r[k], digits, k)}
<1>10. 0 \in S
  <2>1. Places(0) = 0
    BY DEF Places
  <2>2. PICK e : e = <<>>
    OBVIOUS
  <2>3. e \in Seq(Symbols) /\ Len(e) = 0
    BY <2>2
  <2>4. Pushed(e, digits, 0)
    BY <2>1, <2>3 DEF Pushed
  <2> QED
    BY <1>9, <2>2, <2>4
<1>11. ASSUME NEW k \in Nat, k \in S PROVE k + 1 \in S
  <2> SUFFICES ASSUME k + 1 <= n PROVE Pushed(r[k + 1], digits, k + 1)
    OBVIOUS
  <2>1. Pushed(r[k], digits, k) /\ digits[k + 1] \in 0 .. 9 /\ r[k + 1] = Push(r[k], digits, k + 1)
    BY <1>0, <1>9, <1>11
  <2>2. Pushed(Push(r[k], digits, k + 1), digits, k + 1)
    BY <2>1, PushDigit DEF Push
  <2> QED
    BY <2>1, <2>2
<1> HIDE DEF S
<1>12. Nat \subseteq S
  BY <1>10, <1>11, Induction
<1> QED
  BY <1>0, <1>1, <1>12 DEF S

\* What is read, symbol by symbol.
ChosenNumber(s) == CHOOSE number : IsNumber(number, s, Len(s))

Read(x, symbol) == IF symbol = Comma THEN x ELSE Base * x + symbol

LEMMA NumberRead ==
  ASSUME NEW v \in Seq(Symbols)
  PROVE  /\ ChosenNumber(v)[0] = 0
         /\ \A k \in 1 .. Len(v) : ChosenNumber(v)[k] = Read(ChosenNumber(v)[k - 1], v[k])
<1>0. PICK n \in Nat : n = Len(v)
  OBVIOUS
<1>1. PICK r : r = ChosenNumber(v)
  OBVIOUS
<1> DEFINE f == [k \in Nat |-> [x \in Nat |-> IF k \in 1 .. n THEN Read(x, v[k]) ELSE x]]
<1>2. \A k \in 1 .. n, x \in Nat : Read(x, v[k]) \in Nat
  <2> SUFFICES ASSUME NEW k \in 1 .. n, NEW x \in Nat PROVE Read(x, v[k]) \in Nat
    OBVIOUS
  <2>1. v[k] \in Symbols
    BY <1>0
  <2>2. v[k] = Comma \/ v[k] \in 0 .. 9
    BY <2>1 DEF Symbols
  <2> QED
    BY <2>2 DEF Read, Base
<1>3. f \in [Nat -> [Nat -> Nat]] /\ \A k \in 1 .. n, x \in Nat : f[k][x] = Read(x, v[k])
  BY <1>2
<1> HIDE DEF f
<1>5. PICK s \in [0 .. n -> Nat] : Steps(s, 0, f, n)
  BY <1>3, Recursion
<1>6. s[0] = 0 /\ \A k \in 1 .. n : s[k] = Read(s[k - 1], v[k])
  <2>1. s[0] = 0 /\ \A k \in 1 .. n : s[k] = f[k][s[k - 1]]
    BY <1>5 DEF Steps
  <2>2. \A k \in 1 .. n : s[k - 1] \in Nat
    OBVIOUS
  <2> QED
    BY <1>3, <2>1, <2>2
<1>7. IsNumber(s, v, n)
  <2> DEFINE t == [k \in 0 .. n |-> IF k = 0 THEN 0 ELSE Read(s[k - 1], v[k])]
  <2>1. \A k \in 0 .. n : s[k] = t[k]
    BY <1>6
  <2>2. s = t
    BY <1>5, <2>1
  <2> QED
    BY <2>2 DEF IsNumber, Read
<1>8. IsNumber(r, v, n)
  BY <1>0, <1>1, <1>7 DEF ChosenNumber
<1>9. r[0] = 0 /\ \A k \in 1 .. n : r[k] = Read(r[k - 1], v[k])
  <2> DEFINE term(k) == IF k = 0 THEN 0 ELSE Read(r[k - 1], v[k])
  <2>1. r = [k \in 0 .. n |-> term(k)]
    BY <1>8 DEF IsNumber, Read
  <2>2. 0 \in 0 .. n /\ \A k \in 1 .. n : k \in 0 .. n /\ k # 0
    OBVIOUS
  <2>3. term(0) = 0 /\ \A k \in 1 .. n : term(k) = Read(r[k - 1], v[k])
    BY <2>2
  <2> HIDE DEF term
  <2> QED
    BY <2>1, <2>2, <2>3
<1> QED
  BY <1>0, <1>1, <1>9

LEMMA DigitGrows ==
  ASSUME NEW i \in Nat, NEW j \in Nat, i <= j
  PROVE  Digit(i) <= Digit(j)
<1>1. \A k \in Nat : k = 4 * (k \div 4) + (k % 4) /\ k \div 4 \in Nat /\ k % 4 \in 0 .. 3
  OBVIOUS
<1>2. PICK m \in Nat, x \in 0 .. 3 : i = 4 * m + x /\ i \div 4 = m
  BY <1>1
<1>3. PICK n \in Nat, y \in 0 .. 3 : j = 4 * n + y /\ j \div 4 = n
  BY <1>1
<1>4. Digit(i) = 3 * m + x /\ Digit(j) = 3 * n + y
  BY <1>2, <1>3 DEF Digit
<1>5. m <= n /\ (m = n => x <= y)
  BY <1>2, <1>3
<1>6. CASE m = n
  BY <1>4, <1>5, <1>6
<1>7. CASE m + 1 <= n
  BY <1>4, <1>7
<1> QED
  BY <1>5, <1>6, <1>7

\* A number in groups, read from the left.
Grouped(v) ==
  /\ Head(v) # Comma
  /\ \A i \in DOMAIN v : v[Len(v) + 1 - i] = Comma <=> i % 4 = 0

LEMMA ReadPushed ==
  ASSUME NEW value \in Nat, NEW q, NEW length, Quotients(q, value, length),
         NEW digits, Turned(digits, q, length), NEW s, Pushed(s, digits, length)
  PROVE  LET v == Reverse(s) IN Grouped(v) /\ ChosenNumber(v)[Len(v)] = value
<1>1. /\ length \in 1 .. value + 1 /\ q \in [0 .. value + 1 -> Nat]
      /\ q[0] = value /\ q[length] = 0
      /\ \A k \in 1 .. value + 1 : q[k] = q[k - 1] \div Base
  BY DEF Quotients
<1>2. \A j \in 1 .. length : digits[j] = q[j - 1] % Base /\ digits[j] \in 0 .. 9
  <2>1. /\ digits \in Seq(0 .. 9) /\ Len(digits) = length
        /\ \A j \in 1 .. length : digits[j] = q[j - 1] % Base
    BY DEF Turned
  <2>2. \A j \in 1 .. length : j - 1 \in 0 .. value + 1 /\ q[j - 1] \in Nat
    BY <1>1
  <2>3. \A x \in Nat : x % Base \in 0 .. 9
    BY DEF Base
  <2> QED
    BY <2>1, <2>2, <2>3
<1>3. s \in Seq(Symbols) /\ Len(s) = Places(length)
      /\ \A i \in 1 .. Len(s) : s[i] = IF i % 4 = 0 THEN Comma ELSE digits[Digit(i)]
  BY DEF Pushed
<1>4. PICK n : n = Places(length)
  OBVIOUS
<1>5. n \in Nat /\ n > 0 /\ n % 4 # 0 /\ Digit(n) = length
  <2>1. PICK k \in Nat : length = k + 1
    <3>1. length - 1 \in Nat /\ length = (length - 1) + 1
      BY <1>1
    <3> QED
      BY <3>1
  <2>2. n = Places(k + 1) /\ Places(k) \in Nat
    BY <1>4, <2>1, NextPlace
  <2>3. CASE k > 0 /\ k % 3 = 0
    <3>1. n = Places(k) + 2 /\ (Places(k) + 2) % 4 # 0 /\ Digit(Places(k) + 2) = k + 1
      BY <2>2, <2>3, NextPlace
    <3> QED
      BY <2>1, <2>2, <3>1
  <2>4. CASE k = 0 \/ k % 3 # 0
    <3>1. n = Places(k) + 1 /\ (Places(k) + 1) % 4 # 0 /\ Digit(Places(k) + 1) = k + 1
      BY <2>2, <2>4, NextPlace
    <3> QED
      BY <2>1, <2>2, <3>1
  <2> QED
    BY <2>3, <2>4
<1>6. \A i \in 1 .. n : Digit(i) \in 1 .. length
  <2> SUFFICES ASSUME NEW i \in 1 .. n PROVE Digit(i) \in 1 .. length
    OBVIOUS
  <2>1. i \in Nat /\ i > 0 /\ i <= n
    BY <1>5
  <2>2. Digit(i) \in Nat /\ Digit(i) > 0
    BY <2>1, PlaceBefore
  <2>3. Digit(i) <= Digit(n)
    BY <1>5, <2>1, DigitGrows
  <2> QED
    BY <1>1, <1>5, <2>2, <2>3
<1>7. PICK v : v = Reverse(s)
  OBVIOUS
<1>8. v = [k \in 1 .. n |-> s[(n - k) + 1]]
  BY <1>3, <1>4, <1>7 DEF Reverse
<1>9. \A k \in 1 .. n : (n - k) + 1 \in 1 .. n /\ s[k] \in Symbols
  BY <1>3, <1>4, <1>5
<1>10. v \in Seq(Symbols) /\ Len(v) = n /\ DOMAIN v = 1 .. n
  BY <1>5, <1>8, <1>9
<1>11. \A i \in 1 .. n : s[i] = Comma <=> i % 4 = 0
  BY <1>2, <1>3, <1>4, <1>6, CommandAssumption
<1>12. \A i \in 1 .. n : n + 1 - i \in 1 .. n /\ (n - (n + 1 - i)) + 1 = i
  BY <1>5
<1>13. Grouped(v)
  <2>1. \A i \in 1 .. n : v[n + 1 - i] = s[i]
    BY <1>8, <1>12
  <2>2. Head(v) = v[1] /\ v[1] = s[n]
    BY <1>5, <1>8, <1>10
  <2>3. s[n] # Comma
    BY <1>5, <1>11
  <2> QED
    BY <1>10, <1>11, <2>1, <2>2, <2>3 DEF Grouped
<1>14. PICK number : number = ChosenNumber(v)
  OBVIOUS
<1>15. number[0] = 0 /\ \A k \in 1 .. n : number[k] = Read(number[k - 1], v[k])
  BY <1>10, <1>14, NumberRead
\* What has been read is the quotient that is left.
<1> DEFINE S == {k \in Nat : k <= n => number[k] = q[Digit(n - k)]}
<1>16. 0 \in S
  BY <1>1, <1>5, <1>15
<1>17. ASSUME NEW k \in Nat, k \in S PROVE k + 1 \in S
  <2> SUFFICES ASSUME k + 1 <= n PROVE number[k + 1] = q[Digit(n - (k + 1))]
    OBVIOUS
  <2>1. PICK i \in 1 .. n : i = n - k
    BY <1>5
  <2>2. number[k] = q[Digit(i)] /\ n - (k + 1) = i - 1
    BY <1>5, <1>17, <2>1
  <2>3. number[k + 1] = Read(number[k], v[k + 1])
    BY <1>5, <1>15
  <2>4. v[k + 1] = s[i]
    BY <1>5, <1>8, <2>1
  <2>5. PICK d \in 1 .. length : d = Digit(i)
    BY <1>6
  <2>6. Digit(i - 1) = IF i % 4 = 0 THEN d ELSE d - 1
    BY <1>5, <2>5, PlaceBefore
  <2>7. CASE i % 4 = 0
    BY <1>11, <2>2, <2>3, <2>4, <2>5, <2>6, <2>7 DEF Read
  <2>8. CASE i % 4 # 0
    <3>1. s[i] # Comma /\ s[i] = q[d - 1] % Base
      BY <1>2, <1>3, <1>4, <1>11, <2>5, <2>8
    <3>2. q[d] = q[d - 1] \div Base /\ q[d - 1] \in Nat
      BY <1>1, <2>5
    <3>3. \A x \in Nat : 10 * (x \div 10) + (x % 10) = x
      OBVIOUS
    <3>4. Base * q[d] + (q[d - 1] % Base) = q[d - 1]
      BY <3>2, <3>3 DEF Base
    <3> QED
      BY <2>2, <2>3, <2>4, <2>5, <2>6, <2>8, <3>1, <3>4 DEF Read
  <2> QED
    BY <2>7, <2>8
<1> HIDE DEF S
<1>18. Nat \subseteq S
  BY <1>16, <1>17, Induction
<1>19. number[n] = q[Digit(0)]
  <2>1. n \in S /\ n - n = 0 /\ n <= n
    BY <1>5, <1>18
  <2> QED
    BY <2>1 DEF S
<1>20. number[n] = value
  BY <1>1, <1>19 DEF Digit
<1> QED
  BY <1>7, <1>10, <1>13, <1>14, <1>20

\* fmt_comma says of a number what it is, with its groups where they belong (stat.rs:367-377):
\* for every number.
LEMMA NumbersReadBack == \A value \in Nat : reading(fmt_comma(value)) = value
<1> SUFFICES ASSUME NEW value \in Nat PROVE reading(fmt_comma(value)) = value
  OBVIOUS
<1>1. PICK digits : digits = Reverse(to_string(value))
  OBVIOUS
<1>2. Turned(digits, ChosenQuotients(value), ChosenLength(value))
  BY <1>1, DigitsTurned
<1>3. digits \in Seq(0 .. 9) /\ Len(digits) = ChosenLength(value) /\ Len(digits) \in Nat
  BY <1>2 DEF Turned
<1>4. PICK s : s = ChosenResult(digits)[Len(digits)]
  OBVIOUS
<1>5. Pushed(s, digits, ChosenLength(value))
  BY <1>3, <1>4, ResultPushed
<1>6. fmt_comma(value) = Reverse(s)
  BY <1>1, <1>4 DEF fmt_comma, ChosenResult, IsResult
<1>7. reading(Reverse(s)) =
        IF Grouped(Reverse(s)) THEN ChosenNumber(Reverse(s))[Len(Reverse(s))] ELSE None
  BY DEF reading, Grouped, ChosenNumber, IsNumber
<1>8. Quotients(ChosenQuotients(value), value, ChosenLength(value))
  BY QuotientsEnd
<1>9. LET v == Reverse(s) IN Grouped(v) /\ ChosenNumber(v)[Len(v)] = value
  BY <1>2, <1>5, <1>8, ReadPushed
<1> QED
  BY <1>6, <1>7, <1>9

\* With the database of the CPU, on a machine whose CPUs sysctl counts, the number printed
\* beside a name says how often the event of that name occurred in what was measured: for any
\* such database and request, any assignment of the slots, and however registers, sums and
\* differences wrapped (kpc.rs:305-364, stat.rs:275-369).  It is 0 where the kernel does not
\* count, and in the default mode too small, never too large, where the library missed
\* occurrences.
THEOREM PrintedCountsAreTrue ==
  ASSUME hw_ncpu >= NCPU
  PROVE  Spec => []ReportsTrueCounts
<1>1. NCPU <= ncpu
  BY ManagerAssumption DEF ncpu
<1>2. Init => CountInv
  BY DEF Init, ManagerInit, CountInv, Programmed
<1>3. CommandInv /\ CommandInv' /\ CountInv /\ [Next]_vars => CountInv'
  BY <1>1, CountStep
<1>4. CommandInv /\ CountInv => ReportsTrueCounts
  <2> SUFFICES ASSUME CommandInv, CountInv, Loaded, after # None, file.id = own_cpu,
                      NEW line \in print_results
               PROVE  Says(reading(line.value), line.name)
    BY DEF ReportsTrueCounts, Says
  <2>1. before # None /\ n_config = NConfigForced /\ ManagerTypeOK
        /\ \A c \in configured_events : Measures(n_fixed + c[2], c[1])
    BY DEF CommandInv, TypeOK, Snapshots, CountInv, Programmed
  <2>2. \A i, f : Measures(i, f) => Says((after[i] - before[i]) % MOD, f)
    BY <2>1 DEF CountInv, Measured, Measures
  <2>3. Registers = 0 .. n_total - 1
    BY <2>1, ManagerAssumption DEF Registers, n_total
  <2>4. DOMAIN before = Registers /\ DOMAIN after = Registers
        /\ \A i \in Registers : before[i] \in Int /\ after[i] \in Int
    <3>1. before \in [Registers -> 0 .. MOD - 1] /\ after \in [Registers -> 0 .. MOD - 1]
      BY <2>1, <2>3 DEF ManagerTypeOK
    <3> QED
      BY <3>1
  <2>5. \A i, f : Measures(i, f) =>
           /\ Says(Wrap(val(after, i) - val(before, i)), f)
           /\ Wrap(val(after, i) - val(before, i)) \in Nat
    <3> SUFFICES ASSUME NEW i, NEW f, Measures(i, f)
                 PROVE  /\ Says(Wrap(val(after, i) - val(before, i)), f)
                        /\ Wrap(val(after, i) - val(before, i)) \in Nat
      OBVIOUS
    <3>1. i \in Registers /\ MOD \in Nat \ {0}
      BY WidthType DEF Measures
    <3>2. Wrap(val(after, i) - val(before, i)) = (after[i] - before[i]) % MOD
      BY <2>4, <3>1 DEF val, Wrap
    <3>3. (after[i] - before[i]) % MOD \in Nat
      BY <2>4, <3>1
    <3> QED
      BY <2>2, <3>2, <3>3
  <2>7. PICK value, name, comment : line = [value |-> fmt_comma(value), name |-> name, comment |-> comment]
          /\ \/ value = Fixed(0) /\ name = cycles
             \/ value = Fixed(1) /\ name = instructions
             \/ \E l \in labeled_counters : value = l[2] /\ name = l[1]
    BY DEF print_results
  <2>8. Says(value, name) /\ value \in Nat
    <3>1. CASE value = Fixed(0) /\ name = cycles
      BY <2>5, <3>1, FixedMeasures DEF Fixed
    <3>2. CASE value = Fixed(1) /\ name = instructions
      BY <2>5, <3>2, FixedMeasures DEF Fixed
    <3>3. CASE \E l \in labeled_counters : value = l[2] /\ name = l[1]
      <4>1. PICK c \in configured_events : /\ c[2] \in DOMAIN DeltaConfigurable
                                          /\ value = DeltaConfigurable[c[2]] /\ name = c[1]
        BY <3>3 DEF labeled_counters
      <4>2. value = Wrap(val(after, n_fixed + c[2]) - val(before, n_fixed + c[2]))
        BY <4>1 DEF DeltaConfigurable
      <4> QED
        BY <2>1, <2>5, <4>1, <4>2
    <3> QED
      BY <2>7, <3>1, <3>2, <3>3
  <2>9. reading(line.value) = value /\ line.name = name
    BY <2>7, <2>8, NumbersReadBack
  <2> QED
    BY <2>8, <2>9
<1> QED
  BY <1>2, <1>3, <1>4, CommandInvariant, PTL DEF Spec
=============================================================================
