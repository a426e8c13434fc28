---------------------------- MODULE ApmcCommand ----------------------------
(***************************************************************************)
(* The apmc command (main.rs) from its arguments to its output: which      *)
(* event database it reads, what `apmc list` shows of it, which events     *)
(* `apmc stat` (cmd_stat in stat.rs) asks KpcManager for, the two          *)
(* snapshots it takes around the measured program, and the numbers it      *)
(* prints.  A program that uses the library calls configure as often as    *)
(* it likes, and reads as `apmc stat --system-wide` does.                  *)
(*                                                                         *)
(* The measured program is here what the library in it will report, of     *)
(* which any occurrence may be missing: InjectDylib and StatSession say    *)
(* how that comes about.                                                   *)
(***************************************************************************)
EXTENDS KpcManager

CONSTANTS
  Directories,             \* what /usr/share/kpep may hold: file |-> contents
  Paths,                   \* what may be named to `apmc list`
  own_cpu,                 \* read_cpu_info
  DEFAULT_EVENTS,
  Requests,                \* lists of event names
  cycles, instructions,    \* the labels of the fixed counters
  Comma

ASSUME CommandAssumption ==
  /\ DEFAULT_EVENTS \in Requests /\ {cycles, instructions} \subseteq DOMAIN hardware
  /\ \A names \in Requests : names \in Seq(Range(names))
  /\ Comma \notin 0 .. 9
  /\ \A directory \in Directories : \A f \in DOMAIN directory :
       {"id", "ext"} = DOMAIN f /\ IsContents(directory[f])

\* The library reports no more than 16 counters (MAX_COUNTERS in kpc_inject.c); M4 has 10.
ASSUME LibraryAssumption == n_fixed + NConfigForced <= 16

\* Of the processor: a number selects one event, only one thing counts on each of the
\* two fixed counters that apmc prints, and these need no entitlement.
ASSUME HardwareAssumption ==
  /\ \A e, f \in DOMAIN hardware :
       hardware[e].number # None /\ hardware[e].number = hardware[f].number => e = f
  /\ \A e \in DOMAIN hardware :
       /\ hardware[e].fixed_counter = 0 <=> e = cycles
       /\ hardware[e].fixed_counter = 1 <=> e = instructions
       /\ hardware[e].silent \in BOOLEAN
       /\ hardware[e].silent => e \notin {cycles, instructions}

\* The database of this very CPU, as it is read, is true of what can be configured.
ASSUME DescriptionAssumption ==
  \A directory \in Directories : \A f \in DOMAIN directory :
    LET read == load_from_path(directory[f])
    IN  f.id = own_cpu /\ read.ok =>
          \A k \in DOMAIN read.value.events :
            LET e == read.value.events[k]
            IN  is_configurable(e) =>
                  /\ e.name \in DOMAIN hardware /\ hardware[e.name].number = e.number
                  /\ \A s \in 0 .. NConfigForced - 1 :
                       (e.counters_mask = None \/ s \in e.counters_mask) =>
                         \/ hardware[e.name].counters_mask = None
                         \/ s \in hardware[e.name].counters_mask

VARIABLES
  command,   \* the arguments, or None
  files,     \* /usr/share/kpep
  file,      \* the database that was read, or None
  db         \* the result of reading it, or None

command_vars == <<command, files, file, db>>
vars == <<command_vars, manager_vars>>

Commands ==
  [sub : {"list"}, path : Paths \cup {None}]
    \cup [sub : {"stat"}, event_names : Requests \cup {<<>>}, system_wide : BOOLEAN]
    \cup [sub : {"library"}, system_wide : {TRUE}]

Init ==
  /\ ManagerInit
  /\ command = None /\ files \in Directories /\ file = None /\ db = None

----------------------------------------------------------------------------
(* Arguments and database.                                                 *)

Main ==
  /\ command = None
  /\ command' \in Commands
  /\ UNCHANGED <<files, file, db, manager_vars>>

contents(f) == IF f \in DOMAIN files THEN files[f] ELSE Unreadable

read_cpu_info == {Ok(own_cpu), Err("SysctlError")}

\* The files that may be read, each with the result.
load_current_cpu(cpu) ==
  LET found == find_database_path(DOMAIN files, cpu.value)
  IN  IF ~cpu.ok THEN {<<None, cpu>>}
      ELSE IF found = {} THEN {<<None, Err("DatabaseNotFound")>>}
      ELSE {<<f, load_from_path(contents(f))>> : f \in found}

\* A path that is given is read as it is.
Load ==
  /\ command # None /\ db = None
  /\ \E read \in IF command.sub = "list" /\ command.path # None
                  THEN {<<command.path, load_from_path(contents(command.path))>>}
                  ELSE UNION {load_current_cpu(cpu) : cpu \in read_cpu_info} :
       file' = read[1] /\ db' = read[2]
  /\ UNCHANGED <<command, files, manager_vars>>

Loaded == db # None /\ db.ok

\* Unknown names are skipped with a warning.
events_by_names(names) ==
  LET known == Filter(names, {i \in DOMAIN names : event_by_name(db.value, names[i]) # None})
  IN  [i \in DOMAIN known |-> event_by_name(db.value, known[i])]

\* What the command monitors.
monitored ==
  events_by_names(IF command.event_names = <<>> THEN DEFAULT_EVENTS ELSE command.event_names)

----------------------------------------------------------------------------
(* Measuring.                                                              *)

IsStat == Loaded /\ command.sub = "stat"
IsLibrary == Loaded /\ command.sub = "library"

\* Without a valid event apmc exits before it has a manager.
Create == ((IsStat /\ monitored # <<>>) \/ IsLibrary) /\ New /\ UNCHANGED command_vars

\* The command configures once and gives up if that fails.
Configure ==
  /\ \/ IsStat /\ configures = 0 /\ ConfigureBegin(monitored)
     \/ IsLibrary /\ \E names \in Requests : ConfigureBegin(events_by_names(names))
  /\ UNCHANGED command_vars

Configuring ==
  /\ ConfigureRefused \/ ConfigureTooMany \/ ConfigureProgram
  /\ UNCHANGED command_vars

\* Before the program is spawned: the registers of the machine, or zero for the threads it
\* will have.
ReadBefore ==
  /\ manager = "configured" /\ before = None
  /\ IF command.system_wide
       THEN before' = read_system_wide /\ UNCHANGED target
       ELSE before' = [i \in 0 .. n_total - 1 |-> 0] /\ target' = Zeroes
  /\ UNCHANGED <<command_vars, own, forced, config, counting, counter, bursts, after,
                 occurred, lost>>

Occurs ==
  /\ manager = "configured"
  /\ \E e \in DOMAIN hardware, cpu \in Cpus, n \in Bursts :
       IF command.system_wide THEN Occur(e, cpu, n, TRUE, TRUE)
       ELSE \E measured, kept \in BOOLEAN : Occur(e, cpu, n, measured, kept)
  /\ UNCHANGED command_vars

\* The program has ended: the registers of the machine again, or what the library in it has
\* counted, as many registers as the kernel tells it there are.
ReadAfter ==
  /\ manager = "configured" /\ before # None /\ after = None
  /\ after' = IF command.system_wide THEN read_system_wide
              ELSE [i \in 0 .. n_fixed + counter_count - 1 |-> target[i]]
  /\ UNCHANGED <<command_vars, own, kernel, before, occurred, lost>>

\* Done, or a return because something failed on the way: spawning, a snapshot, or a
\* program that reported nothing.
Return == (IsLibrary \/ configures > 0) /\ Drop /\ UNCHANGED command_vars

Finished ==
  /\ db # None
  /\ \/ ~db.ok \/ command.sub = "list" \/ manager = "dropped"
     \/ IsStat /\ monitored = <<>>
  /\ UNCHANGED vars

Next ==
  \/ Main \/ Load \/ Create \/ Configure \/ Configuring
  \/ ReadBefore \/ Occurs \/ ReadAfter \/ Return \/ Finished

Spec == Init /\ [][Next]_vars

----------------------------------------------------------------------------
(* Output.                                                                 *)

Base == 10

\* value.to_string()
to_string(value) ==
  LET quotient[k \in 0 .. value + 1] == IF k = 0 THEN value ELSE quotient[k - 1] \div Base
      length == CHOOSE k \in 1 .. value + 1 :
                  quotient[k] = 0 /\ (k = 1 \/ quotient[k - 1] # 0)
  IN  [i \in 1 .. length |-> quotient[length - i] % Base]

\* Digits are pushed from the last to the first, a comma before every third, and all is
\* turned around again.
fmt_comma(value) ==
  LET digits == Reverse(to_string(value))
      result[k \in 0 .. Len(digits)] ==
        IF k = 0 THEN <<>>
        ELSE result[k - 1] \o (IF k > 1 /\ k % 3 = 1 THEN <<Comma>> ELSE <<>>) \o <<digits[k]>>
  IN  Reverse(result[Len(digits)])

\* Each line has a value, a name, and the description of the event of that name that was
\* asked for.
print_results ==
  LET desc(name) ==
        LET i == SelectInSeq(events, LAMBDA e : e.name = name)
        IN  IF i = 0 THEN None ELSE events[i].description
      print_line(value, name, comment) ==
        [value |-> fmt_comma(value), name |-> name, comment |-> comment]
  IN  {print_line(Fixed(0), cycles, None), print_line(Fixed(1), instructions, None)}
        \cup {print_line(l[2], l[1], desc(l[1])) : l \in labeled_counters}

----------------------------------------------------------------------------
(* Properties.                                                             *)

TypeOK ==
  /\ ManagerTypeOK
  /\ command \in Commands \cup {None}
  /\ file \in Paths \cup DOMAIN files \cup {None}
  /\ Loaded => \A i \in DOMAIN db.value.events :
                 db.value.events[i].number \in 0 .. U16 - 1 \cup {None}

\* What a printed number says: groups of three digits, read together.
reading(value) ==
  LET grouped == /\ Head(value) # Comma
                 /\ \A i \in DOMAIN value :
                      value[Len(value) + 1 - i] = Comma <=> i % 4 = 0
      number[k \in 0 .. Len(value)] ==
        IF k = 0 THEN 0
        ELSE IF value[k] = Comma THEN number[k - 1] ELSE Base * number[k - 1] + value[k]
  IN  IF grouped THEN number[Len(value)] ELSE None

\* fmt_comma says of a number what it is, with its groups where they belong.
FormatKeepsNumbers == \A value \in 0 .. MOD - 1 : reading(fmt_comma(value)) = value

\* Whether the kernel counts for this mode at all.
Enabled == IF command.system_wide THEN "cpus" \in counting ELSE counting = Both

\* What an event counts: its occurrences in what was measured, or nothing.
Countable(e) == IF Enabled /\ ~hardware[e].silent THEN occurred[e] ELSE 0

\* With the database of this very CPU, the number printed beside a name says how often the
\* event of that name occurred in what was measured, and nothing else: whatever was
\* requested, however the slots were assigned, on which CPU it ran, and also when
\* registers, sums and differences wrapped (kpc.rs:305-364, stat.rs:275-369).  It is 0
\* where the kernel does not count: it was not enabled, which configure does not notice
\* (kpc.rs:253-254), or the event needs an entitlement (README.md:119).  In the default mode
\* it is too small where the library missed occurrences, and never too large.
ReportsTrueCounts ==
  (Loaded /\ after # None /\ file.id = own_cpu) =>
    \A line \in print_results :
      /\ reading(line.value) \in 0 .. Countable(line.name)
      /\ command.system_wide \/ line.name \notin lost =>
           reading(line.value) = Countable(line.name)

\* The events a file holds, by name, as far as parse can use them.
entries(f) ==
  {entry \in Range(files[f].system.cpu.events) :
     entry[2] # Junk /\ (get(entry[2], "number") # None \/ get(entry[2], "fixed_counter") # None)}

\* `apmc list` shows every event of the file that can be counted at all, each once, the
\* configurable ones in ascending order of their numbers and counted rightly, and each
\* name it shows is one that `apmc stat -e` finds again, unless an alias has taken it
\* (kpep.rs:184-325).
ListsEachEventOnce ==
  Loaded =>
    LET shown == Listing(db.value)
        lines == shown.fixed \o shown.configurable
    IN  /\ \A line \in Range(lines) : line.number # None \/ line.fixed # None
        /\ Len(lines) = Cardinality(entries(file))
        /\ {line.name : line \in Range(lines)} = {entry[1] : entry \in entries(file)}
        /\ shown.count = Len(shown.configurable)
        /\ \A i, j \in DOMAIN shown.configurable :
             i < j => shown.configurable[i].number <= shown.configurable[j].number
        /\ \A line \in Range(lines) :
             line.name \in DOMAIN db.value.aliases \/ event_by_name(db.value, line.name).name = line.name
=============================================================================
