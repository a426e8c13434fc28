--------------------------- MODULE KpepDatabase ---------------------------
(***************************************************************************)
(* The event database (kpep.rs): which file under /usr/share/kpep is read, *)
(* what parse keeps of it, what apmc list shows of that, and how a name    *)
(* on the command line finds its event.                                    *)
(*                                                                         *)
(* A plist dictionary is a function from keys to values, and a value of an *)
(* unexpected type is Junk.  Where the code goes through a dictionary, its *)
(* entries are a sequence of pairs, in the order of the file.  A mask is   *)
(* the set of its bits.                                                    *)
(***************************************************************************)
EXTENDS Integers, FiniteSets, SequencesExt

CONSTANTS
  U16, U8_BITS,   \* 2^16, and the number of bits of a u8
  None,           \* a missing value
  Junk,           \* a plist value of another type than expected
  Unreadable      \* the contents of a file that is no plist, or missing

ASSUME DatabaseAssumption == U16 \in Nat \ {0} /\ U8_BITS \in Nat /\ None \notin Nat

\* The members of a finite set, one after the other: before[x] are those that precede x.
Ordered(before) ==
  [k \in 1 .. Cardinality(DOMAIN before) |->
    CHOOSE x \in DOMAIN before : Cardinality(before[x]) = k - 1]

\* What a sequence has at the indices that are kept.
Filter(s, kept) ==
  LET order == Ordered([i \in kept |-> {j \in kept : j < i}])
  IN  [k \in DOMAIN order |-> s[order[k]]]

\* Result<T, E>
Ok(value) == [ok |-> TRUE, value |-> value]
Err(error) == [ok |-> FALSE, error |-> error]

----------------------------------------------------------------------------
(* Parsing.                                                                *)

\* dict.get(key).and_then(as_dictionary, as_string or as_unsigned_integer)
get(dict, key) == IF key \in DOMAIN dict /\ dict[key] # Junk THEN dict[key] ELSE None

unwrap_or(v, default) == IF v = None THEN default ELSE v

\* map(|n| n as u16), map(|n| n as u8)
AsU16(n) == IF n = None THEN None ELSE n % U16
AsU8(mask) == IF mask = None THEN None ELSE mask \cap (0 .. U8_BITS - 1)

event(name, ev_dict) ==
  [name |-> name,
   description |-> unwrap_or(get(ev_dict, "description"), None),
   number |-> AsU16(get(ev_dict, "number")),
   counters_mask |-> AsU8(get(ev_dict, "counters_mask")),
   fixed_counter |-> get(ev_dict, "fixed_counter"),
   fallback |-> get(ev_dict, "fallback")]

\* sort_by_key(number): stable, and None comes first.
sort_by_number(events) ==
  LET key(i) == IF events[i].number = None THEN -1 ELSE events[i].number
      Before(i, j) == key(i) < key(j) \/ (key(i) = key(j) /\ i < j)
      order == Ordered([i \in DOMAIN events |-> {j \in DOMAIN events : Before(j, i)}])
  IN  [k \in DOMAIN events |-> events[order[k]]]

parsed_events(events_dict) ==
  LET dicts == Filter(events_dict, {i \in DOMAIN events_dict : events_dict[i][2] # Junk})
  IN  sort_by_number([i \in DOMAIN dicts |-> event(dicts[i][1], dicts[i][2])])

\* Aliases whose target is a string.
parsed_aliases(alias_dict) ==
  IF alias_dict = None THEN [a \in {} |-> None]
  ELSE [a \in {k \in DOMAIN alias_dict : alias_dict[k] # Junk} |-> alias_dict[a]]

parse(root) ==
  LET system == get(root, "system")
      cpu == get(system, "cpu")
      events_dict == get(cpu, "events")
      name == unwrap_or(get(root, "name"), "unknown")
  IN  IF root = Junk THEN Err("root is not a dict")
      ELSE IF system = None THEN Err("missing system")
      ELSE IF cpu = None THEN Err("missing system.cpu")
      ELSE IF events_dict = None THEN Err("missing system.cpu.events")
      ELSE Ok([name |-> name,
               marketing_name |-> unwrap_or(get(cpu, "marketing_name"), name),
               aliases |-> parsed_aliases(get(cpu, "aliases")),
               events |-> parsed_events(events_dict)])

\* Contents a file can have: what stands where the events are has distinct names, and a
\* number is unsigned.
IsContents(root) ==
  \/ root \in {Unreadable, Junk} \/ get(root, "system") = None
  \/ get(get(root, "system"), "cpu") = None
  \/ LET dict == get(get(get(root, "system"), "cpu"), "events")
     IN  dict # None =>
           /\ dict \in Seq(Range(dict))
           /\ \A i, j \in DOMAIN dict : dict[i][1] = dict[j][1] => i = j
           /\ \A i \in DOMAIN dict :
                dict[i][2] # Junk => get(dict[i][2], "number") \in Nat \cup {None}

load_from_path(contents) ==
  IF contents = Unreadable THEN Err("ReadError") ELSE parse(contents)

\* The files that may be chosen for a CPU: its own, or else any for CPUs of its type and
\* subtype, in the order read_dir happens to give them.
find_database_path(files, cpu) ==
  LET own == [id |-> cpu, ext |-> ".plist"]
  IN  IF own \in files THEN {own}
      ELSE {f \in files : /\ f.id.cpu_type = cpu.cpu_type
                          /\ f.id.cpu_subtype = cpu.cpu_subtype
                          /\ f.ext = ".plist"}

----------------------------------------------------------------------------
(* Events.                                                                 *)

is_fixed(e) == e.fixed_counter # None

\* Mutant: everything that has a number.
is_configurable_dual(e) == e.number # None

is_configurable(e) == e.number # None /\ ~is_fixed(e)

configurable_events(db) ==
  Filter(db.events, {i \in DOMAIN db.events : is_configurable(db.events[i])})
fixed_events(db) == Filter(db.events, {i \in DOMAIN db.events : is_fixed(db.events[i])})

\* Aliases come first.
resolved(db, name) == IF name \in DOMAIN db.aliases THEN db.aliases[name] ELSE name

event_by_name(db, name) ==
  LET i == SelectInSeq(db.events, LAMBDA e : e.name = resolved(db, name))
  IN  IF i = 0 THEN None ELSE db.events[i]

----------------------------------------------------------------------------
(* Showing a database.                                                     *)

\* Display for KpepEvent.  An event with neither a number nor a fixed counter is
\* unreachable! there.
Display(e) ==
  [number |-> e.number, fixed |-> e.fixed_counter, name |-> e.name,
   slots |-> IF e.number = None THEN None ELSE unwrap_or(e.counters_mask, "any slot"),
   fallback |-> IF is_fixed(e) THEN e.fallback ELSE None]

\* Display for CpuInfo.
CpuInfo(db) == [marketing_name |-> db.marketing_name, aliases |-> db.aliases]

\* Display for KpepDatabase.
Listing(db) ==
  LET lines(events) == [i \in DOMAIN events |-> Display(events[i])]
  IN  [cpu |-> CpuInfo(db),
       fixed |-> lines(fixed_events(db)),
       configurable |-> lines(configurable_events(db)),
       count |-> Len(configurable_events(db))]
=============================================================================
