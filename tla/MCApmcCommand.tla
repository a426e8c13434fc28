--------------------------- MODULE MCApmcCommand ---------------------------
(***************************************************************************)
(* Small databases and a small machine for TLC, and what the repository    *)
(* says of `apmc list` that the code does not keep.                        *)
(***************************************************************************)
EXTENDS ApmcCommand

CONSTANTS e1, e2, e3, inst, junk, alias, unknown   \* names

CpuId(family) == [cpu_type |-> 1, cpu_subtype |-> 2, cpu_family |-> family]
OwnCpu == CpuId(1)
File(cpu, ext) == [id |-> cpu, ext |-> ext]
OwnFile == File(OwnCpu, ".plist")
OtherFamily == File(CpuId(2), ".plist")
Backup == File(CpuId(3), ".bak")

\* Of the machine: one fixed event has a number too; e1 fits only the last slot; inst needs
\* an entitlement.
Hardware ==
  LET Event(number, mask, fixed, silent) ==
        [number |-> number, counters_mask |-> mask, fixed_counter |-> fixed, silent |-> silent]
  IN  (cycles :> Event(None, None, 0, FALSE)) @@ (instructions :> Event(3, {1}, 1, FALSE)) @@
      (e1 :> Event(1, {1}, None, FALSE)) @@ (e2 :> Event(2, None, None, FALSE)) @@
      (inst :> Event(4, None, None, TRUE))

\* As a file has them: not in order, with a mask wider than the slots, with an entry that
\* is no dictionary and one that has no number.
EventsDict ==
  <<<<e2, [number |-> 2, description |-> "e2"]>>,
    <<junk, Junk>>,
    <<inst, [number |-> 4, description |-> "inst"]>>,
    <<instructions, [number |-> 3, counters_mask |-> {1, 9}, fixed_counter |-> 1]>>,
    <<e1, [number |-> 1, counters_mask |-> {1, 9}, description |-> "e1", fallback |-> "e2"]>>,
    <<cycles, [fixed_counter |-> 0, fallback |-> "cycles"]>>,
    <<e3, [number |-> Junk, description |-> Junk]>>>>

\* An alias, one of a wrong type, and one that hides an event.
Aliases == [a \in {alias, unknown, cycles} |-> IF a = unknown THEN Junk ELSE e2]

Good ==
  [name |-> "as",
   system |-> [cpu |-> [events |-> EventsDict, aliases |-> Aliases, marketing_name |-> "M"]]]

\* The names of another family, with the numbers exchanged and no aliases.
Other ==
  [name |-> Junk,
   system |-> [cpu |-> [events |-> <<<<e1, [number |-> 2]>>, <<e2, [number |-> 1]>>>>]]]

Broken ==
  {Unreadable, Junk, [name |-> "as"], [system |-> Junk], [system |-> [cpu |-> Junk]],
   [system |-> [cpu |-> [name |-> "no events"]]]}

SomeDirectories ==
  {(OwnFile :> Good) @@ (OtherFamily :> Other), (OtherFamily :> Other),
   (Backup :> Other)}
    \cup {(OwnFile :> dict) : dict \in Broken}

SomePaths == {OwnFile, OtherFamily, [id |-> "CACHE", ext |-> ""]}

Defaults == <<e1, alias>>

\* Few enough for the slots there are before claiming them, a fixed event and one that needs
\* an entitlement among them, one event twice with another, and nothing that is known.
SomeRequests ==
  {<<alias>>, Defaults, <<instructions, inst, unknown, alias>>, <<e2, e1, e2>>,
   <<unknown, junk>>}

\* For the numbers of this machine.
ASSUME FormatAssumption == FormatKeepsNumbers

\* tests/cli.rs:45-76 runs `apmc list CACHE` and expects it to succeed and to list fewer
\* events, and README.md:17-20 says the same; main.rs:111-113 calls it a filter.
ListFilters ==
  (command # None /\ command.sub = "list" /\ command.path # None /\ command.path.ext = ""
     /\ db # None /\ OwnFile \in DOMAIN files /\ files[OwnFile] = Good) => db.ok
=============================================================================
