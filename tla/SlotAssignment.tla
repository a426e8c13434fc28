-------------------------- MODULE SlotAssignment --------------------------
(***************************************************************************)
(* KpcManager::assign_slots (kpc.rs): the configurable events are taken in *)
(* order of how few counter slots can count them, and each gets the lowest *)
(* free slot its counters_mask allows, or is skipped.                      *)
(***************************************************************************)
EXTENDS Integers, FiniteSets

CONSTANTS
  NumEvents,   \* events.len()
  NSlots,      \* n_slots
  Masks,       \* the counters_mask values that events may have, as sets of slots
  AnySlot      \* counters_mask is None

ASSUME SlotAssumption ==
  /\ NumEvents \in Nat /\ NSlots \in Nat
  /\ \A M \in Masks : M \subseteq Nat /\ IsFiniteSet(M)

VARIABLES
  counters_mask,   \* of each event
  todo,            \* events of by_constraint the loop has not reached
  slot             \* slot of each event in result, or Unassigned

vars == <<counters_mask, todo, slot>>

Events == 1 .. NumEvents
Slots == 0 .. NSlots - 1
Unassigned == -1

Init ==
  /\ counters_mask \in [Events -> Masks \cup {AnySlot}]
  /\ todo = Events
  /\ slot = [e \in Events |-> Unassigned]

valid_count(e) ==
  IF counters_mask[e] = AnySlot THEN NSlots ELSE Cardinality(counters_mask[e])

\* Mutant: no sort.
BeforeUnsorted(e, f) == e < f

\* The sort is stable: of two events as constrained, the first stays first.
Before(e, f) ==
  valid_count(e) < valid_count(f) \/ (valid_count(e) = valid_count(f) /\ e < f)

\* The event the loop has reached.
Reached(e) == e \in todo /\ \A f \in todo \ {e} : Before(e, f)

\* Bits of the mask beyond the last slot allow nothing.
Allowed(e) == IF counters_mask[e] = AnySlot THEN Slots ELSE counters_mask[e] \cap Slots

\* Mutant: used is never set.
FreeAlways == Slots

Free == Slots \ {slot[f] : f \in Events}

Assign(e) ==
  /\ Reached(e)
  /\ \E s \in Free \cap Allowed(e) :
       /\ \A r \in Free \cap Allowed(e) : s <= r
       /\ slot' = [slot EXCEPT ![e] = s]
  /\ todo' = todo \ {e}
  /\ UNCHANGED counters_mask

\* Mutant: an event without a slot is kept, at the end.
SkipKept(e) ==
  /\ Reached(e)
  /\ Free \cap Allowed(e) = {}
  /\ todo' = todo \ {e}
  /\ slot' = [slot EXCEPT ![e] = NSlots]
  /\ UNCHANGED counters_mask

Skip(e) ==
  /\ Reached(e)
  /\ Free \cap Allowed(e) = {}
  /\ todo' = todo \ {e}
  /\ UNCHANGED <<counters_mask, slot>>

Finished == todo = {} /\ UNCHANGED vars

Next == (\E e \in Events : Assign(e) \/ Skip(e)) \/ Finished

Spec == Init /\ [][Next]_vars

----------------------------------------------------------------------------
(* Properties.                                                             *)

TypeOK ==
  /\ counters_mask \in [Events -> Masks \cup {AnySlot}]
  /\ todo \subseteq Events
  /\ slot \in [Events -> Slots \cup {Unassigned}]

\* An assignment of some of the events to slots that the hardware can count them
\* in, no slot twice.
IsMatching(g, placed) ==
  /\ \A e \in placed : g[e] \in Allowed(e)
  /\ \A e, f \in placed : g[e] = g[f] => e = f

\* The events of result are programmed into different slots, each of which can count
\* its event (kpc.rs:237-244 writes config[slot] unchecked).
ResultIsMatching == IsMatching(slot, {e \in Events : slot[e] # Unassigned})

\* Masks that do not cross: of two events, the slots of the more constrained one
\* all suit the other, or none does.  So it is on every CPU that COUNTERS.md
\* documents: 0x80, then 0xe0 or 0xfc, then any slot.
MasksNested ==
  \A e, f \in Events :
    valid_count(f) <= valid_count(e) =>
      Allowed(f) \subseteq Allowed(e) \/ Allowed(f) \cap Allowed(e) = {}

\* Taking the most constrained events first avoids every avoidable conflict
\* (kpc.rs:259-262) when masks are nested: an event is skipped only if there is no way
\* to place all of them.
SkipsOnlyIfUnavoidable ==
  (MasksNested /\ \E e \in Events \ todo : slot[e] = Unassigned)
    => ~ \E g \in [Events -> Slots] : IsMatching(g, Events)
=============================================================================
