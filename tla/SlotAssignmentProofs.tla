----------------------- MODULE SlotAssignmentProofs -----------------------
(***************************************************************************)
(* assign_slots returns a matching, for any events, masks and number of    *)
(* slots; and for nested masks it leaves an event out only if every        *)
(* assignment would.                                                       *)
(***************************************************************************)
EXTENDS SlotAssignment, FiniteSetTheorems, TLAPS

\* An event still to come has no slot.
TodoUnassigned == \A e \in todo : slot[e] = Unassigned

\* The loop has taken the more constrained events first.
MostConstrainedFirst ==
  \A e \in Events \ todo, f \in todo : valid_count(e) <= valid_count(f)

\* Whatever a skipped event might have used is taken by an event at least as constrained.
SkippedIsBlocked ==
  \A e \in Events \ todo : slot[e] = Unassigned =>
    \A s \in Allowed(e) : \E f \in Events : slot[f] = s /\ valid_count(f) <= valid_count(e)

Inv ==
  /\ TypeOK
  /\ TodoUnassigned
  /\ MostConstrainedFirst
  /\ SkippedIsBlocked
  /\ ResultIsMatching

LEMMA UnassignedIsNoSlot == Unassigned \notin Slots
  BY DEF Unassigned, Slots

LEMMA CountType ==
  ASSUME TypeOK, NEW e \in Events
  PROVE  valid_count(e) \in Nat
<1>1. counters_mask[e] # AnySlot => IsFiniteSet(counters_mask[e])
  BY SlotAssumption DEF TypeOK
<1> QED
  BY <1>1, SlotAssumption, FS_CardinalityType DEF valid_count

LEMMA AllowedAreSlots == \A e \in Events : Allowed(e) \subseteq Slots
  BY DEF Allowed

\* The event reached is at most as constrained as those before it, and at least as
\* constrained as those after it.
LEMMA ReachedIsNext ==
  ASSUME Inv, NEW e \in Events, Reached(e)
  PROVE  /\ \A f \in todo \ {e} : valid_count(e) <= valid_count(f)
         /\ \A f \in Events \ todo : valid_count(f) <= valid_count(e)
<1>1. \A f \in Events : valid_count(f) \in Nat
  BY CountType DEF Inv
<1>2. \A f \in todo \ {e} : f \in Events /\ Before(e, f)
  BY DEF Reached, Inv, TypeOK
<1>3. \A f \in todo \ {e} : valid_count(e) <= valid_count(f)
  BY <1>1, <1>2 DEF Before
<1>4. \A f \in Events \ todo : valid_count(f) <= valid_count(e)
  BY DEF Reached, Inv, MostConstrainedFirst
<1> QED
  BY <1>3, <1>4

LEMMA InitInv == Init => Inv
  BY UnassignedIsNoSlot
     DEF Init, Inv, TypeOK, TodoUnassigned, MostConstrainedFirst, SkippedIsBlocked,
         ResultIsMatching, IsMatching

\* The masks are read only.
LEMMA SameMasks ==
  ASSUME UNCHANGED counters_mask
  PROVE  \A e : valid_count(e)' = valid_count(e) /\ Allowed(e)' = Allowed(e)
  BY DEF valid_count, Allowed

LEMMA AssignStep ==
  ASSUME Inv, NEW e \in Events, Assign(e)
  PROVE  Inv'
<1>1. PICK s \in Free \cap Allowed(e) : slot' = [slot EXCEPT ![e] = s]
  BY DEF Assign
<1>2. todo' = todo \ {e} /\ UNCHANGED counters_mask /\ Reached(e)
  BY DEF Assign
<1>3. \A f : valid_count(f)' = valid_count(f) /\ Allowed(f)' = Allowed(f)
  BY <1>2, SameMasks
<1>4. slot[e] = Unassigned /\ s \in Slots /\ s # Unassigned /\ \A f \in Events : slot[f] # s
  BY <1>1, <1>2, UnassignedIsNoSlot DEF Free, Inv, TodoUnassigned, Reached
<1>5. slot'[e] = s /\ \A f \in Events \ {e} : slot'[f] = slot[f]
  BY <1>1 DEF Inv, TypeOK
<1>6. TypeOK'
  BY <1>1, <1>2, <1>4 DEF Inv, TypeOK
<1>7. TodoUnassigned'
  BY <1>2, <1>5 DEF Inv, TypeOK, TodoUnassigned
<1>8. MostConstrainedFirst'
  BY <1>2, <1>3, ReachedIsNext DEF Inv, TypeOK, MostConstrainedFirst
<1>9. SkippedIsBlocked'
  <2> SUFFICES ASSUME NEW f \in Events \ todo', slot'[f] = Unassigned, NEW r \in Allowed(f)
               PROVE  \E h \in Events : slot'[h] = r /\ valid_count(h) <= valid_count(f)
    BY <1>3 DEF SkippedIsBlocked
  <2>1. f # e /\ f \in Events \ todo /\ slot[f] = Unassigned
    BY <1>2, <1>4, <1>5
  <2>2. PICK h \in Events : slot[h] = r /\ valid_count(h) <= valid_count(f)
    BY <2>1 DEF Inv, SkippedIsBlocked
  <2>3. h # e
    BY <1>4, <2>2, AllowedAreSlots, UnassignedIsNoSlot
  <2> QED
    BY <1>5, <2>2, <2>3
<1>10. ResultIsMatching'
  BY <1>1, <1>3, <1>4, <1>5 DEF Inv, ResultIsMatching, IsMatching
<1> QED
  BY <1>6, <1>7, <1>8, <1>9, <1>10 DEF Inv

LEMMA SkipStep ==
  ASSUME Inv, NEW e \in Events, Skip(e)
  PROVE  Inv'
<1>1. todo' = todo \ {e} /\ UNCHANGED <<counters_mask, slot>> /\ Reached(e)
  BY DEF Skip
<1>2. \A f : valid_count(f)' = valid_count(f) /\ Allowed(f)' = Allowed(f)
  BY <1>1, SameMasks
<1>3. TypeOK' /\ TodoUnassigned'
  BY <1>1 DEF Inv, TypeOK, TodoUnassigned
<1>4. MostConstrainedFirst'
  BY <1>1, <1>2, ReachedIsNext DEF Inv, TypeOK, MostConstrainedFirst
<1>5. SkippedIsBlocked'
  <2> SUFFICES ASSUME NEW f \in Events \ todo', slot[f] = Unassigned, NEW r \in Allowed(f)
               PROVE  \E h \in Events : slot[h] = r /\ valid_count(h) <= valid_count(f)
    BY <1>1, <1>2 DEF SkippedIsBlocked
  <2>1. CASE f # e
    BY <1>1, <2>1 DEF Inv, SkippedIsBlocked
  <2>2. CASE f = e
    <3>1. PICK h \in Events : slot[h] = r
      BY <2>2, AllowedAreSlots DEF Skip, Free
    <3>2. h \notin todo
      BY <3>1, AllowedAreSlots, UnassignedIsNoSlot DEF Inv, TodoUnassigned
    <3> QED
      BY <1>1, <2>2, <3>1, <3>2, ReachedIsNext
  <2> QED
    BY <2>1, <2>2
<1>6. ResultIsMatching'
  BY <1>1, <1>2 DEF Inv, ResultIsMatching, IsMatching
<1> QED
  BY <1>3, <1>4, <1>5, <1>6 DEF Inv

LEMMA StutterStep ==
  ASSUME Inv, UNCHANGED vars
  PROVE  Inv'
<1>1. UNCHANGED <<counters_mask, todo, slot>>
  BY DEF vars
<1>2. \A f : valid_count(f)' = valid_count(f) /\ Allowed(f)' = Allowed(f)
  BY <1>1, SameMasks
<1> QED
  BY <1>1, <1>2 DEF Inv, TypeOK, TodoUnassigned, MostConstrainedFirst, SkippedIsBlocked,
                    ResultIsMatching, IsMatching

LEMMA Invariant == Spec => []Inv
<1>1. Inv /\ [Next]_vars => Inv'
  BY AssignStep, SkipStep, StutterStep DEF Next, Finished
<1> QED
  BY <1>1, InitInv, PTL DEF Spec

\* The loop only ever writes slots of the range it was given into result, for events that
\* it was given (kpc.rs:274-295).
THEOREM TypeInvariant == Spec => []TypeOK
<1>1. Inv => TypeOK
  BY DEF Inv
<1> QED
  BY <1>1, Invariant, PTL

\* The events that are programmed have slots of their own, among those that can
\* count them, for any number of events and slots and any masks.
THEOREM AssignmentIsMatching == Spec => []ResultIsMatching
<1>1. Inv => ResultIsMatching
  BY DEF Inv
<1> QED
  BY <1>1, Invariant, PTL

\* Pigeonhole: a skipped event and the events in its way are one more than the slots
\* that they could share.
LEMMA BlockedHasNoMatching ==
  ASSUME Inv, MasksNested, NEW e \in Events \ todo, slot[e] = Unassigned,
         NEW g \in [Events -> Slots], IsMatching(g, Events)
  PROVE  FALSE
<1> DEFINE U == Allowed(e)
           A == {f \in Events : slot[f] \in U /\ valid_count(f) <= valid_count(e)}
           S == A \cup {e}
<1>1. IsFiniteSet(A) /\ IsFiniteSet(U)
  <2>1. IsFiniteSet(Events) /\ IsFiniteSet(Slots)
    BY SlotAssumption, FS_Interval DEF Events, Slots
  <2> QED
    BY <2>1, FS_Subset, AllowedAreSlots
<1>2. e \notin A
  BY AllowedAreSlots, UnassignedIsNoSlot
<1>3. Cardinality(U) <= Cardinality(A)
  <2> DEFINE held == [f \in A |-> slot[f]]
  <2>1. held \in Surjection(A, U)
    BY DEF Inv, SkippedIsBlocked, Surjection
  <2> QED
    BY <1>1, <2>1, FS_Surjection
<1>4. IsFiniteSet(S) /\ Cardinality(S) = Cardinality(A) + 1
  BY <1>1, <1>2, FS_AddElement
<1>5. Cardinality(U) < Cardinality(S)
  BY <1>1, <1>3, <1>4, FS_CardinalityType
<1>6. \A f \in S : f \in Events /\ g[f] \in U
  <2>1. ASSUME NEW f \in A PROVE g[f] \in U
    <3>1. slot[f] \in Allowed(f)
      BY AllowedAreSlots, UnassignedIsNoSlot DEF Inv, ResultIsMatching, IsMatching
    <3>2. Allowed(f) \subseteq U
      BY <3>1 DEF MasksNested
    <3> QED
      BY <3>2 DEF IsMatching
  <2> QED
    BY <2>1 DEF IsMatching
<1> DEFINE h == [f \in S |-> g[f]]
<1>7. h \in [S -> U]
  BY <1>6
<1>8. PICK x \in S, y \in S : x # y /\ h[x] = h[y]
  <2> HIDE DEF S, U, h
  <2> QED
    BY <1>1, <1>4, <1>5, <1>7, FS_PigeonHole
<1> QED
  BY <1>6, <1>8 DEF IsMatching

\* When masks are nested, taking the most constrained events first is enough: an
\* event is skipped only if no assignment places them all.
THEOREM SkipsAreUnavoidable == Spec => []SkipsOnlyIfUnavoidable
<1>1. Inv => SkipsOnlyIfUnavoidable
  BY BlockedHasNoMatching DEF SkipsOnlyIfUnavoidable
<1> QED
  BY <1>1, Invariant, PTL
=============================================================================
