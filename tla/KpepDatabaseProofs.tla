------------------------- MODULE KpepDatabaseProofs -------------------------
(***************************************************************************)
(* What parse, the lookup by name and the listing do with any dictionary,  *)
(* and the facts about naturals and finite sets that this and the proofs   *)
(* about the counters rest on.  Induction is over sets of naturals, by the *)
(* least member that they lack.                                            *)
(***************************************************************************)
EXTENDS KpepDatabase, FiniteSetTheorems, FunctionTheorems, WellFoundedInduction, TLAPS

----------------------------------------------------------------------------
(* Naturals.                                                               *)

LEMMA LeastNatural ==
  ASSUME NEW T, T \subseteq Nat, T # {}
  PROVE  \E x \in T : \A y \in T : x <= y
<1> DEFINE less == {pair \in Nat \X Nat : pair[1] < pair[2]}
<1>1. IsWellFoundedOn(less, Nat)
  BY NatLessThanWellFounded DEF OpToRel
<1>2. \E x \in T : \A y \in T : ~(<<y, x>> \in less)
  <2> HIDE DEF less
  <2> QED
    BY <1>1, WFMin
<1>3. PICK x \in T : \A y \in T : ~(<<y, x>> \in less)
  BY <1>2
<1>4. ASSUME NEW y \in T, ~(x <= y) PROVE FALSE
  <2>1. x \in Nat /\ y \in Nat /\ y < x
    BY <1>4
  <2>2. <<y, x>> \in Nat \X Nat /\ <<y, x>>[1] < <<y, x>>[2]
    BY <2>1
  <2>3. <<y, x>> \in less
    BY <2>2
  <2> HIDE DEF less
  <2> QED
    BY <1>3, <2>3
<1> QED
  BY <1>4

LEMMA Induction ==
  ASSUME NEW S, 0 \in S, \A n \in Nat : n \in S => n + 1 \in S
  PROVE  Nat \subseteq S
<1> SUFFICES ASSUME Nat \ S # {} PROVE FALSE
  OBVIOUS
<1>1. PICK x \in Nat \ S : \A y \in Nat \ S : x <= y
  BY LeastNatural
<1>2. x # 0 /\ x - 1 \in Nat /\ (x - 1) + 1 = x
  BY <1>1
<1>3. x - 1 \in S
  BY <1>1, <1>2
<1> QED
  BY <1>1, <1>2, <1>3

\* Rows of n, one after the other.
LEMMA RowAndColumn ==
  ASSUME NEW row \in Nat, NEW n \in Nat, NEW i \in 0 .. n - 1
  PROVE  (row * n + i) \div n = row /\ (row * n + i) % n = i
  OBVIOUS

LEMMA RowFits ==
  ASSUME NEW rows \in Nat, NEW row \in 0 .. rows - 1, NEW n \in Nat, NEW i \in 0 .. n - 1
  PROVE  row * n + i \in 0 .. rows * n - 1
<1>1. row * n \in Nat /\ (row + 1) * n = row * n + n /\ (row + 1) * n <= rows * n
  OBVIOUS
<1>2. rows * n \in Nat
  OBVIOUS
<1> QED
  BY <1>1, <1>2

\* No row is beyond the last one.
LEMMA RowBeyond ==
  ASSUME NEW rows \in Nat, NEW row \in Nat, row >= rows, NEW n \in Nat, NEW i \in 0 .. n - 1
  PROVE  row * n + i \notin 0 .. rows * n - 1
<1>1. rows * n \in Nat /\ row * n \in Nat /\ rows * n <= row * n
  OBVIOUS
<1> QED
  BY <1>1

----------------------------------------------------------------------------
(* Wrapping.                                                               *)

LEMMA ModOfMultiple ==
  ASSUME NEW M \in Nat \ {0}, NEW q \in Int, NEW r \in 0 .. M - 1
  PROVE  (M * q + r) % M = r
  OBVIOUS

LEMMA ModQuotient ==
  ASSUME NEW M \in Nat \ {0}, NEW x \in Int
  PROVE  x % M \in 0 .. M - 1 /\ \E q \in Int : x = M * q + (x % M)
<1>1. x % M \in 0 .. M - 1 /\ x \div M \in Int
  OBVIOUS
<1>2. x = M * (x \div M) + (x % M)
  OBVIOUS
<1>3. PICK q \in Int : q = x \div M
  BY <1>1
<1>4. x = M * q + (x % M)
  BY <1>2, <1>3
<1> QED
  BY <1>1, <1>4
----------------------------------------------------------------------------
(* Finite sets in order.                                                   *)

LEMMA SmallerSubset ==
  ASSUME NEW T, IsFiniteSet(T), NEW S \in SUBSET T, S # T
  PROVE  /\ Cardinality(S) \in Nat /\ Cardinality(T) \in Nat
         /\ Cardinality(S) < Cardinality(T)
<1>1. IsFiniteSet(S) /\ Cardinality(S) <= Cardinality(T) /\ Cardinality(S) # Cardinality(T)
  BY FS_Subset
<1>2. Cardinality(S) \in Nat /\ Cardinality(T) \in Nat
  BY <1>1, FS_CardinalityType
<1> QED
  BY <1>1, <1>2

\* Where before[x] are the predecessors of x in a strict total order of S, each number below
\* the size of S is the number of predecessors of exactly one member.
LEMMA Ranking ==
  ASSUME NEW S, IsFiniteSet(S), NEW before \in [S -> SUBSET S],
         \A x \in S : x \notin before[x],
         \A x, y \in S : x # y => x \in before[y] \/ y \in before[x],
         \A x, y \in S : x \in before[y] => before[x] \subseteq before[y]
  PROVE  /\ Cardinality(S) \in Nat
         /\ \A x \in S : Cardinality(before[x]) \in 0 .. Cardinality(S) - 1
         /\ \A n \in 0 .. Cardinality(S) - 1 : \E x \in S : Cardinality(before[x]) = n
         /\ \A x, y \in S : x \in before[y] => Cardinality(before[x]) < Cardinality(before[y])
         /\ \A x, y \in S : Cardinality(before[x]) = Cardinality(before[y]) => x = y
<1> DEFINE N == Cardinality(S)
           pos == [x \in S |-> Cardinality(before[x])]
<1>1. N \in Nat
  BY FS_CardinalityType
<1>2. \A x \in S : IsFiniteSet(before[x]) /\ Cardinality(before[x]) \in 0 .. N - 1
  <2> SUFFICES ASSUME NEW x \in S
               PROVE  IsFiniteSet(before[x]) /\ Cardinality(before[x]) \in 0 .. N - 1
    OBVIOUS
  <2>1. before[x] \in SUBSET S /\ before[x] # S
    OBVIOUS
  <2>2. IsFiniteSet(before[x])
    BY <2>1, FS_Subset
  <2>3. Cardinality(before[x]) \in Nat /\ Cardinality(before[x]) < N
    BY <2>1, SmallerSubset
  <2> QED
    BY <1>1, <2>2, <2>3
<1>3. ASSUME NEW x \in S, NEW y \in S, x \in before[y]
      PROVE  Cardinality(before[x]) < Cardinality(before[y])
  <2>1. before[x] \in SUBSET before[y] /\ before[x] # before[y]
    BY <1>3
  <2> QED
    BY <1>2, <2>1, SmallerSubset
<1>4. ASSUME NEW x \in S, NEW y \in S, Cardinality(before[x]) = Cardinality(before[y])
      PROVE  x = y
  <2>1. Cardinality(before[x]) \in Int
    BY <1>2
  <2>2. ~(Cardinality(before[x]) < Cardinality(before[y]))
        /\ ~(Cardinality(before[y]) < Cardinality(before[x]))
    BY <1>4, <2>1
  <2> QED
    BY <1>3, <2>2
<1>5. pos \in Injection(S, 0 .. N - 1)
  <2>1. pos \in [S -> 0 .. N - 1]
    BY <1>2
  <2>2. \A x, y \in S : pos[x] = pos[y] => x = y
    BY <1>4
  <2> QED
    BY <2>1, <2>2 DEF Injection, IsInjective
<1>6. IsFiniteSet(0 .. N - 1) /\ Cardinality(0 .. N - 1) = N
  <2> HIDE DEF N
  <2>1. N - 1 \in Int
    BY <1>1
  <2>2. IsFiniteSet(0 .. N - 1)
        /\ Cardinality(0 .. N - 1) = IF 0 > N - 1 THEN 0 ELSE (N - 1) - 0 + 1
    BY <2>1, FS_Interval
  <2> QED
    BY <1>1, <2>2
<1>7. pos \in Surjection(S, 0 .. N - 1)
  BY <1>5, <1>6, FS_Injection
<1>8. \A n \in 0 .. N - 1 : \E x \in S : Cardinality(before[x]) = n
  BY <1>7 DEF Surjection
<1> QED
  BY <1>1, <1>2, <1>3, <1>4, <1>8
\* The members in that order.
LEMMA Enumeration ==
  ASSUME NEW S, IsFiniteSet(S), NEW before \in [S -> SUBSET S],
         \A x \in S : x \notin before[x],
         \A x, y \in S : x # y => x \in before[y] \/ y \in before[x],
         \A x, y \in S : x \in before[y] => before[x] \subseteq before[y],
         NEW order,
         order = [k \in 1 .. Cardinality(S) |-> CHOOSE x \in S : Cardinality(before[x]) = k - 1]
  PROVE  /\ Cardinality(S) \in Nat
         /\ order \in [1 .. Cardinality(S) -> S]
         /\ \A x \in S : \E k \in 1 .. Cardinality(S) : order[k] = x
         /\ \A j, k \in 1 .. Cardinality(S) : j < k => order[j] \in before[order[k]]
         /\ \A j, k \in 1 .. Cardinality(S) : order[j] = order[k] => j = k
<1>1. /\ Cardinality(S) \in Nat
      /\ \A x \in S : Cardinality(before[x]) \in 0 .. Cardinality(S) - 1
      /\ \A n \in 0 .. Cardinality(S) - 1 : \E x \in S : Cardinality(before[x]) = n
      /\ \A x, y \in S : x \in before[y] => Cardinality(before[x]) < Cardinality(before[y])
      /\ \A x, y \in S : Cardinality(before[x]) = Cardinality(before[y]) => x = y
  BY Ranking
<1>2. ASSUME NEW k \in 1 .. Cardinality(S)
      PROVE  order[k] \in S /\ Cardinality(before[order[k]]) = k - 1
  <2>1. k - 1 \in 0 .. Cardinality(S) - 1
    BY <1>1
  <2>2. \E x \in S : Cardinality(before[x]) = k - 1
    BY <1>1, <2>1
  <2>3. order[k] = CHOOSE x \in S : Cardinality(before[x]) = k - 1
    OBVIOUS
  <2> QED
    BY <2>2, <2>3
<1>3. order \in [1 .. Cardinality(S) -> S]
  BY <1>2
<1>4. ASSUME NEW x \in S PROVE \E k \in 1 .. Cardinality(S) : order[k] = x
  <2> DEFINE k == Cardinality(before[x]) + 1
  <2>1. k \in 1 .. Cardinality(S) /\ k - 1 = Cardinality(before[x])
    BY <1>1
  <2>2. order[k] \in S /\ Cardinality(before[order[k]]) = k - 1
    BY <1>2, <2>1
  <2>3. order[k] = x
    BY <1>1, <2>1, <2>2
  <2> QED
    BY <2>1, <2>3
<1>5. ASSUME NEW j \in 1 .. Cardinality(S), NEW k \in 1 .. Cardinality(S), order[j] = order[k]
      PROVE  j = k
  <2>1. j - 1 = k - 1
    BY <1>2, <1>5
  <2> QED
    BY <2>1
<1>6. ASSUME NEW j \in 1 .. Cardinality(S), NEW k \in 1 .. Cardinality(S), j < k
      PROVE  order[j] \in before[order[k]]
  <2>1. order[j] \in S /\ order[k] \in S /\ order[j] # order[k]
    BY <1>2, <1>5, <1>6
  <2>2. Cardinality(before[order[j]]) = j - 1 /\ Cardinality(before[order[k]]) = k - 1
    BY <1>2
  <2>3. ~(Cardinality(before[order[k]]) < Cardinality(before[order[j]]))
    BY <1>6, <2>2
  <2>4. order[k] \notin before[order[j]]
    BY <1>1, <2>1, <2>3
  <2> QED
    BY <2>1, <2>4
<1> QED
  BY <1>1, <1>3, <1>4, <1>5, <1>6

----------------------------------------------------------------------------
(* Ordered and Filter.                                                     *)

\* The indices that are kept, in ascending order.
LEMMA Ascending ==
  ASSUME NEW n \in Nat, NEW kept \in SUBSET (1 .. n), NEW order,
         order = Ordered([i \in kept |-> {j \in kept : j < i}])
  PROVE  /\ Cardinality(kept) \in Nat
         /\ order \in [1 .. Cardinality(kept) -> kept]
         /\ \A i \in kept : \E k \in 1 .. Cardinality(kept) : order[k] = i
         /\ \A j, k \in 1 .. Cardinality(kept) : j < k => order[j] < order[k]
         /\ \A j, k \in 1 .. Cardinality(kept) : order[j] = order[k] => j = k
<1> DEFINE before == [i \in kept |-> {j \in kept : j < i}]
<1>1. IsFiniteSet(kept)
  <2>1. IsFiniteSet(1 .. n)
    BY FS_Interval
  <2> QED
    BY <2>1, FS_Subset
<1>2. /\ before \in [kept -> SUBSET kept]
      /\ \A x \in kept : x \notin before[x]
      /\ \A x, y \in kept : x # y => x \in before[y] \/ y \in before[x]
      /\ \A x, y \in kept : x \in before[y] => before[x] \subseteq before[y]
      /\ \A x, y \in kept : x \in before[y] => x < y
  <2>1. \A i, j \in kept : j \in before[i] <=> j < i
    OBVIOUS
  <2>2. before \in [kept -> SUBSET kept] /\ kept \subseteq Int
    OBVIOUS
  <2> HIDE DEF before
  <2>3. ASSUME NEW x \in kept, NEW y \in kept, x \in before[y] PROVE before[x] \subseteq before[y]
    <3>1. x < y /\ x \in Int /\ y \in Int
      BY <2>1, <2>2, <2>3
    <3>2. \A z \in before[x] : z \in kept
      BY <2>2
    <3>3. \A z \in before[x] : z \in kept /\ z < y
      BY <2>1, <2>2, <3>1, <3>2
    <3>4. \A z \in kept : z \in before[y] <=> z < y
      BY <2>1
    <3> QED
      BY <3>3, <3>4
  <2>4. \A x, y \in kept : x # y => x \in before[y] \/ y \in before[x]
    BY <2>1, <2>2
  <2> QED
    BY <2>1, <2>2, <2>3, <2>4
<1>3. order = [k \in 1 .. Cardinality(kept) |-> CHOOSE x \in kept : Cardinality(before[x]) = k - 1]
  BY DEF Ordered
<1> HIDE DEF before
<1>4. /\ Cardinality(kept) \in Nat
      /\ order \in [1 .. Cardinality(kept) -> kept]
      /\ \A x \in kept : \E k \in 1 .. Cardinality(kept) : order[k] = x
      /\ \A j, k \in 1 .. Cardinality(kept) : j < k => order[j] \in before[order[k]]
      /\ \A j, k \in 1 .. Cardinality(kept) : order[j] = order[k] => j = k
  BY <1>1, <1>2, <1>3, Enumeration
<1> QED
  BY <1>2, <1>4

\* order goes through the indices that are kept, and Filter through what is there.
Selects(order, s, kept) ==
  LET m == Cardinality(kept)
  IN  /\ m \in Nat /\ order \in [1 .. m -> kept]
      /\ DOMAIN Filter(s, kept) = 1 .. m
      /\ Filter(s, kept) \in Seq({s[i] : i \in kept})
      /\ \A k \in 1 .. m : Filter(s, kept)[k] = s[order[k]]
      /\ \A i \in kept : \E k \in 1 .. m : order[k] = i
      /\ \A j, k \in 1 .. m : j < k => order[j] < order[k]
      /\ \A j, k \in 1 .. m : order[j] = order[k] => j = k

LEMMA Filtered ==
  ASSUME NEW n \in Nat, NEW kept \in SUBSET (1 .. n), NEW s
  PROVE  \E order : Selects(order, s, kept)
<1> DEFINE order == Ordered([i \in kept |-> {j \in kept : j < i}])
<1>1. Filter(s, kept) = [k \in DOMAIN order |-> s[order[k]]]
  BY DEF Filter
<1> HIDE DEF order
<1>2. /\ Cardinality(kept) \in Nat
      /\ order \in [1 .. Cardinality(kept) -> kept]
      /\ \A i \in kept : \E k \in 1 .. Cardinality(kept) : order[k] = i
      /\ \A j, k \in 1 .. Cardinality(kept) : j < k => order[j] < order[k]
      /\ \A j, k \in 1 .. Cardinality(kept) : order[j] = order[k] => j = k
  BY Ascending DEF order
<1>3. /\ DOMAIN Filter(s, kept) = 1 .. Cardinality(kept)
      /\ \A k \in 1 .. Cardinality(kept) : Filter(s, kept)[k] = s[order[k]]
  BY <1>1, <1>2
<1>4. Filter(s, kept) \in Seq({s[i] : i \in kept})
  <2> DEFINE found == {s[i] : i \in kept}
             m == Cardinality(kept)
  <2>1. \A k \in 1 .. m : s[order[k]] \in found
    BY <1>2
  <2>2. Filter(s, kept) = [k \in 1 .. m |-> s[order[k]]] /\ m \in Nat
    BY <1>1, <1>2
  <2> HIDE DEF found, m
  <2>3. Filter(s, kept) \in [1 .. m -> found]
    BY <2>1, <2>2
  <2>4. Filter(s, kept) \in Seq(found)
    BY <2>2, <2>3
  <2> QED
    BY <2>4 DEF found
<1>5. Selects(order, s, kept)
  BY <1>2, <1>3, <1>4 DEF Selects
<1> QED
  BY <1>5

\* What sort_by_number compares.
Key(e) == IF e.number = None THEN -1 ELSE e.number

\* sort_by_number is a permutation with ascending keys.
LEMMA SortedByNumber ==
  ASSUME NEW n \in Nat, NEW events, DOMAIN events = 1 .. n,
         \A i \in 1 .. n : Key(events[i]) \in Int
  PROVE  \E order \in [1 .. n -> 1 .. n] :
           /\ DOMAIN sort_by_number(events) = 1 .. n
           /\ sort_by_number(events) \in Seq({events[i] : i \in 1 .. n})
           /\ \A k \in 1 .. n : sort_by_number(events)[k] = events[order[k]]
           /\ \A i \in 1 .. n : \E k \in 1 .. n : order[k] = i
           /\ \A j, k \in 1 .. n : order[j] = order[k] => j = k
           /\ \A j, k \in 1 .. n : j < k => Key(events[order[j]]) <= Key(events[order[k]])
<1> DEFINE S == 1 .. n
           key == [i \in S |-> Key(events[i])]
           before == [i \in S |-> {j \in S : key[j] < key[i] \/ (key[j] = key[i] /\ j < i)}]
           order == Ordered(before)
<1>1. sort_by_number(events) = [k \in 1 .. n |-> events[order[k]]]
  BY DEF sort_by_number, Key
<1>2. key \in [S -> Int] /\ \A i \in S : key[i] = Key(events[i])
  OBVIOUS
<1>3. /\ before \in [S -> SUBSET S]
      /\ \A i, j \in S : j \in before[i] <=> key[j] < key[i] \/ (key[j] = key[i] /\ j < i)
      /\ order = Ordered(before)
  OBVIOUS
<1> HIDE DEF key, before, order
<1>4. S \subseteq Int
  OBVIOUS
<1>5. IsFiniteSet(S)
  BY FS_Interval
<1>6. Cardinality(S) = n
  BY FS_Interval
<1> HIDE DEF S
<1>7. \A x \in S : x \notin before[x]
  BY <1>2, <1>3, <1>4
<1>8. \A x, y \in S : x # y => x \in before[y] \/ y \in before[x]
  BY <1>2, <1>3, <1>4
<1>9. \A x, y \in S : x \in before[y] => before[x] \subseteq before[y]
  <2> SUFFICES ASSUME NEW x \in S, NEW y \in S, x \in before[y], NEW z \in before[x]
               PROVE  z \in before[y]
    OBVIOUS
  <2>1. z \in S
    BY <1>3
  <2> QED
    BY <1>2, <1>3, <1>4, <2>1
<1>10. order = [k \in 1 .. Cardinality(S) |-> CHOOSE x \in S : Cardinality(before[x]) = k - 1]
  BY <1>3 DEF Ordered
<1>11. /\ Cardinality(S) \in Nat
       /\ order \in [1 .. Cardinality(S) -> S]
       /\ \A x \in S : \E k \in 1 .. Cardinality(S) : order[k] = x
       /\ \A j, k \in 1 .. Cardinality(S) : j < k => order[j] \in before[order[k]]
       /\ \A j, k \in 1 .. Cardinality(S) : order[j] = order[k] => j = k
  BY <1>3, <1>5, <1>7, <1>8, <1>9, <1>10, Enumeration
<1>12. /\ order \in [1 .. n -> S]
       /\ \A x \in S : \E k \in 1 .. n : order[k] = x
       /\ \A j, k \in 1 .. n : j < k => order[j] \in before[order[k]]
       /\ \A j, k \in 1 .. n : order[j] = order[k] => j = k
  BY <1>6, <1>11
<1>13. ASSUME NEW j \in 1 .. n, NEW k \in 1 .. n, j < k
       PROVE  Key(events[order[j]]) <= Key(events[order[k]])
  <2>1. order[j] \in S /\ order[k] \in S /\ order[j] \in before[order[k]]
    BY <1>12, <1>13
  <2>2. key[order[j]] < key[order[k]] \/ key[order[j]] = key[order[k]]
    BY <1>3, <2>1
  <2>3. key[order[j]] \in Int /\ key[order[k]] \in Int
    BY <1>2, <2>1
  <2>4. key[order[j]] = Key(events[order[j]]) /\ key[order[k]] = Key(events[order[k]])
    BY <1>2, <2>1
  <2> QED
    BY <2>2, <2>3, <2>4
<1>14. sort_by_number(events) \in Seq({events[i] : i \in 1 .. n})
  <2> DEFINE found == {events[i] : i \in 1 .. n}
  <2>1. sort_by_number(events) \in [1 .. n -> found]
    BY <1>1, <1>12 DEF S
  <2> HIDE DEF found
  <2>2. sort_by_number(events) \in Seq(found)
    BY <2>1
  <2> QED
    BY <2>2 DEF found
<1> QED
  BY <1>1, <1>12, <1>13, <1>14 DEF S
----------------------------------------------------------------------------
(* parse.                                                                  *)

events_dict(root) == get(get(get(root, "system"), "cpu"), "events")

\* Which entries of the dictionary become events, and in which order: from[k] is the entry
\* of the k-th event.
Order(root, m, from) ==
  LET dict == events_dict(root)
      events == load_from_path(root).value.events
  IN  /\ m \in Nat /\ from \in [1 .. m -> DOMAIN dict]
      /\ DOMAIN events = 1 .. m /\ Len(events) = m
      /\ \A k \in 1 .. m : events[k] = event(dict[from[k]][1], dict[from[k]][2])
      /\ \A k \in 1 .. m : dict[from[k]][2] # Junk
      /\ \A i \in DOMAIN dict : dict[i][2] # Junk => \E k \in 1 .. m : from[k] = i
      /\ \A j, k \in 1 .. m : from[j] = from[k] => j = k
      /\ \A j, k \in 1 .. m : j < k => Key(events[j]) <= Key(events[k])

LEMMA ParseSucceeds ==
  ASSUME NEW root, IsContents(root), load_from_path(root).ok
  PROVE  /\ events_dict(root) \in Seq(Range(events_dict(root)))
         /\ \A i, j \in DOMAIN events_dict(root) :
              events_dict(root)[i][1] = events_dict(root)[j][1] => i = j
         /\ \A i \in DOMAIN events_dict(root) : events_dict(root)[i][2] # Junk =>
              get(events_dict(root)[i][2], "number") \in Nat \cup {None}
         /\ load_from_path(root).value.events = parsed_events(events_dict(root))
         /\ root # Unreadable /\ root # Junk /\ events_dict(root) # None
         /\ get(root, "system") # None /\ get(get(root, "system"), "cpu") # None
<1>1. root # Unreadable /\ load_from_path(root) = parse(root) /\ parse(root).ok
  BY DEF load_from_path, Err
<1>2. /\ root # Junk /\ get(root, "system") # None /\ get(get(root, "system"), "cpu") # None
      /\ events_dict(root) # None
      /\ parse(root).value.events = parsed_events(events_dict(root))
  BY <1>1 DEF parse, Ok, Err, events_dict
<1> QED
  BY <1>1, <1>2 DEF IsContents, events_dict

LEMMA NumberFits ==
  ASSUME NEW name, NEW dict, get(dict, "number") \in Nat \cup {None}
  PROVE  /\ event(name, dict).number \in 0 .. U16 - 1 \cup {None}
         /\ (event(name, dict).number = None) <=> (get(dict, "number") = None)
         /\ Key(event(name, dict)) \in Int
<1>1. event(name, dict).number = AsU16(get(dict, "number"))
  BY DEF event
<1>2. \A n \in Nat : n % U16 \in 0 .. U16 - 1
  BY DatabaseAssumption
<1> QED
  BY <1>1, <1>2, DatabaseAssumption DEF AsU16, Key

LEMMA ParsedInOrder ==
  ASSUME NEW root, IsContents(root), load_from_path(root).ok
  PROVE  \E m, from : Order(root, m, from)
<1> DEFINE dict == events_dict(root)
           kept == {i \in DOMAIN dict : dict[i][2] # Junk}
           n == Len(dict)
           m == Cardinality(kept)
           dicts == Filter(dict, kept)
           unsorted == [i \in DOMAIN dicts |-> event(dicts[i][1], dicts[i][2])]
<1>1. /\ dict \in Seq(Range(dict))
      /\ \A i \in kept : get(dict[i][2], "number") \in Nat \cup {None}
      /\ load_from_path(root).value.events = sort_by_number(unsorted)
  BY ParseSucceeds DEF parsed_events
<1>2. n \in Nat /\ DOMAIN dict = 1 .. n /\ kept \in SUBSET (1 .. n)
  BY <1>1
<1>3. \A i \in DOMAIN dict : i \in kept <=> dict[i][2] # Junk
  OBVIOUS
<1>4. DOMAIN unsorted = DOMAIN dicts
      /\ \A i \in DOMAIN dicts : unsorted[i] = event(dicts[i][1], dicts[i][2])
  OBVIOUS
<1> HIDE DEF dict, n, kept, unsorted
<1>5. PICK first : Selects(first, dict, kept)
  BY <1>2, Filtered
<1>6. /\ m \in Nat /\ first \in [1 .. m -> kept]
      /\ DOMAIN dicts = 1 .. m
      /\ \A k \in 1 .. m : dicts[k] = dict[first[k]]
      /\ \A i \in kept : \E k \in 1 .. m : first[k] = i
      /\ \A j, k \in 1 .. m : first[j] = first[k] => j = k
  BY <1>5 DEF Selects
<1> HIDE DEF m, dicts
<1>7. /\ DOMAIN unsorted = 1 .. m
      /\ \A k \in 1 .. m : unsorted[k] = event(dict[first[k]][1], dict[first[k]][2])
  BY <1>4, <1>6
<1>8. \A k \in 1 .. m : Key(unsorted[k]) \in Int
  <2> SUFFICES ASSUME NEW k \in 1 .. m PROVE Key(unsorted[k]) \in Int
    OBVIOUS
  <2>1. first[k] \in kept
    BY <1>6
  <2> QED
    BY <1>1, <1>7, <2>1, NumberFits
<1>9. PICK second \in [1 .. m -> 1 .. m] :
           /\ DOMAIN sort_by_number(unsorted) = 1 .. m
           /\ sort_by_number(unsorted) \in Seq({unsorted[i] : i \in 1 .. m})
           /\ \A k \in 1 .. m : sort_by_number(unsorted)[k] = unsorted[second[k]]
           /\ \A i \in 1 .. m : \E k \in 1 .. m : second[k] = i
           /\ \A j, k \in 1 .. m : second[j] = second[k] => j = k
           /\ \A j, k \in 1 .. m : j < k => Key(unsorted[second[j]]) <= Key(unsorted[second[k]])
  BY <1>6, <1>7, <1>8, SortedByNumber
<1> DEFINE from == [k \in 1 .. m |-> first[second[k]]]
           events == load_from_path(root).value.events
<1>10. from \in [1 .. m -> DOMAIN dict] /\ \A k \in 1 .. m : from[k] \in kept
  <2>1. kept \subseteq DOMAIN dict
    BY <1>2
  <2> QED
    BY <1>6, <1>9, <2>1
<1>10a. /\ \A k \in 1 .. m : from[k] = first[second[k]]
       /\ events = sort_by_number(unsorted)
  BY <1>1
<1> HIDE DEF from, events
<1>11. /\ DOMAIN events = 1 .. m /\ Len(events) = m
       /\ \A k \in 1 .. m : events[k] = event(dict[from[k]][1], dict[from[k]][2])
  <2>1. ASSUME NEW k \in 1 .. m
        PROVE  events[k] = event(dict[from[k]][1], dict[from[k]][2])
    <3>1. second[k] \in 1 .. m /\ events[k] = unsorted[second[k]]
      BY <1>9, <1>10a
    <3> QED
      BY <1>7, <1>10a, <3>1
  <2>2. Len(events) = m
    <3>1. DOMAIN events = 1 .. m /\ events \in Seq({unsorted[i] : i \in 1 .. m})
      BY <1>9, <1>10a
    <3> QED
      BY <1>6, <3>1
  <2> QED
    BY <1>9, <1>10a, <2>1, <2>2
<1>12. \A i \in DOMAIN dict : dict[i][2] # Junk => \E k \in 1 .. m : from[k] = i
  <2> SUFFICES ASSUME NEW i \in kept PROVE \E k \in 1 .. m : from[k] = i
    BY <1>3
  <2>1. PICK j \in 1 .. m : first[j] = i
    BY <1>6
  <2>2. PICK k \in 1 .. m : second[k] = j
    BY <1>9
  <2> QED
    BY <1>10a, <2>1, <2>2
<1>13. ASSUME NEW j \in 1 .. m, NEW k \in 1 .. m, from[j] = from[k] PROVE j = k
  <2>1. second[j] \in 1 .. m /\ second[k] \in 1 .. m /\ first[second[j]] = first[second[k]]
    BY <1>9, <1>13, <1>10a
  <2>2. second[j] = second[k]
    BY <1>6, <2>1
  <2> QED
    BY <1>9, <2>2
<1>14. ASSUME NEW j \in 1 .. m, NEW k \in 1 .. m, j < k PROVE Key(events[j]) <= Key(events[k])
  <2>1. events[j] = unsorted[second[j]] /\ events[k] = unsorted[second[k]]
    BY <1>9, <1>10a
  <2>2. Key(unsorted[second[j]]) <= Key(unsorted[second[k]])
    BY <1>9, <1>14
  <2> QED
    BY <2>1, <2>2
<1>15. \A k \in 1 .. m : dict[from[k]][2] # Junk
  BY <1>2, <1>3, <1>10
<1>16. Order(root, m, from)
  BY <1>6, <1>10, <1>11, <1>12, <1>13, <1>14, <1>15 DEF Order, dict, events
<1> QED
  BY <1>16
----------------------------------------------------------------------------
(* Lookup by name.                                                         *)

\* event_by_name finds the first event of the resolved name, if there is one.
LEMMA Lookup ==
  ASSUME NEW db, NEW name, Len(db.events) \in Nat
  PROVE  \/ /\ \A i \in 1 .. Len(db.events) : db.events[i].name # resolved(db, name)
            /\ event_by_name(db, name) = None
         \/ \E i \in 1 .. Len(db.events) :
              /\ db.events[i].name = resolved(db, name)
              /\ event_by_name(db, name) = db.events[i]
<1> DEFINE I == {i \in 1 .. Len(db.events) : db.events[i].name = resolved(db, name)}
           first == IF I # {} THEN Min(I) ELSE 0
<1>1. event_by_name(db, name) = IF first = 0 THEN None ELSE db.events[first]
  BY DEF event_by_name, SelectInSeq
<1>2. I \subseteq 1 .. Len(db.events)
      /\ \A i \in 1 .. Len(db.events) : i \in I <=> db.events[i].name = resolved(db, name)
  OBVIOUS
<1> HIDE DEF I
<1>3. CASE I = {}
  BY <1>1, <1>2, <1>3
<1>4. CASE I # {}
  <2>1. \E x \in I : \A y \in I : x <= y
    <3>1. I \subseteq Nat
      BY <1>2
    <3> QED
      BY <1>4, <3>1, LeastNatural
  <2>2. Min(I) \in I
    BY <2>1 DEF Min
  <2>3. PICK i \in 1 .. Len(db.events) : i = Min(I)
    BY <1>2, <2>2
  <2>4. i # 0
    OBVIOUS
  <2>5. event_by_name(db, name) = db.events[i] /\ i \in I
    BY <1>1, <1>4, <2>2, <2>3, <2>4
  <2> QED
    BY <1>2, <2>5
<1> QED
  BY <1>3, <1>4
----------------------------------------------------------------------------
(* The listing.                                                            *)

\* The entries of the dictionary that describe something that can be counted.
countable(root) ==
  {entry \in Range(events_dict(root)) :
     entry[2] # Junk /\ (get(entry[2], "number") # None \/ get(entry[2], "fixed_counter") # None)}

\* The lines of a listing are those of the events at the positions f and then c.
Lines(db, F, C, f, c) ==
  LET shown == Listing(db)
      lines == shown.fixed \o shown.configurable
      nf == Cardinality(F)
      nc == Cardinality(C)
  IN  /\ Selects(f, db.events, F) /\ Selects(c, db.events, C)
      /\ shown.count = Len(shown.configurable) /\ DOMAIN shown.configurable = 1 .. nc
      /\ \A k \in 1 .. nc : shown.configurable[k] = Display(db.events[c[k]])
      /\ DOMAIN lines = 1 .. nf + nc /\ Len(lines) = nf + nc
      /\ \A k \in 1 .. nf : lines[k] = Display(db.events[f[k]])
      /\ \A k \in 1 .. nc : lines[nf + k] = Display(db.events[c[k]])

LEMMA LinesOfListing ==
  ASSUME NEW db, NEW m \in Nat, DOMAIN db.events = 1 .. m
  PROVE  \E f, c : Lines(db, {i \in 1 .. m : is_fixed(db.events[i])},
                             {i \in 1 .. m : is_configurable(db.events[i])}, f, c)
<1> DEFINE events == db.events
           F == {i \in 1 .. m : is_fixed(events[i])}
           C == {i \in 1 .. m : is_configurable(events[i])}
           nf == Cardinality(F)
           nc == Cardinality(C)
           fe == Filter(events, F)
           ce == Filter(events, C)
           fixed == [i \in DOMAIN fe |-> Display(fe[i])]
           configurable == [i \in DOMAIN ce |-> Display(ce[i])]
           lines == fixed \o configurable
<1>1. /\ Listing(db).fixed = fixed /\ Listing(db).configurable = configurable
      /\ Listing(db).count = Len(ce)
  BY DEF Listing, fixed_events, configurable_events
<1>2. F \in SUBSET (1 .. m) /\ C \in SUBSET (1 .. m)
  OBVIOUS
<1> HIDE DEF F, C
<1>3. PICK f : Selects(f, events, F)
  BY <1>2, Filtered
<1>4. PICK c : Selects(c, events, C)
  BY <1>2, Filtered
<1>5. /\ nf \in Nat /\ DOMAIN fe = 1 .. nf /\ \A k \in 1 .. nf : fe[k] = events[f[k]]
      /\ fe \in Seq({events[i] : i \in F})
  BY <1>3 DEF Selects
<1>6. /\ nc \in Nat /\ DOMAIN ce = 1 .. nc /\ \A k \in 1 .. nc : ce[k] = events[c[k]]
      /\ ce \in Seq({events[i] : i \in C})
  BY <1>4 DEF Selects
<1>7. Len(ce) = nc
  BY <1>6
<1> DEFINE All == {Display(e) : e \in {fe[k] : k \in 1 .. nf} \cup {ce[k] : k \in 1 .. nc}}
<1>8. fixed \in [1 .. nf -> All] /\ configurable \in [1 .. nc -> All]
  BY <1>5, <1>6
<1>9. /\ \A k \in 1 .. nf : fixed[k] = Display(events[f[k]])
      /\ \A k \in 1 .. nc : configurable[k] = Display(events[c[k]])
  BY <1>5, <1>6
<1> HIDE DEF All, fixed, configurable, nf, nc, fe, ce
<1>10. fixed \in Seq(All) /\ configurable \in Seq(All) /\ Len(fixed) = nf /\ Len(configurable) = nc
  BY <1>5, <1>6, <1>8
<1>11. /\ DOMAIN lines = 1 .. nf + nc /\ Len(lines) = nf + nc
       /\ \A k \in 1 .. nf : lines[k] = fixed[k]
       /\ \A k \in 1 .. nc : lines[nf + k] = configurable[k]
  <2>1. nf \in Nat /\ nc \in Nat
    BY <1>5, <1>6
  <2>2. lines \in Seq(All) /\ Len(lines) = nf + nc
    BY <1>10
  <2>3. DOMAIN lines = 1 .. nf + nc
    BY <2>2
  <2>4. ASSUME NEW k \in 1 .. nf PROVE lines[k] = fixed[k]
    <3>1. k \in 1 .. Len(fixed) + Len(configurable) /\ k <= Len(fixed)
      BY <1>10, <2>1
    <3> QED
      BY <1>10, <3>1
  <2>5. ASSUME NEW k \in 1 .. nc PROVE lines[nf + k] = configurable[k]
    <3>1. /\ nf + k \in 1 .. Len(fixed) + Len(configurable)
          /\ ~(nf + k <= Len(fixed)) /\ (nf + k) - Len(fixed) = k
      BY <1>10, <2>1
    <3> QED
      BY <1>10, <3>1
  <2> QED
    BY <2>2, <2>3, <2>4, <2>5
<1>12. DOMAIN configurable = 1 .. nc
  BY <1>8
<1> HIDE DEF lines
<1>13. lines = Listing(db).fixed \o Listing(db).configurable
  BY <1>1 DEF lines
<1>14. Lines(db, F, C, f, c)
  BY <1>1, <1>3, <1>4, <1>7, <1>9, <1>10, <1>11, <1>12, <1>13 DEF Lines, nf, nc
<1> QED
  BY <1>14 DEF F, C
\* Everything countable is shown, once, in order, and can be found again by its name.
Complete(root) ==
  LET db == load_from_path(root).value
      shown == Listing(db)
      lines == shown.fixed \o shown.configurable
  IN  /\ \A line \in Range(lines) : line.number # None \/ line.fixed # None
      /\ Len(lines) = Cardinality(countable(root))
      /\ {line.name : line \in Range(lines)} = {entry[1] : entry \in countable(root)}
      /\ shown.count = Len(shown.configurable)
      /\ \A i, j \in DOMAIN shown.configurable :
           i < j => shown.configurable[i].number <= shown.configurable[j].number
      /\ \A line \in Range(lines) :
           line.name \in DOMAIN db.aliases \/ event_by_name(db, line.name).name = line.name

LEMMA ListingComplete ==
  ASSUME NEW root, IsContents(root), load_from_path(root).ok
  PROVE  Complete(root)
<1>0. PICK db, shown, lines :
        /\ db = load_from_path(root).value /\ shown = Listing(db)
        /\ lines = shown.fixed \o shown.configurable
  OBVIOUS
<1> DEFINE dict == events_dict(root)
           events == db.events
<1>1. PICK m, from : Order(root, m, from)
  BY ParsedInOrder
<1>2. /\ m \in Nat /\ from \in [1 .. m -> DOMAIN dict]
      /\ DOMAIN events = 1 .. m /\ Len(events) = m
      /\ \A k \in 1 .. m : events[k] = event(dict[from[k]][1], dict[from[k]][2])
      /\ \A k \in 1 .. m : dict[from[k]][2] # Junk
      /\ \A i \in DOMAIN dict : dict[i][2] # Junk => \E k \in 1 .. m : from[k] = i
      /\ \A j, k \in 1 .. m : from[j] = from[k] => j = k
      /\ \A j, k \in 1 .. m : j < k => Key(events[j]) <= Key(events[k])
  BY <1>0, <1>1 DEF Order
<1>3. /\ \A i, j \in DOMAIN dict : dict[i][1] = dict[j][1] => i = j
      /\ \A i \in DOMAIN dict : dict[i][2] # Junk => get(dict[i][2], "number") \in Nat \cup {None}
      /\ dict \in Seq(Range(dict))
  BY ParseSucceeds
<1> DEFINE F == {i \in 1 .. m : is_fixed(events[i])}
           C == {i \in 1 .. m : is_configurable(events[i])}
           T == F \cup C
           nf == Cardinality(F)
           nc == Cardinality(C)
           entry(k) == dict[from[k]]
<1>4. PICK f, c : Lines(db, F, C, f, c)
  <2>1. m \in Nat /\ DOMAIN db.events = 1 .. m
    BY <1>2
  <2> QED
    BY <2>1, LinesOfListing
<1>5. ASSUME NEW k \in 1 .. m
      PROVE  /\ entry(k) \in Range(dict) /\ events[k].name = entry(k)[1]
             /\ events[k].number = None <=> get(entry(k)[2], "number") = None
             /\ events[k].fixed_counter = get(entry(k)[2], "fixed_counter")
             /\ events[k].number \in Int \cup {None}
             /\ k \in T <=> events[k].number # None \/ events[k].fixed_counter # None
             /\ k \in C <=> events[k].number # None /\ events[k].fixed_counter = None
  <2>1. from[k] \in DOMAIN dict
    BY <1>2
  <2>2. entry(k) \in Range(dict)
    BY <2>1 DEF Range
  <2>3. events[k] = event(entry(k)[1], entry(k)[2]) /\ entry(k)[2] # Junk
    BY <1>2
  <2>4. get(entry(k)[2], "number") \in Nat \cup {None}
    BY <1>3, <2>1, <2>3
  <2>5. /\ events[k].number \in 0 .. U16 - 1 \cup {None}
        /\ events[k].number = None <=> get(entry(k)[2], "number") = None
    <3> HIDE DEF events, dict
    <3>1. /\ event(entry(k)[1], entry(k)[2]).number \in 0 .. U16 - 1 \cup {None}
          /\ (event(entry(k)[1], entry(k)[2]).number = None)
               <=> (get(entry(k)[2], "number") = None)
      BY <2>4, NumberFits
    <3> QED
      BY <2>3, <3>1
  <2>6. /\ events[k].name = entry(k)[1]
        /\ events[k].fixed_counter = get(entry(k)[2], "fixed_counter")
    BY <2>3 DEF event
  <2>7. /\ k \in T <=> events[k].number # None \/ events[k].fixed_counter # None
        /\ k \in C <=> events[k].number # None /\ events[k].fixed_counter = None
    BY DEF is_fixed, is_configurable
  <2>8. 0 .. U16 - 1 \subseteq Int
    BY DatabaseAssumption
  <2> QED
    BY <2>2, <2>5, <2>6, <2>7, <2>8
<1>6. T \in SUBSET (1 .. m) /\ F \in SUBSET (1 .. m) /\ C \in SUBSET (1 .. m) /\ F \cap C = {}
  BY DEF is_configurable
<1> HIDE DEF F, C
<1>7. /\ nf \in Nat /\ nc \in Nat
      /\ f \in [1 .. nf -> F] /\ c \in [1 .. nc -> C]
      /\ \A i \in F : \E k \in 1 .. nf : f[k] = i
      /\ \A i \in C : \E k \in 1 .. nc : c[k] = i
      /\ \A j, k \in 1 .. nc : j < k => c[j] < c[k]
  BY <1>4 DEF Lines, Selects
<1>8. /\ shown.count = Len(shown.configurable) /\ DOMAIN shown.configurable = 1 .. nc
      /\ \A k \in 1 .. nc : shown.configurable[k] = Display(events[c[k]])
      /\ DOMAIN lines = 1 .. nf + nc /\ Len(lines) = nf + nc
      /\ \A k \in 1 .. nf : lines[k] = Display(events[f[k]])
      /\ \A k \in 1 .. nc : lines[nf + k] = Display(events[c[k]])
  BY <1>0, <1>4 DEF Lines
<1> HIDE DEF nf, nc
\* The lines are those of the events at the positions T.
<1>9. \A line \in Range(lines) : \E k \in T : line = Display(events[k])
  <2> SUFFICES ASSUME NEW line \in Range(lines) PROVE \E k \in T : line = Display(events[k])
    OBVIOUS
  <2>0. PICK i \in DOMAIN lines : line = lines[i]
    BY DEF Range
  <2>1. CASE i \in 1 .. nf
    <3>1. f[i] \in F
      BY <1>7, <2>1
    <3> QED
      BY <1>8, <2>0, <2>1, <3>1
  <2>2. CASE i \notin 1 .. nf
    <3>1. PICK j \in 1 .. nc : nf + j = i
      <4>1. i \in 1 .. nf + nc
        BY <1>8
      <4>2. i - nf \in 1 .. nc /\ nf + (i - nf) = i
        BY <1>7, <2>2, <4>1
      <4> QED
        BY <4>2
    <3>2. c[j] \in C
      BY <1>7
    <3>3. lines[i] = Display(events[c[j]])
      BY <1>8, <3>1
    <3> QED
      BY <2>0, <3>2, <3>3
  <2> QED
    BY <2>1, <2>2
<1>10. \A k \in T : Display(events[k]) \in Range(lines)
  <2> SUFFICES ASSUME NEW k \in T PROVE \E i \in 1 .. nf + nc : lines[i] = Display(events[k])
    BY <1>8 DEF Range
  <2>1. CASE k \in F
    <3>1. PICK i \in 1 .. nf : f[i] = k
      BY <1>7, <2>1
    <3>2. i \in 1 .. nf + nc
      BY <1>7
    <3> QED
      BY <1>8, <3>1, <3>2
  <2>2. CASE k \in C
    <3>1. PICK i \in 1 .. nc : c[i] = k
      BY <1>7, <2>2
    <3>2. nf + i \in 1 .. nf + nc
      BY <1>7
    <3> QED
      BY <1>8, <3>1, <3>2
  <2> QED
    BY <2>1, <2>2
<1>11. \A k \in 1 .. m : /\ Display(events[k]).name = events[k].name
                        /\ Display(events[k]).number = events[k].number
                        /\ Display(events[k]).fixed = events[k].fixed_counter
  BY DEF Display
<1> HIDE DEF T
<1>12. \A line \in Range(lines) : line.number # None \/ line.fixed # None
  BY <1>5, <1>6, <1>9, <1>11
\* The positions and the entries correspond.
<1>13. \A k \in T : entry(k) \in countable(root)
  <2> SUFFICES ASSUME NEW k \in T PROVE entry(k) \in countable(root)
    OBVIOUS
  <2>1. k \in 1 .. m
    BY <1>6
  <2> QED
    BY <1>2, <1>5, <2>1 DEF countable
<1>14. ASSUME NEW e \in countable(root) PROVE \E k \in T : entry(k) = e
  <2>1. PICK i \in DOMAIN dict : dict[i] = e
    BY DEF countable, Range
  <2>2. e[2] # Junk /\ (get(e[2], "number") # None \/ get(e[2], "fixed_counter") # None)
    BY DEF countable
  <2>3. PICK k \in 1 .. m : from[k] = i
    BY <1>2, <2>1, <2>2
  <2>4. k \in T
    BY <1>5, <2>1, <2>2, <2>3
  <2> QED
    BY <2>1, <2>3, <2>4
<1>15. Len(lines) = Cardinality(countable(root))
  <2>1. IsFiniteSet(F) /\ IsFiniteSet(C) /\ IsFiniteSet(T)
    <3>1. IsFiniteSet(1 .. m)
      <4>1. m \in Int
        BY <1>2
      <4> QED
        BY <4>1, FS_Interval
    <3> QED
      BY <1>6, <3>1, FS_Subset
  <2>2. Cardinality(T) = nf + nc
    <3>1. Cardinality(F \cup C) = Cardinality(F) + Cardinality(C) - Cardinality(F \cap C)
      BY <2>1, FS_Union
    <3>2. Cardinality(F \cap C) = 0
      BY <1>6, FS_EmptySet
    <3> QED
      BY <1>7, <3>1, <3>2 DEF T, nf, nc
  <2> DEFINE h == [k \in T |-> entry(k)]
  <2>3. h \in Bijection(T, countable(root))
    <3>1. h \in [T -> countable(root)]
      BY <1>13
    <3>2. ASSUME NEW j \in T, NEW k \in T, h[j] = h[k] PROVE j = k
      <4>1. j \in 1 .. m /\ k \in 1 .. m
        BY <1>6
      <4>2. from[j] \in DOMAIN dict /\ from[k] \in DOMAIN dict /\ dict[from[j]] = dict[from[k]]
        BY <1>2, <3>2, <4>1
      <4>3. from[j] = from[k]
        BY <1>3, <4>2
      <4> QED
        BY <1>2, <4>1, <4>3
    <3>3. \A e \in countable(root) : \E k \in T : h[k] = e
      BY <1>14
    <3> QED
      BY <3>1, <3>2, <3>3 DEF Bijection, Injection, Surjection, IsInjective
  <2>4. Cardinality(countable(root)) = Cardinality(T)
    <3> HIDE DEF h
    <3> QED
      BY <2>1, <2>3, FS_Bijection DEF ExistsBijection
  <2> QED
    BY <1>8, <2>2, <2>4
<1>16. {line.name : line \in Range(lines)} = {e[1] : e \in countable(root)}
  <2>1. ASSUME NEW line \in Range(lines) PROVE \E e \in countable(root) : line.name = e[1]
    <3>1. PICK k \in T : line = Display(events[k])
      BY <1>9
    <3>2. k \in 1 .. m
      BY <1>6
    <3>3. line.name = entry(k)[1]
      BY <1>5, <1>11, <3>1, <3>2
    <3> QED
      BY <1>13, <3>3
  <2>2. ASSUME NEW e \in countable(root) PROVE \E line \in Range(lines) : e[1] = line.name
    <3>1. PICK k \in T : entry(k) = e
      BY <1>14
    <3>2. k \in 1 .. m
      BY <1>6
    <3>3. Display(events[k]).name = e[1]
      BY <1>5, <1>11, <3>1, <3>2
    <3> QED
      BY <1>10, <3>3
  <2> QED
    BY <2>1, <2>2
<1>17. ASSUME NEW i \in 1 .. nc, NEW j \in 1 .. nc, i < j
       PROVE  shown.configurable[i].number <= shown.configurable[j].number
  <2>1. c[i] \in C /\ c[j] \in C /\ c[i] < c[j]
    BY <1>7, <1>17
  <2>2. c[i] \in 1 .. m /\ c[j] \in 1 .. m
    BY <1>6, <2>1
  <2>3. Key(events[c[i]]) = events[c[i]].number /\ Key(events[c[j]]) = events[c[j]].number
    BY <1>5, <2>1, <2>2 DEF Key
  <2>4. Key(events[c[i]]) <= Key(events[c[j]])
    BY <1>2, <2>1, <2>2
  <2>5. /\ shown.configurable[i].number = events[c[i]].number
        /\ shown.configurable[j].number = events[c[j]].number
    BY <1>8, <1>11, <2>2
  <2> QED
    BY <2>3, <2>4, <2>5
<1>18. ASSUME NEW line \in Range(lines), line.name \notin DOMAIN db.aliases
       PROVE  event_by_name(db, line.name).name = line.name
  <2>1. PICK k \in T : line = Display(events[k])
    BY <1>9
  <2>2. k \in 1 .. Len(events) /\ events[k].name = line.name
    BY <1>2, <1>6, <1>11, <2>1
  <2>3. resolved(db, line.name) = line.name
    BY <1>18 DEF resolved
  <2>4. Len(events) \in Nat
    BY <1>2
  <2> QED
    BY <2>2, <2>3, <2>4, Lookup
<1> QED
  BY <1>0, <1>8, <1>12, <1>15, <1>16, <1>17, <1>18 DEF Complete
=============================================================================
