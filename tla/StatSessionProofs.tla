------------------------- MODULE StatSessionProofs -------------------------
(***************************************************************************)
(* What apmc stat reads and prints, for any number of processes, counters  *)
(* and units of work, and a pipe of any capacity.                          *)
(***************************************************************************)
EXTENDS StatSession, SequenceTheorems, TLAPS

----------------------------------------------------------------------------
(* Types.                                                                  *)

\* A sum of messages, or none.
Totals == Seq(Nat) \cup {None}

LEMMA PlusType ==
  ASSUME NEW acc \in Totals, NEW values \in Seq(Nat)
  PROVE  Plus(acc, values) \in Totals
<1>1. CASE acc # None /\ Len(acc) = Len(values)
  <2>1. acc \in Seq(Nat)
    BY <1>1 DEF Totals
  <2>2. acc \in [1 .. Len(acc) -> Nat] /\ values \in [1 .. Len(acc) -> Nat] /\ Len(acc) \in Nat
    BY <1>1, <2>1, LenProperties
  <2>3. [i \in DOMAIN acc |-> acc[i] + values[i]] \in [1 .. Len(acc) -> Nat]
    BY <2>2
  <2>4. [i \in DOMAIN acc |-> acc[i] + values[i]] \in Seq(Nat)
    BY <2>2, <2>3, SeqDef
  <2> QED
    BY <1>1, <2>4 DEF Plus, Totals
<1> QED
  BY <1>1 DEF Plus, Totals

\* A message is a count, and as many values.
LEMMA MessageType ==
  ASSUME TypeOK, NEW p \in Procs
  PROVE  /\ message(p) \in Seq(Nat) /\ Len(message(p)) = g_total_counters + 1
         /\ message(p)[1] = g_total_counters
         /\ Tail(message(p)) \in Seq(Nat)
<1> DEFINE values == [i \in 1 .. g_total_counters |-> i * work[p]]
<1>1. g_total_counters \in Nat /\ work[p] \in Nat
  BY SessionAssumption DEF TypeOK
<1>2. values \in [1 .. g_total_counters -> Nat]
  BY <1>1
<1>3. values \in Seq(Nat) /\ Len(values) = g_total_counters
  BY <1>1, <1>2, SeqDef
<1>4. <<g_total_counters>> \in Seq(Nat) /\ Len(<<g_total_counters>>) = 1
      /\ <<g_total_counters>>[1] = g_total_counters
  BY <1>1
<1>5. message(p) = <<g_total_counters>> \o values
  BY DEF message
<1> HIDE DEF values
<1>6. message(p) \in Seq(Nat) /\ Len(message(p)) = g_total_counters + 1
      /\ message(p)[1] = g_total_counters
  BY <1>1, <1>3, <1>4, <1>5, ConcatProperties
<1>7. message(p) # <<>>
  BY <1>1, <1>6, EmptySeq
<1> QED
  BY <1>6, <1>7, HeadTailProperties
\* Every step keeps the types.
LEMMA TypeStep == TypeOK /\ [Next]_vars => TypeOK'
<1> SUFFICES ASSUME TypeOK, [Next]_vars PROVE TypeOK'
  OBVIOUS
<1> USE DEF TypeOK, Outcomes, apmc_vars, lineage, target_vars, sums
<1>1. CASE Configure \/ ReadBefore \/ write_embedded_dylib \/ create_pipe
  BY <1>1 DEF Configure, ReadBefore, write_embedded_dylib, create_pipe, Return
<1>2. CASE Spawn \/ IgnoreSignals \/ CloseWriteEnd \/ Wait
  BY <1>2, SessionAssumption DEF Spawn, IgnoreSignals, CloseWriteEnd, Wait, Return
<1>3. CASE ReadCount
  <2>1. pipe \in Seq(Nat) /\ pipe # <<>>
    BY <1>3 DEF ReadCount
  <2>2. Head(pipe) \in Nat /\ Tail(pipe) \in Seq(Nat)
    BY <2>1, HeadTailProperties
  <2>3. counter_count' \in 0 .. MAX_COUNTERS
    BY <1>3, <2>2, SessionAssumption DEF ReadCount
  <2> QED
    BY <1>3, <2>2, <2>3 DEF ReadCount, Results, Return
<1>4. CASE ReadValues
  <2>1. /\ SubSeq(pipe, 1, counter_count) \in Seq(Nat)
        /\ SubSeq(pipe, counter_count + 1, Len(pipe)) \in Seq(Nat)
    BY <1>4, SessionAssumption DEF ReadValues
  <2>2. accumulated' \in Totals
    BY <1>4, <2>1, PlusType DEF ReadValues, Totals
  <2> QED
    BY <1>4, <2>1, <2>2, SessionAssumption DEF ReadValues, Totals
<1>5. CASE ReadEnd \/ SystemWideDelta
  BY <1>5 DEF ReadEnd, SystemWideDelta, Results, Return
<1>6. ASSUME NEW p \in Procs, Work(p) \/ Exec(p) \/ CloseInherited(p) \/ BeginWait(p) PROVE TypeOK'
  <2>1. CASE Work(p)
    BY <2>1 DEF Work
  <2>2. CASE Exec(p)
    BY <2>2 DEF Exec
  <2>3. CASE CloseInherited(p) \/ BeginWait(p)
    BY <2>3 DEF CloseInherited, BeginWait
  <2> QED
    BY <1>6, <2>1, <2>2, <2>3
<1>7. ASSUME NEW p \in Procs, BeginLeave(p) \/ Exit(p) PROVE TypeOK'
  <2>1. \E place \in {"leaving", "gone"} : state' = [state EXCEPT ![p] = place]
    BY <1>7 DEF BeginLeave, Exit
  <2>2. UNCHANGED <<apmc_vars, lineage, work, write_end, pipe, sums>>
    BY <1>7 DEF BeginLeave, Exit
  <2> QED
    BY <2>1, <2>2
<1>8. ASSUME NEW p \in Procs, Report(p) PROVE TypeOK'
  <2>1. pipe \in Seq(Nat) /\ written \in Totals
    BY DEF Totals
  <2>2. message(p) \in Seq(Nat) /\ Tail(message(p)) \in Seq(Nat)
    BY MessageType
  <2>3. pipe \o message(p) \in Seq(Nat) /\ Plus(written, Tail(message(p))) \in Totals
    BY <2>1, <2>2, PlusType, ConcatProperties
  <2>4. pipe' \in Seq(Nat) /\ written' \in Totals
    BY <1>8, <2>1, <2>3 DEF Report
  <2> QED
    BY <1>8, <2>4 DEF Report, Totals
<1>9. ASSUME NEW p \in Procs, NEW c \in Procs, Fork(p, c) PROVE TypeOK'
  BY <1>9 DEF Fork, ForkFrom
<1>12. ASSUME NEW p \in Procs, SignalKills(p) PROVE TypeOK'
  BY <1>12 DEF SignalKills
<1>10. CASE Interrupt
  BY <1>10 DEF Interrupt, Alive
<1>11. CASE UNCHANGED vars
  BY <1>11 DEF vars
<1> QED
  BY <1>1, <1>2, <1>3, <1>4, <1>5, <1>6, <1>7, <1>8, <1>9, <1>10, <1>11, <1>12
     DEF Next, CmdStat, Process, Ending, Finished

\* Every variable of a session keeps its type: no step leaves the functions and
\* sequences that the reader and the writers index (stat.rs:130-256).
THEOREM TypeInvariant == Spec => []TypeOK
<1>1. Init => TypeOK
  <2> SUFFICES ASSUME Init PROVE TypeOK
    OBVIOUS
  <2>1. g_total_counters \in 0 .. MAX_COUNTERS
    BY SessionAssumption DEF Init, clamped
  <2>2. work \in [Procs -> Nat] /\ parent \in [Procs -> Procs \cup {None}]
    BY DEF Init
  <2>3. pipe \in Seq(Nat) /\ {accumulated, written} \subseteq Seq(Nat) \cup {None}
    BY EmptySeq DEF Init
  <2>4. counter_count \in 0 .. MAX_COUNTERS
    BY SessionAssumption DEF Init
  <2> QED
    BY <2>1, <2>2, <2>3, <2>4 DEF Init, TypeOK, Outcomes
<1> QED
  BY <1>1, TypeStep, PTL DEF Spec
----------------------------------------------------------------------------
(* What the pipe holds: the values that the message being read lacks, and  *)
(* n whole messages.                                                       *)

Width == g_total_counters + 1

\* How much of the pipe precedes whole message k, counted from 0, and its values.
At(k) == counter_count + k * Width
Values(k) == SubSeq(pipe, At(k) + 2, At(k + 1))

\* The sum when the message being read is complete.
ReadSoFar ==
  IF counter_count = 0 THEN accumulated ELSE Plus(accumulated, SubSeq(pipe, 1, counter_count))

\* n messages are in the pipe, each begins with its count, and the reader's sum grows to
\* the writers' sum when it adds them one after the other: total[k] is the sum without
\* message k and those behind it.
PipeHolds(n, total) ==
  /\ Len(pipe) = At(n)
  /\ \A k \in 0 .. n - 1 : pipe[At(k) + 1] = g_total_counters
  /\ total[0] = ReadSoFar /\ total[n] = written
  /\ \A k \in 0 .. n - 1 : total[k + 1] = Plus(total[k], Values(k))

InStep == \E n \in Nat : \E total \in [0 .. n -> Totals] : PipeHolds(n, total)

NobodyYet == \A p \in Procs : state[p] = "none"

Framed == counter_count \in {0, g_total_counters}

\* With no counter there is nothing to add up.
NothingWithoutCounters == g_total_counters = 0 => accumulated = None

BeforeSpawn ==
  /\ apmc \in {"configure", "prepare", "pipe", "spawn"} => NobodyYet
  /\ apmc = "pipe" => ~system_wide
  /\ system_wide => write_end = {}

\* Why cmd_stat has returned.
AfterEnd ==
  /\ apmc = "done" => system_wide \/ (write_end = {} /\ accumulated = written)
  /\ apmc = "failed" =>
       \/ system_wide \/ g_total_counters = 0 \/ NobodyYet
       \/ write_end = {} /\ written = None

SessionInv ==
  /\ Framed /\ NothingWithoutCounters /\ BeforeSpawn /\ AfterEnd
  /\ apmc \notin Outcomes => InStep

\* Messages follow each other without a gap.
LEMMA Spacing ==
  ASSUME TypeOK, NEW n \in Nat
  PROVE  \A k \in 0 .. n :
           /\ At(k) \in Nat /\ At(k) >= counter_count
           /\ At(k + 1) = At(k) + Width
           /\ k < n => At(k) + Width <= At(n)
<1> SUFFICES ASSUME NEW k \in 0 .. n
             PROVE  /\ At(k) \in Nat /\ At(k) >= counter_count
                    /\ At(k + 1) = At(k) + Width
                    /\ k < n => At(k) + Width <= At(n)
  OBVIOUS
<1>1. counter_count \in Nat /\ Width \in Nat /\ Width > 0
  BY SessionAssumption DEF TypeOK, Width
<1>2. k * Width \in Nat /\ (k + 1) * Width = k * Width + Width
  BY <1>1
<1>3. k < n => (k + 1) * Width <= n * Width
  BY <1>1
<1>4. n * Width \in Nat
  BY <1>1
<1> QED
  BY <1>1, <1>2, <1>3, <1>4 DEF At

\* The same units at another place are the same part of a sequence.
LEMMA SamePart ==
  ASSUME NEW s \in Seq(Nat), NEW t \in Seq(Nat), NEW i \in Nat, NEW j \in Nat, NEW d \in Int,
         i >= 1, i + d >= 1, j <= Len(s), j + d <= Len(t),
         \A u \in i .. j : s[u] = t[u + d]
  PROVE  SubSeq(s, i, j) = SubSeq(t, i + d, j + d)
<1>1. \A u \in i .. j : s[u] \in Nat
  BY LenProperties
<1>2. \A u \in i + d .. j + d : t[u] \in Nat
  BY LenProperties
<1>3. /\ SubSeq(s, i, j) \in Seq(Nat)
      /\ Len(SubSeq(s, i, j)) = IF i <= j THEN j - i + 1 ELSE 0
      /\ \A u \in 1 .. j - i + 1 : SubSeq(s, i, j)[u] = s[i + u - 1]
  BY <1>1, SubSeqProperties
<1>4. /\ SubSeq(t, i + d, j + d) \in Seq(Nat)
      /\ Len(SubSeq(t, i + d, j + d)) = IF i + d <= j + d THEN (j + d) - (i + d) + 1 ELSE 0
      /\ \A u \in 1 .. (j + d) - (i + d) + 1 : SubSeq(t, i + d, j + d)[u] = t[i + d + u - 1]
  BY <1>2, SubSeqProperties
<1>5. \A u \in 1 .. Len(SubSeq(s, i, j)) : SubSeq(s, i, j)[u] = SubSeq(t, i + d, j + d)[u]
  <2> SUFFICES ASSUME NEW u \in 1 .. Len(SubSeq(s, i, j))
               PROVE  SubSeq(s, i, j)[u] = SubSeq(t, i + d, j + d)[u]
    OBVIOUS
  <2>1. u \in 1 .. j - i + 1 /\ u \in 1 .. (j + d) - (i + d) + 1
    BY <1>3
  <2>2. i + u - 1 \in i .. j /\ (i + u - 1) + d = i + d + u - 1
    BY <2>1
  <2> QED
    BY <1>3, <1>4, <2>1, <2>2
<1>6. Len(SubSeq(s, i, j)) = Len(SubSeq(t, i + d, j + d))
  BY <1>3, <1>4
<1> QED
  BY <1>3, <1>4, <1>5, <1>6, SeqEqual
LEMMA SamePlace ==
  ASSUME NEW s \in Seq(Nat), NEW t \in Seq(Nat), NEW i \in Nat, NEW j \in Nat,
         i >= 1, j <= Len(s), j <= Len(t), \A u \in i .. j : s[u] = t[u]
  PROVE  SubSeq(s, i, j) = SubSeq(t, i, j)
<1> DEFINE d == 0
<1>1. /\ d \in Int /\ i + d = i /\ j + d = j
      /\ \A u \in i .. j : u + d = u
  OBVIOUS
<1> HIDE DEF d
<1>2. \A u \in i .. j : s[u] = t[u + d]
  BY <1>1
<1>3. SubSeq(s, i, j) = SubSeq(t, i + d, j + d)
  BY <1>1, <1>2, SamePart
<1> QED
  BY <1>1, <1>3

\* What follows the head of the appended sequence.
LEMMA TailOfAppended ==
  ASSUME NEW s \in Seq(Nat), NEW t \in Seq(Nat), Len(t) > 0
  PROVE  SubSeq(s \o t, Len(s) + 2, Len(s) + Len(t)) = Tail(t)
<1> DEFINE i == Len(s) + 2
           j == Len(s) + Len(t)
<1>1. Len(s) \in Nat /\ Len(t) \in Nat
  BY LenProperties
<1>2. Tail(t) = SubSeq(t, 2, Len(t))
  BY EmptySeq, TailIsSubSeq
<1>3. CASE ~(Len(t) > 1)
  <2>1. SubSeq(s \o t, i, j) = <<>>
    BY <1>1, <1>3, SubSeqEmpty
  <2>2. SubSeq(t, 2, Len(t)) = <<>>
    BY <1>1, <1>3, SubSeqEmpty
  <2> QED
    BY <1>2, <2>1, <2>2
<1>4. CASE Len(t) > 1
  <2>1. i \in Len(s) + 1 .. Len(s) + Len(t) /\ j \in i .. Len(s) + Len(t)
    BY <1>1, <1>4
  <2>2. i - Len(s) = 2 /\ j - Len(s) = Len(t)
    BY <1>1
  <2> HIDE DEF i, j
  <2>3. SubSeq(s \o t, i, j) = SubSeq(t, i - Len(s), j - Len(s))
    BY <2>1, SubSeqOfConcat2
  <2> QED
    BY <1>2, <2>2, <2>3 DEF i, j
<1> QED
  BY <1>3, <1>4

\* The reader takes a count: what was whole message 0 is the message being read.
LEMMA CountTaken ==
  ASSUME TypeOK, TypeOK', InStep, Framed, ReadCount, counter_count' # 0
  PROVE  InStep'
<1>1. PICK n \in Nat : \E total \in [0 .. n -> Totals] : PipeHolds(n, total)
  BY DEF InStep
<1>2. PICK total \in [0 .. n -> Totals] : PipeHolds(n, total)
  BY <1>1
<1> DEFINE rest == [k \in 0 .. n - 1 |-> total[k + 1]]
<1>3. /\ counter_count = 0 /\ pipe # <<>> /\ pipe' = Tail(pipe)
      /\ accumulated' = accumulated /\ written' = written
      /\ g_total_counters' = g_total_counters /\ counter_count' = Head(pipe)
  BY DEF ReadCount
<1>4. pipe \in Seq(Nat) /\ pipe' \in Seq(Nat) /\ g_total_counters \in Nat
  BY SessionAssumption DEF TypeOK
<1>5. Len(pipe) \in Nat \ {0} /\ Len(pipe') = Len(pipe) - 1
      /\ \A i \in 1 .. Len(pipe') : pipe'[i] = pipe[i + 1]
  BY <1>3, <1>4, HeadTailProperties, EmptySeq
<1>6. At(0) = 0 /\ Len(pipe) = At(n)
  BY <1>2, <1>3, <1>4 DEF At, Width, PipeHolds
<1>7. n > 0
  BY <1>5, <1>6
<1>8. counter_count' = g_total_counters
  <2>1. pipe[At(0) + 1] = g_total_counters
    BY <1>2, <1>7 DEF PipeHolds
  <2> QED
    BY <1>3, <1>4, <1>5, <1>6, <2>1
<1>9. \A k \in 0 .. n : At(k) \in Nat /\ At(k + 1) = At(k) + Width /\ (k < n => At(k) + Width <= At(n))
  BY Spacing
<1>10. \A k \in 0 .. n : At(k)' = At(k + 1) - 1
  <2> SUFFICES ASSUME NEW k \in 0 .. n PROVE At(k)' = At(k + 1) - 1
    OBVIOUS
  <2>1. (k + 1) * Width = k * Width + Width
    BY <1>4 DEF Width
  <2> QED
    BY <1>3, <1>4, <1>8, <2>1 DEF At, Width
<1>11. Width \in Nat /\ Width > 0
  BY <1>4 DEF Width
<1>12. \A k \in 0 .. n - 1 : k + 1 \in 0 .. n /\ k \in 0 .. n
  OBVIOUS
<1>13. Len(pipe') = At(n - 1)'
  BY <1>5, <1>6, <1>7, <1>10, <1>12
<1>14. \A k \in 0 .. n - 2 : pipe'[At(k)' + 1] = g_total_counters
  <2> SUFFICES ASSUME NEW k \in 0 .. n - 2 PROVE pipe'[At(k)' + 1] = g_total_counters
    OBVIOUS
  <2>1. At(k)' = At(k + 1) - 1 /\ At(k) \in Nat /\ At(k + 1) = At(k) + Width
    BY <1>9, <1>10
  <2>2. At(k + 1) \in Nat /\ At(k + 1) + Width <= At(n)
    BY <1>9
  <2>3. At(k)' + 1 \in 1 .. Len(pipe') /\ At(k)' + 1 + 1 = At(k + 1) + 1
    BY <1>5, <1>6, <1>11, <2>1, <2>2
  <2>4. pipe[At(k + 1) + 1] = g_total_counters
    BY <1>2 DEF PipeHolds
  <2> QED
    BY <1>5, <2>3, <2>4
<1>15. \A k \in 0 .. n - 2 : Values(k)' = Values(k + 1)
  <2> SUFFICES ASSUME NEW k \in 0 .. n - 2 PROVE Values(k)' = Values(k + 1)
    OBVIOUS
  <2>1. /\ At(k)' = At(k + 1) - 1 /\ At(k + 1)' = At(k + 1 + 1) - 1
        /\ At(k + 1) \in Nat /\ At(k + 1 + 1) = At(k + 1) + Width
    BY <1>9, <1>10
  <2>2. At(k + 1) + Width <= At(n)
    BY <1>9
  <2>3. SubSeq(pipe', At(k + 1) + 1, At(k + 1 + 1) - 1) = SubSeq(pipe, At(k + 1) + 2, At(k + 1 + 1))
    <3> DEFINE i == At(k + 1) + 1
               j == At(k + 1 + 1) - 1
               d == 1
    <3>1. /\ i \in Nat /\ i >= 1 /\ j \in Nat /\ d \in Int
          /\ j <= Len(pipe') /\ j + d <= Len(pipe) /\ i + d >= 1
      BY <1>5, <1>6, <1>11, <2>1, <2>2
    <3>2. \A u \in i .. j : pipe'[u] = pipe[u + d]
      BY <1>5, <3>1
    <3> HIDE DEF i, j, d
    <3>3. SubSeq(pipe', i, j) = SubSeq(pipe, i + d, j + d)
      BY <1>4, <3>1, <3>2, SamePart
    <3>4. i + d = At(k + 1) + 2 /\ j + d = At(k + 1 + 1)
      BY <2>1, <1>11 DEF i, j, d
    <3> QED
      BY <3>3, <3>4 DEF i, j
  <2>4. At(k)' + 2 = At(k + 1) + 1
    BY <2>1
  <2> QED
    BY <2>1, <2>3, <2>4 DEF Values
<1>16. rest \in [0 .. n - 1 -> Totals] /\ rest[n - 1] = total[n]
       /\ \A k \in 0 .. n - 1 : rest[k] = total[k + 1]
  BY <1>7
<1>17. rest[0] = ReadSoFar'
  <2>1. rest[0] = Plus(accumulated, Values(0))
    <3>1. 0 \in 0 .. n - 1
      BY <1>7
    <3>2. total[0 + 1] = Plus(total[0], Values(0)) /\ total[0] = ReadSoFar
      BY <1>2, <3>1 DEF PipeHolds
    <3>3. rest[0] = total[0 + 1]
      BY <1>16, <3>1
    <3> QED
      BY <1>3, <3>2, <3>3 DEF ReadSoFar
  <2>2. Values(0) = SubSeq(pipe', 1, g_total_counters)
    <3>1. At(0) = 0 /\ At(0 + 1) = g_total_counters + 1 /\ g_total_counters + 1 <= Len(pipe)
      BY <1>4, <1>6, <1>7, <1>9 DEF Width
    <3>2. \A u \in 1 .. g_total_counters : pipe'[u] = pipe[u + 1]
      BY <1>4, <1>5, <3>1
    <3>3. g_total_counters <= Len(pipe') /\ g_total_counters + 1 <= Len(pipe)
      BY <1>4, <1>5, <3>1
    <3>4. SubSeq(pipe', 1, g_total_counters) = SubSeq(pipe, 1 + 1, g_total_counters + 1)
      BY <1>4, <3>2, <3>3, SamePart
    <3>5. At(0) + 2 = 1 + 1
      BY <3>1
    <3> QED
      BY <3>1, <3>4, <3>5 DEF Values
  <2> QED
    BY <1>3, <1>8, <2>1, <2>2 DEF ReadSoFar
<1>18. \A k \in 0 .. n - 2 : rest[k + 1] = Plus(rest[k], Values(k)')
  BY <1>2, <1>15, <1>16 DEF PipeHolds
<1> HIDE DEF rest
<1>19. Len(pipe') = At(n - 1)' /\ n - 1 \in Nat /\ (n - 1) - 1 = n - 2
  BY <1>7, <1>13
<1>20. PipeHolds(n - 1, rest)'
  BY <1>2, <1>3, <1>14, <1>16, <1>17, <1>18, <1>19 DEF PipeHolds
<1> QED
  BY <1>16, <1>19, <1>20 DEF InStep
\* The reader takes the values: what it sums grows by the message that it was reading.
LEMMA ValuesTaken ==
  ASSUME TypeOK, TypeOK', InStep, Framed, ReadValues
  PROVE  InStep'
<1>1. PICK n \in Nat : \E total \in [0 .. n -> Totals] : PipeHolds(n, total)
  BY DEF InStep
<1>2. PICK total \in [0 .. n -> Totals] : PipeHolds(n, total)
  BY <1>1
<1>3. /\ counter_count = g_total_counters /\ counter_count > 0 /\ counter_count' = 0
      /\ pipe' = SubSeq(pipe, counter_count + 1, Len(pipe))
      /\ accumulated' = Plus(accumulated, SubSeq(pipe, 1, counter_count))
      /\ written' = written /\ g_total_counters' = g_total_counters
  BY DEF ReadValues, Framed
<1>4. /\ pipe \in Seq(Nat) /\ pipe' \in Seq(Nat) /\ Len(pipe) \in Nat
      /\ g_total_counters \in Nat /\ Len(pipe) >= g_total_counters
  BY <1>3, SessionAssumption, LenProperties DEF TypeOK, ReadValues
<1>5. /\ Len(pipe') = Len(pipe) - g_total_counters
      /\ \A i \in 1 .. Len(pipe') : pipe'[i] = pipe[i + g_total_counters]
  <2>1. \A i \in g_total_counters + 1 .. Len(pipe) : pipe[i] \in Nat
    BY <1>4, LenProperties
  <2>2. /\ Len(pipe') = IF g_total_counters + 1 <= Len(pipe)
                          THEN Len(pipe) - (g_total_counters + 1) + 1 ELSE 0
        /\ \A i \in 1 .. Len(pipe) - (g_total_counters + 1) + 1 :
             pipe'[i] = pipe[g_total_counters + 1 + i - 1]
    BY <1>3, <1>4, <2>1, SubSeqProperties
  <2> QED
    BY <1>4, <2>2
<1>6. Len(pipe) = At(n) /\ Width \in Nat /\ Width = g_total_counters + 1
  BY <1>2, <1>4 DEF Width, PipeHolds
<1>7. \A k \in 0 .. n : /\ At(k) \in Nat /\ At(k) >= g_total_counters
                        /\ At(k + 1) = At(k) + Width /\ (k < n => At(k) + Width <= At(n))
  BY <1>3, Spacing
<1>8. \A k \in 0 .. n : At(k)' = At(k) - g_total_counters /\ At(k + 1)' = At(k + 1) - g_total_counters
  <2> SUFFICES ASSUME NEW k \in 0 .. n
               PROVE  At(k)' = At(k) - g_total_counters /\ At(k + 1)' = At(k + 1) - g_total_counters
    OBVIOUS
  <2>1. k * Width \in Nat /\ (k + 1) * Width \in Nat
    BY <1>6
  <2> QED
    BY <1>3, <1>4, <2>1 DEF At, Width
<1>9. Len(pipe') = At(n)'
  BY <1>5, <1>6, <1>8
<1>10. \A k \in 0 .. n - 1 : pipe'[At(k)' + 1] = g_total_counters
  <2> SUFFICES ASSUME NEW k \in 0 .. n - 1 PROVE pipe'[At(k)' + 1] = g_total_counters
    OBVIOUS
  <2>1. At(k)' = At(k) - g_total_counters /\ At(k) \in Nat /\ At(k) >= g_total_counters
    BY <1>7, <1>8
  <2>2. At(k) + Width <= At(n)
    BY <1>7
  <2>3. At(k) - g_total_counters + 1 \in 1 .. At(n) - g_total_counters
    BY <1>4, <1>6, <2>1, <2>2
  <2>5. At(k)' + 1 \in 1 .. Len(pipe') /\ At(k)' + 1 + g_total_counters = At(k) + 1
    BY <1>4, <1>5, <1>6, <2>1, <2>3
  <2>4. pipe[At(k) + 1] = g_total_counters
    BY <1>2 DEF PipeHolds
  <2> QED
    BY <1>5, <2>4, <2>5
<1>11. \A k \in 0 .. n - 1 : Values(k)' = Values(k)
  <2> SUFFICES ASSUME NEW k \in 0 .. n - 1 PROVE Values(k)' = Values(k)
    OBVIOUS
  <2> DEFINE i == At(k)' + 2
             j == At(k + 1)'
  <2>2. /\ At(k) \in Nat /\ At(k + 1) = At(k) + Width /\ At(k) + Width <= At(n)
        /\ At(k) >= g_total_counters
    BY <1>7
  <2>7. At(k)' = At(k) - g_total_counters /\ At(k + 1)' = At(k + 1) - g_total_counters
    BY <1>8
  <2>8. At(k) - g_total_counters \in Nat /\ At(k + 1) - g_total_counters \in Nat
    BY <1>4, <1>6, <2>2
  <2>9. j \in Nat /\ j + g_total_counters = At(k + 1)
    <3>1. At(k + 1) \in Nat
      BY <1>6, <2>2
    <3> QED
      BY <1>4, <2>7, <2>8, <3>1
  <2>10. i \in Nat /\ i >= 1
    BY <2>7, <2>8
  <2>11. i + g_total_counters = At(k) + 2
    BY <1>4, <2>2, <2>7
  <2>1. /\ i + g_total_counters = At(k) + 2 /\ j + g_total_counters = At(k + 1)
        /\ i \in Nat /\ i >= 1 /\ j \in Nat
    BY <2>9, <2>10, <2>11
  <2>3. Values(k)' = SubSeq(pipe', i, j) /\ Values(k) = SubSeq(pipe, At(k) + 2, At(k + 1))
    BY DEF Values
  <2> HIDE DEF i, j
  <2>4. j <= Len(pipe') /\ j + g_total_counters <= Len(pipe)
    BY <1>4, <1>5, <1>6, <2>1, <2>2
  <2>5. \A u \in i .. j : pipe'[u] = pipe[u + g_total_counters]
    BY <1>4, <1>5, <2>1, <2>4
  <2>6. SubSeq(pipe', i, j) = SubSeq(pipe, i + g_total_counters, j + g_total_counters)
    BY <1>4, <2>1, <2>4, <2>5, SamePart
  <2> QED
    BY <2>1, <2>3, <2>6
<1>12. ReadSoFar' = ReadSoFar
  BY <1>3, <1>4 DEF ReadSoFar
<1>13. PipeHolds(n, total)'
  BY <1>2, <1>3, <1>9, <1>10, <1>11, <1>12 DEF PipeHolds
<1> QED
  BY <1>13 DEF InStep

\* A report that reaches the pipe.
Writes(p) ==
  /\ pipe' = pipe \o message(p) /\ written' = Plus(written, Tail(message(p)))
  /\ UNCHANGED <<g_total_counters, counter_count, accumulated>>

\* A process reports: there is one more whole message at the end of the pipe, and one
\* more in the sum.
LEMMA MessageAdded ==
  ASSUME TypeOK, TypeOK', InStep, NEW p \in Procs, Writes(p)
  PROVE  InStep'
<1>1. PICK n \in Nat : \E total \in [0 .. n -> Totals] : PipeHolds(n, total)
  BY DEF InStep
<1>2. PICK total \in [0 .. n -> Totals] : PipeHolds(n, total)
  BY <1>1
<1>3. /\ pipe \in Seq(Nat) /\ pipe' \in Seq(Nat) /\ Len(pipe) \in Nat
      /\ g_total_counters \in Nat /\ written' \in Totals
      /\ counter_count \in Nat
  BY SessionAssumption, LenProperties DEF TypeOK, Totals
<1>4. /\ message(p) \in Seq(Nat) /\ Len(message(p)) = Width
      /\ message(p)[1] = g_total_counters /\ Tail(message(p)) = SubSeq(message(p), 2, Width)
  <2>1. /\ message(p) \in Seq(Nat) /\ Len(message(p)) = g_total_counters + 1
        /\ message(p)[1] = g_total_counters
    BY MessageType
  <2>2. message(p) # <<>>
    BY <1>3, <2>1, EmptySeq
  <2> QED
    BY <2>1, <2>2, TailIsSubSeq DEF Width
<1>5. Width \in Nat /\ Width > 0 /\ Len(pipe) = At(n)
  BY <1>2, <1>3 DEF Width, PipeHolds
<1>6. /\ Len(pipe') = Len(pipe) + Width
      /\ \A i \in 1 .. Len(pipe) : pipe'[i] = pipe[i]
      /\ \A i \in 1 .. Width : pipe'[Len(pipe) + i] = message(p)[i]
  <2>1. /\ Len(pipe \o message(p)) = Len(pipe) + Len(message(p))
        /\ \A i \in 1 .. Len(pipe) + Len(message(p)) :
             (pipe \o message(p))[i] =
                IF i <= Len(pipe) THEN pipe[i] ELSE message(p)[i - Len(pipe)]
    BY <1>3, <1>4, ConcatProperties DEF Writes
  <2>2. Len(pipe') = Len(pipe) + Width
    BY <1>4, <2>1 DEF Writes
  <2>3. \A i \in 1 .. Len(pipe) : pipe'[i] = pipe[i]
    BY <1>3, <1>4, <1>5, <2>1 DEF Writes
  <2>4. ASSUME NEW i \in 1 .. Width PROVE pipe'[Len(pipe) + i] = message(p)[i]
    <3>1. /\ Len(pipe) + i \in 1 .. Len(pipe) + Len(message(p))
          /\ ~(Len(pipe) + i <= Len(pipe)) /\ (Len(pipe) + i) - Len(pipe) = i
      BY <1>3, <1>4, <1>5
    <3> QED
      BY <2>1, <3>1 DEF Writes
  <2> QED
    BY <2>2, <2>3, <2>4
<1>7. \A k \in 0 .. n : At(k) \in Nat /\ At(k + 1) = At(k) + Width /\ (k < n => At(k) + Width <= At(n))
  BY Spacing
<1>8. \A k \in Nat : At(k)' = At(k)
  BY DEF At, Width, Writes
<1>9. \A k \in 0 .. n - 1 : Values(k)' = Values(k)
  <2> SUFFICES ASSUME NEW k \in 0 .. n - 1 PROVE Values(k)' = Values(k)
    OBVIOUS
  <2> DEFINE i == At(k) + 2
             j == At(k + 1)
  <2>1. /\ At(k) \in Nat /\ At(k + 1) = At(k) + Width /\ At(k) + Width <= At(n)
        /\ At(k)' = At(k) /\ At(k + 1)' = At(k + 1)
    BY <1>7, <1>8
  <2>6. Len(pipe) \in Nat /\ Len(pipe') = Len(pipe) + Width
    BY <1>3, <1>6
  <2>7. i \in Nat /\ i >= 1 /\ j \in Nat
    BY <1>5, <2>1
  <2>8. j <= Len(pipe)
    BY <1>5, <2>1
  <2>9. Len(pipe) <= Len(pipe')
    BY <1>5, <2>6
  <2>10. j <= Len(pipe')
    BY <1>5, <2>6, <2>7, <2>8
  <2>2. i \in Nat /\ i >= 1 /\ j \in Nat /\ j <= Len(pipe) /\ j <= Len(pipe')
    BY <2>7, <2>8, <2>10
  <2>3. Values(k)' = SubSeq(pipe', i, j) /\ Values(k) = SubSeq(pipe, i, j)
    BY <2>1 DEF Values
  <2> HIDE DEF i, j
  <2>4. \A u \in i .. j : pipe'[u] = pipe[u]
    <3>1. \A u \in i .. j : u \in 1 .. Len(pipe)
      BY <2>2, <2>6
    <3> QED
      BY <1>6, <3>1
  <2>5. SubSeq(pipe', i, j) = SubSeq(pipe, i, j)
    BY <1>3, <2>2, <2>4, SamePlace
  <2> QED
    BY <2>3, <2>5
<1>10. Values(n)' = Tail(message(p))
  <2>1. /\ At(n) \in Nat /\ At(n + 1) = At(n) + Width
        /\ At(n)' = At(n) /\ At(n + 1)' = At(n + 1)
    BY <1>7, <1>8
  <2>2. Values(n)' = SubSeq(pipe', At(n) + 2, At(n) + Width)
    BY <2>1 DEF Values
  <2>3. SubSeq(pipe \o message(p), Len(pipe) + 2, Len(pipe) + Len(message(p))) = Tail(message(p))
    BY <1>3, <1>4, <1>5, TailOfAppended
  <2> QED
    BY <1>4, <1>5, <2>2, <2>3 DEF Writes
<1>11. ReadSoFar' = ReadSoFar
  <2>1. counter_count <= Len(pipe)
    BY <1>5, Spacing
  <2>2. \A u \in 1 .. counter_count : pipe'[u] = pipe[u]
    BY <1>3, <1>6, <2>1
  <2>3. counter_count <= Len(pipe')
    BY <1>3, <1>5, <1>6, <2>1
  <2>4. SubSeq(pipe', 1, counter_count) = SubSeq(pipe, 1, counter_count)
    BY <1>3, <2>1, <2>2, <2>3, SamePlace
  <2> QED
    BY <2>4 DEF ReadSoFar, Writes
<1>12. PICK more \in [0 .. n + 1 -> Totals] :
         more[n + 1] = written' /\ \A k \in 0 .. n : more[k] = total[k]
  <2> DEFINE m == [k \in 0 .. n + 1 |-> IF k = n + 1 THEN written' ELSE total[k]]
  <2>1. m \in [0 .. n + 1 -> Totals]
    BY <1>3
  <2>2. m[n + 1] = written' /\ \A k \in 0 .. n : m[k] = total[k]
    OBVIOUS
  <2> HIDE DEF m
  <2> QED
    BY <2>1, <2>2
<1>13. Len(pipe') = At(n + 1)'
  BY <1>5, <1>6, <1>7, <1>8
<1>14. \A k \in 0 .. n : pipe'[At(k)' + 1] = g_total_counters
  <2> SUFFICES ASSUME NEW k \in 0 .. n PROVE pipe'[At(k)' + 1] = g_total_counters
    OBVIOUS
  <2>1. At(k)' = At(k) /\ At(k) \in Nat
    BY <1>7, <1>8
  <2>2. CASE k = n
    BY <1>4, <1>5, <1>6, <2>1, <2>2
  <2>3. CASE k < n
    <3>1. At(k) + Width <= At(n) /\ k \in 0 .. n - 1
      BY <1>7, <2>3
    <3>2. pipe[At(k) + 1] = g_total_counters
      BY <1>2, <3>1 DEF PipeHolds
    <3>3. At(k) + 1 \in 1 .. Len(pipe)
      BY <1>5, <2>1, <3>1
    <3> QED
      BY <1>6, <2>1, <3>2, <3>3
  <2>4. k = n \/ k < n
    OBVIOUS
  <2> QED
    BY <2>2, <2>3, <2>4
<1>15. \A k \in 0 .. n : more[k + 1] = Plus(more[k], Values(k)')
  <2> SUFFICES ASSUME NEW k \in 0 .. n PROVE more[k + 1] = Plus(more[k], Values(k)')
    OBVIOUS
  <2>1. CASE k = n
    <3>1. more[n] = written
      BY <1>2, <1>12 DEF PipeHolds
    <3> QED
      BY <1>10, <1>12, <2>1, <3>1 DEF Writes
  <2>2. CASE k < n
    <3>1. k \in 0 .. n - 1 /\ k + 1 \in 0 .. n
      BY <2>2
    <3>2. total[k + 1] = Plus(total[k], Values(k))
      BY <1>2, <3>1 DEF PipeHolds
    <3> QED
      BY <1>9, <1>12, <3>1, <3>2
  <2> QED
    BY <2>1, <2>2
<1>16. more[0] = ReadSoFar'
  BY <1>2, <1>11, <1>12 DEF PipeHolds
<1>17. n + 1 \in Nat /\ (n + 1) - 1 = n
  OBVIOUS
<1>18. PipeHolds(n + 1, more)'
  BY <1>12, <1>13, <1>14, <1>15, <1>16, <1>17 DEF PipeHolds, Writes
<1> QED
  BY <1>12, <1>17, <1>18 DEF InStep
LEMMA PipeUntouched ==
  ASSUME InStep, UNCHANGED <<pipe, sums>>
  PROVE  InStep'
<1>1. PICK n \in Nat : \E total \in [0 .. n -> Totals] : PipeHolds(n, total)
  BY DEF InStep
<1>2. PICK total \in [0 .. n -> Totals] : PipeHolds(n, total)
  BY <1>1
<1>3. \A k : At(k)' = At(k) /\ Values(k)' = Values(k)
  BY DEF At, Values, Width, sums
<1>4. ReadSoFar' = ReadSoFar
  BY DEF ReadSoFar, sums
<1>5. PipeHolds(n, total)'
  BY <1>2, <1>3, <1>4 DEF PipeHolds, sums
<1> QED
  BY <1>5 DEF InStep

\* Between messages the next unit is a count.
LEMMA HeadIsCount ==
  ASSUME TypeOK, InStep, counter_count = 0, pipe # <<>>
  PROVE  Head(pipe) = g_total_counters
<1>1. PICK n \in Nat : \E total \in [0 .. n -> Totals] : PipeHolds(n, total)
  BY DEF InStep
<1>2. PICK total \in [0 .. n -> Totals] : PipeHolds(n, total)
  BY <1>1
<1>3. pipe \in Seq(Nat) /\ g_total_counters \in Nat /\ Len(pipe) \in Nat \ {0}
  BY SessionAssumption, EmptySeq DEF TypeOK
<1>4. At(0) = 0 /\ Len(pipe) = At(n)
  BY <1>2, <1>3 DEF At, Width, PipeHolds
<1>5. n > 0
  BY <1>3, <1>4
<1>6. pipe[At(0) + 1] = g_total_counters
  BY <1>2, <1>5 DEF PipeHolds
<1> QED
  BY <1>3, <1>4, <1>6

\* Too little is left in the pipe only where a message ends, and then the reader has
\* added up all that was written.
LEMMA EndIsComplete ==
  ASSUME TypeOK, InStep, Framed, Len(pipe) < IF counter_count = 0 THEN 1 ELSE counter_count
  PROVE  accumulated = written
<1>1. PICK n \in Nat : \E total \in [0 .. n -> Totals] : PipeHolds(n, total)
  BY DEF InStep
<1>2. PICK total \in [0 .. n -> Totals] : PipeHolds(n, total)
  BY <1>1
<1>3. /\ Len(pipe) = At(n) /\ At(n) >= counter_count /\ At(n) \in Nat
      /\ counter_count \in Nat /\ Width \in Nat /\ Width > 0
  BY <1>2, Spacing, SessionAssumption DEF PipeHolds, TypeOK, Width
<1>4. counter_count = 0 /\ At(n) = 0
  BY <1>3
<1>5. n = 0
  BY <1>3, <1>4 DEF At
<1> QED
  BY <1>2, <1>4, <1>5 DEF PipeHolds, ReadSoFar

\* A step of a process that is there, other than a report.
LEMMA ProcessStep ==
  ASSUME SessionInv, NEW p \in Procs, state[p] # "none", UNCHANGED <<apmc_vars, pipe, sums>>,
         write_end = {} => write_end' = {}
  PROVE  SessionInv'
<1>1. ~NobodyYet
  BY DEF NobodyYet
<1>2. apmc \notin Outcomes => InStep'
  BY PipeUntouched DEF SessionInv
<1> QED
  BY <1>1, <1>2 DEF SessionInv, Framed, NothingWithoutCounters, BeforeSpawn, AfterEnd,
                    apmc_vars, sums

LEMMA ReportStep ==
  ASSUME TypeOK, TypeOK', SessionInv, NEW p \in Procs, Report(p)
  PROVE  SessionInv'
<1>1. state[p] # "none" /\ (write_end = {} => write_end' = {})
  BY DEF Report
<1>2. CASE UNCHANGED <<pipe, written>>
  BY <1>1, <1>2, ProcessStep DEF Report, sums
<1>3. CASE /\ p \in write_end
           /\ pipe' = pipe \o message(p)
           /\ written' = Plus(written, Tail(message(p)))
  <2>1. ~NobodyYet /\ write_end # {}
    BY <1>1, <1>3 DEF NobodyYet
  <2>2. apmc \notin Outcomes => InStep'
    BY <1>3, MessageAdded DEF SessionInv, Report, Writes
  <2> QED
    BY <1>1, <2>1, <2>2 DEF SessionInv, Framed, NothingWithoutCounters, BeforeSpawn, AfterEnd,
                            apmc_vars, Report
<1> QED
  BY <1>2, <1>3 DEF Report

LEMMA ReaderStep ==
  ASSUME TypeOK, TypeOK', SessionInv, ReadCount \/ ReadValues \/ ReadEnd \/ SystemWideDelta
  PROVE  SessionInv'
<1>1. apmc = "read" /\ InStep /\ Framed /\ NothingWithoutCounters /\ BeforeSpawn
  BY DEF ReadCount, ReadValues, ReadEnd, SystemWideDelta, SessionInv, Outcomes
<1> USE DEF BeforeSpawn, AfterEnd, apmc_vars, sums, Results, Return
<1>2. CASE ReadCount
  <2>1. Head(pipe) = g_total_counters /\ g_total_counters \in 0 .. MAX_COUNTERS
    BY <1>1, <1>2, HeadIsCount DEF ReadCount, TypeOK
  <2>2. CASE g_total_counters = 0
    BY <1>1, <1>2, <2>1, <2>2
       DEF ReadCount, SessionInv, Framed, NothingWithoutCounters, Outcomes
  <2>3. CASE g_total_counters # 0
    <3>1. counter_count' = g_total_counters /\ UNCHANGED <<apmc, counters>>
      BY <1>2, <2>1, <2>3, SessionAssumption DEF ReadCount
    <3>2. InStep'
      BY <1>1, <1>2, <2>3, <3>1, CountTaken
    <3> QED
      BY <1>1, <1>2, <2>3, <3>1, <3>2 DEF ReadCount, SessionInv, Framed, NothingWithoutCounters
  <2> QED
    BY <2>2, <2>3
<1>3. CASE ReadValues
  <2>1. InStep'
    BY <1>1, <1>3, ValuesTaken
  <2>2. g_total_counters # 0
    BY <1>1, <1>3, SessionAssumption DEF Framed, ReadValues, TypeOK
  <2> QED
    BY <1>1, <1>3, <2>1, <2>2 DEF ReadValues, SessionInv, Framed, NothingWithoutCounters
<1>4. CASE ReadEnd
  <2>1. accumulated = written
    BY <1>1, <1>4, EndIsComplete DEF ReadEnd
  <2> QED
    BY <1>1, <1>4, <2>1 DEF ReadEnd, SessionInv, Framed, NothingWithoutCounters, Outcomes
<1>5. CASE SystemWideDelta
  BY <1>1, <1>5 DEF SystemWideDelta, SessionInv, Framed, NothingWithoutCounters, Outcomes
<1> QED
  BY <1>2, <1>3, <1>4, <1>5
LEMMA SessionInvStep == TypeOK /\ TypeOK' /\ SessionInv /\ [Next]_vars => SessionInv'
<1> SUFFICES ASSUME TypeOK, TypeOK', SessionInv, [Next]_vars PROVE SessionInv'
  OBVIOUS
<1>1. CASE Configure \/ ReadBefore \/ write_embedded_dylib \/ create_pipe \/ Spawn
  <2>1. UNCHANGED <<pipe, sums>> /\ apmc \notin Outcomes
    BY <1>1 DEF Configure, ReadBefore, write_embedded_dylib, create_pipe, Spawn, Outcomes
  <2>2. InStep'
    BY <2>1, PipeUntouched DEF SessionInv
  <2>3. CASE Configure \/ ReadBefore \/ write_embedded_dylib \/ create_pipe
    BY <2>1, <2>2, <2>3
       DEF Configure, ReadBefore, write_embedded_dylib, create_pipe, SessionInv, Framed, sums,
           target_vars, NothingWithoutCounters, BeforeSpawn, AfterEnd, NobodyYet, Return
  <2>4. CASE Spawn
    BY <2>1, <2>2, <2>4
       DEF Spawn, SessionInv, Framed, sums, NothingWithoutCounters, BeforeSpawn, AfterEnd,
           NobodyYet, Return
  <2> QED
    BY <1>1, <2>3, <2>4
<1>2. CASE IgnoreSignals \/ CloseWriteEnd \/ Wait
  <2>1. UNCHANGED <<pipe, sums>> /\ apmc \notin Outcomes
    BY <1>2 DEF IgnoreSignals, CloseWriteEnd, Wait, Outcomes
  <2>2. InStep'
    BY <2>1, PipeUntouched DEF SessionInv
  <2> QED
    BY <1>2, <2>1, <2>2
       DEF IgnoreSignals, CloseWriteEnd, Wait, SessionInv, Framed, sums,
           NothingWithoutCounters, BeforeSpawn, AfterEnd
<1>3. CASE ReadCount \/ ReadValues \/ ReadEnd \/ SystemWideDelta
  BY <1>3, ReaderStep
<1>4. ASSUME NEW p \in Procs,
             \/ Work(p) \/ Exec(p) \/ CloseInherited(p) \/ BeginWait(p)
             \/ BeginLeave(p) \/ Exit(p) \/ SignalKills(p)
      PROVE  SessionInv'
  <2>1. /\ state[p] # "none" /\ UNCHANGED <<apmc_vars, pipe, sums>>
        /\ write_end = {} => write_end' = {}
    BY <1>4 DEF Work, Exec, CloseInherited, BeginWait, BeginLeave, Exit, SignalKills
  <2> QED
    BY <2>1, ProcessStep
<1>5. ASSUME NEW p \in Procs, NEW c \in Procs, Fork(p, c) PROVE SessionInv'
  <2>1. /\ state[p] # "none" /\ UNCHANGED <<apmc_vars, pipe, sums>>
        /\ write_end = {} => write_end' = {}
    BY <1>5 DEF Fork, ForkFrom
  <2> QED
    BY <2>1, ProcessStep
<1>6. ASSUME NEW p \in Procs, Report(p) PROVE SessionInv'
  BY <1>6, ReportStep
<1>7. CASE Interrupt
  <2>1. /\ UNCHANGED <<pipe, sums>> /\ apmc \notin {"done", "failed", "killed"}
        /\ apmc' \in {apmc, "killed"} /\ system_wide' = system_wide
    BY <1>7 DEF Interrupt
  <2>2. InStep'
    BY <2>1, PipeUntouched DEF SessionInv, Outcomes
  <2>3. NobodyYet => NobodyYet'
    BY <1>7 DEF NobodyYet, Interrupt, Alive
  <2>4. write_end = {} => write_end' = {}
    BY <1>7 DEF Interrupt
  <2> QED
    BY <2>1, <2>2, <2>3, <2>4
       DEF SessionInv, Framed, sums, NothingWithoutCounters, BeforeSpawn, AfterEnd
<1>8. CASE UNCHANGED vars
  <2>1. apmc \notin Outcomes => InStep'
    BY <1>8, PipeUntouched DEF SessionInv, vars
  <2> QED
    BY <1>8, <2>1 DEF SessionInv, Framed, NothingWithoutCounters, BeforeSpawn, AfterEnd,
                      NobodyYet, vars, apmc_vars, target_vars, sums
<1> QED
  BY <1>1, <1>2, <1>3, <1>4, <1>5, <1>6, <1>7, <1>8 DEF Next, CmdStat, Process, Ending, Finished

LEMMA SessionInvariant == Spec => [](TypeOK /\ SessionInv)
<1>1. Init /\ TypeOK => SessionInv
  <2> SUFFICES ASSUME Init, TypeOK PROVE SessionInv
    OBVIOUS
  <2> DEFINE t == [k \in 0 .. 0 |-> None]
  <2>1. t \in [0 .. 0 -> Totals] /\ t[0] = None
    BY DEF Totals
  <2> HIDE DEF t
  <2>2. PICK total \in [0 .. 0 -> Totals] : total[0] = None
    BY <2>1
  <2>3. At(0) = 0 /\ Len(pipe) = 0
    BY SessionAssumption DEF Init, TypeOK, At, Width
  <2>4. PipeHolds(0, total)
    BY <2>2, <2>3 DEF PipeHolds, ReadSoFar, Init
  <2>5. InStep
    BY <2>4 DEF InStep
  <2> QED
    BY <2>5 DEF Init, SessionInv, Framed, NothingWithoutCounters, BeforeSpawn, AfterEnd, NobodyYet
<1> QED
  BY <1>1, SessionInvStep, TypeInvariant, PTL DEF Spec

----------------------------------------------------------------------------
(* What the user is told.                                                  *)

\* Whatever the processes of the tree write at the same time, and wherever the reader is,
\* what it finds where a message begins is a count and never a value (stat.rs:221-226).
THEOREM MessagesStayFramed == Spec => []FramesStay
<1>1. TypeOK /\ SessionInv => FramesStay
  <2> SUFFICES ASSUME TypeOK, SessionInv, apmc \notin Outcomes PROVE FramesStay
    BY DEF FramesStay
  <2>1. PICK n \in Nat : \E total \in [0 .. n -> Totals] : PipeHolds(n, total)
    BY DEF SessionInv, InStep
  <2> DEFINE unread == Len(pipe) - counter_count
             w == g_total_counters + 1
  <2>2. w \in Nat /\ w > 0 /\ counter_count \in Nat
    BY SessionAssumption DEF TypeOK
  <2>3. /\ Len(pipe) = counter_count + n * w
        /\ \A k \in 0 .. n - 1 : pipe[counter_count + k * w + 1] = g_total_counters
    BY <2>1 DEF PipeHolds, At, Width
  <2> HIDE DEF w
  <2>4. n * w \in Nat
    BY <2>2
  <2>5. unread = n * w
    BY <2>2, <2>3, <2>4
  <2>6. unread % w = 0 /\ unread \div w = n /\ unread >= 0
    BY <2>2, <2>4, <2>5
  <2> HIDE DEF unread
  <2>7. \A k \in 0 .. unread \div w - 1 : pipe[counter_count + k * w + 1] = g_total_counters
    BY <2>3, <2>6
  <2>8. counter_count \in {0, g_total_counters}
    BY DEF SessionInv, Framed
  <2> QED
    BY <2>6, <2>7, <2>8 DEF FramesStay, unread, w
<1> QED
  BY <1>1, SessionInvariant, PTL

\* What apmc prints is the sum of every message that any process of the tree wrote, also of
\* orphans that outlive the target, and nobody can write one more (stat.rs:221-226).
THEOREM PrintedIsComplete == Spec => []PrintsAllReports
<1>1. SessionInv => PrintsAllReports
  BY DEF SessionInv, AfterEnd, PrintsAllReports
<1> QED
  BY <1>1, SessionInvariant, PTL

\* apmc complains that nothing was counted only if no process reported, or no process
\* could count anything (stat.rs:207-208, kpc_inject.c:205).
THEOREM ComplaintIsTrue == Spec => []ComplainsOnlyWithoutReports
<1>1. SessionInv => ComplainsOnlyWithoutReports
  BY SessionAssumption DEF SessionInv, AfterEnd, ComplainsOnlyWithoutReports, NobodyYet
<1> QED
  BY <1>1, SessionInvariant, PTL
=============================================================================
