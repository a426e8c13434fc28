--------------------------- MODULE CounterLedger ---------------------------
(***************************************************************************)
(* What the injected library promises of one process, with no slots,       *)
(* signals or finalizer: every thread has at most one open measurement;    *)
(* the units of work done while it is open leave it in one piece when it   *)
(* is closed, and are banked in one piece when they have been added; the   *)
(* process reports at most once, and exactly what is banked at that time.  *)
(* InjectDylib implements this specification.                              *)
(***************************************************************************)
EXTENDS Integers, Sequences

CONSTANTS
  Threads,
  MayRestart   \* whether an open measurement may be begun again (region mode)

VARIABLES
  open,     \* open[t]: units since t's measurement began, or Closed
  adding,   \* adding[t]: units of t in a closed measurement, not banked yet
  banked,   \* banked[t]: units of t that have been added up
  reports   \* what the process has reported: a sequence of totals

vars == <<open, adding, banked, reports>>

Closed == -1

Init ==
  /\ open = [t \in Threads |-> Closed]
  /\ adding = [t \in Threads |-> 0]
  /\ banked = [t \in Threads |-> 0]
  /\ reports = <<>>

\* A measurement begins.  Beginning again abandons the one that was open.
Begin(t) ==
  /\ MayRestart \/ open[t] = Closed
  /\ open' = [open EXCEPT ![t] = 0]
  /\ UNCHANGED <<adding, banked, reports>>

Work(t) ==
  /\ open[t] # Closed
  /\ open' = [open EXCEPT ![t] = @ + 1]
  /\ UNCHANGED <<adding, banked, reports>>

\* The whole open measurement is closed by one step, while nothing is being added ...
Close(t) ==
  /\ open[t] # Closed /\ adding[t] = 0
  /\ adding' = [adding EXCEPT ![t] = open[t]]
  /\ open' = [open EXCEPT ![t] = Closed]
  /\ UNCHANGED <<banked, reports>>

\* ... and banked, whole, by a later one.
Bank(t) ==
  /\ banked' = [banked EXCEPT ![t] = @ + adding[t]]
  /\ adding' = [adding EXCEPT ![t] = 0]
  /\ UNCHANGED <<open, reports>>

\* The process reports once: what is banked, no less and no more.
Report ==
  /\ reports = <<>>
  /\ reports' = <<banked>>
  /\ UNCHANGED <<open, adding, banked>>

\* A forked child starts its own ledger: nothing banked, nothing reported, and
\* at most the forking thread is being measured, from zero.
Renew(t) ==
  /\ open' \in {[u \in Threads |-> Closed],
                [u \in Threads |-> IF u = t THEN 0 ELSE Closed]}
  /\ adding' = [u \in Threads |-> 0]
  /\ banked' = [u \in Threads |-> 0]
  /\ reports' = <<>>

Next ==
  \/ \E t \in Threads : Begin(t) \/ Work(t) \/ Close(t) \/ Bank(t) \/ Renew(t)
  \/ Report

Spec == Init /\ [][Next]_vars
=============================================================================
