-------------------------- MODULE RegionApiProofs --------------------------
(***************************************************************************)
(* Proof that no call of the region API is lost, for any number of threads *)
(* and calls.  Whoever is past the test of the cell has a filled cell in   *)
(* front of it: that is what has to be carried along.                      *)
(***************************************************************************)
EXTENDS RegionApi, TLAPS

\* What a thread may rely on, where it is.
Resolved ==
  /\ \A f \in Functions : cell[f] = "done" => fn[f] = Found
  /\ \A f \in Functions : fn[f] \in {"null", Found}
  /\ \A t \in Threads : pc[t] \in {"load", "store", "publish", "call"} => name[t] \in Functions
  /\ \A t \in Threads : pc[t] \in {"publish", "call"} => fn[name[t]] = Found

IInv == TypeOK /\ Resolved /\ NoCallLost

\* The inductive invariant holds before the first call (the statics of apmc.h:30-31 and
\* region.rs:36-37).
LEMMA InitInv == Init => IInv
<1> SUFFICES ASSUME Init PROVE IInv
  OBVIOUS
<1>1. TypeOK
  <2>1. calls \in [Threads -> 0 .. MaxCalls]
    BY RegionApiAssumption DEF Init
  <2> QED
    BY <2>1 DEF Init, TypeOK, Functions
<1>2. Resolved
  BY DEF Init, Resolved
<1>3. NoCallLost
  BY DEF Init, NoCallLost
<1> QED
  BY <1>1, <1>2, <1>3 DEF IInv

\* Every step of a call, and a fork, keeps it.
LEMMA StepInv == IInv /\ [Next]_vars => IInv'
<1> SUFFICES ASSUME IInv, [Next]_vars PROVE IInv'
  OBVIOUS
<1> USE DEF IInv, TypeOK, Resolved, NoCallLost, Functions, Found, Goto
<1>1. ASSUME NEW t \in Threads, Enter(t) PROVE IInv'
  BY <1>1, RegionApiAssumption DEF Enter
<1>2. ASSUME NEW t \in Threads, Load(t) PROVE IInv'
  BY <1>2 DEF Load
<1>3. ASSUME NEW t \in Threads, Store(t) PROVE IInv'
  BY <1>3 DEF Store
<1>4. ASSUME NEW t \in Threads, Publish(t) PROVE IInv'
  BY <1>4 DEF Publish
<1>5. ASSUME NEW t \in Threads, Call(t) PROVE IInv'
  BY <1>5 DEF Call
<1>6. ASSUME NEW t \in Threads, Fork(t) PROVE IInv'
  BY <1>6 DEF Fork
<1>7. CASE UNCHANGED vars
  BY <1>7 DEF vars
<1> QED
  BY <1>1, <1>2, <1>3, <1>4, <1>5, <1>6, <1>7 DEF Next, Step, Finished

\* Every call of apmc_start or apmc_stop, from C or from Rust, reaches the library exactly
\* once when it is loaded and does nothing when it is not (apmc.h:32-38, region.rs:42-57).
THEOREM NoCallIsLost == Spec => []NoCallLost
<1>1. IInv => NoCallLost
  BY DEF IInv
<1> QED
  BY InitInv, StepInv, <1>1, PTL DEF Spec
=============================================================================
