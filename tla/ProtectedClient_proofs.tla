----------------------- MODULE ProtectedClient_proofs -----------------------
(***************************************************************************)
(* For every number of calls, bulkhead size, threshold and open interval:  *)
(* the breaker's fields agree with each other, the half-open mark always    *)
(* belongs to a call that is still downstream, probes of one open period    *)
(* are OpenFor apart, and permits are accounted for.                        *)
(***************************************************************************)
EXTENDS ProtectedClient, FiniteSetTheorems, TLAPS

\* What makes ProbesSpaced inductive: on an open circuit without a probe out, the
\* interval was restarted no earlier than the last probe was admitted.
IntervalCoversProbe == open /\ ~halfOpen => elapsed <= sinceProbe

BreakerInv ==
    /\ TypeOK
    /\ OpenIffThreshold
    /\ HalfOpenHasProbe
    /\ IntervalCoversProbe

\* The channel never holds more than its capacity, and exactly the unreleased calls.
PermitInv == Bulkhead => /\ sem = Cardinality(Holders)
                         /\ sem <= MaxConcurrent

\* The defaults of init() are positive whatever was configured.
LEMMA DefaultsPositive == Threshold \in Nat \ {0} /\ Interval \in Nat \ {0}
  BY ProtectedAssumption DEF Threshold, Interval

\* The unreleased calls are finitely many.
LEMMA HoldersFinite == IsFiniteSet(Holders) /\ Cardinality(Holders) \in Nat
  BY ProtectedAssumption, FS_Subset, FS_CardinalityType DEF Holders

\* A permit taken adds one holder, a permit given back removes one, and every other
\* step leaves the holders as they are.
LEMMA PermitStep ==
    ASSUME TypeOK, PermitInv, [Next]_vars
    PROVE  PermitInv' /\ sem' \in Nat
  <1> USE DEF TypeOK, PermitInv, breaker
  <1>1. ASSUME NEW c \in Calls, Acquire(c)
        PROVE  PermitInv' /\ sem' \in Nat
    <2>1. c \notin Holders /\ Holders' = Holders \cup {c}
      BY <1>1 DEF Acquire, Holders
    <2>2. Cardinality(Holders') = Cardinality(Holders) + 1
      BY <2>1, HoldersFinite, FS_AddElement
    <2> QED
      BY <1>1, <2>2, ProtectedAssumption DEF Acquire, Bulkhead
  <1>2. ASSUME NEW c \in Calls, Release(c)
        PROVE  PermitInv' /\ sem' \in Nat
    <2>1. c \in Holders /\ Holders' = Holders \ {c}
      BY <1>2 DEF Release, Holders
    <2>2. Cardinality(Holders') = Cardinality(Holders) - 1
      BY <2>1, HoldersFinite, FS_RemoveElement
    <2>3. Cardinality(Holders) # 0
      BY <2>1, HoldersFinite, FS_EmptySet
    <2> QED
      BY <1>2, <2>2, <2>3, HoldersFinite, ProtectedAssumption DEF Release, Bulkhead
  <1>3. ASSUME sem' = sem, Holders' = Holders
        PROVE  PermitInv' /\ sem' \in Nat
    BY <1>3 DEF Bulkhead
  <1>4. ASSUME NEW c \in Calls, RejectBulkhead(c) \/ beforeRequest(c) \/ afterResult(c)
        PROVE  sem' = sem /\ Holders' = Holders
    BY <1>4 DEF RejectBulkhead, beforeRequest, Refuse, Admit, afterResult, Holders
  <1>5. ASSUME Tick \/ ToggleHealth \/ UNCHANGED vars
        PROVE  sem' = sem /\ Holders' = Holders
    BY <1>5 DEF Tick, ToggleHealth, vars, Holders
  <1> QED
    BY <1>1, <1>2, <1>3, <1>4, <1>5 DEF Next, DoJSON

\* The type invariant of the breaker and its calls.
THEOREM TypeCorrect == Spec => [](TypeOK /\ PermitInv)
  <1>1. Init => TypeOK /\ PermitInv
    <2> SUFFICES ASSUME Init
                 PROVE  TypeOK /\ PermitInv
      OBVIOUS
    <2>1. TypeOK
      <3>1. sem \in Nat /\ failures \in Nat /\ elapsed \in 0..Interval /\ sinceProbe \in 0..Interval
        BY DefaultsPositive DEF Init
      <3>2. ret \in [Calls -> Outcomes] /\ probe \in [Calls -> BOOLEAN]
        BY DEF Init, Outcomes
      <3>3. pc \in [Calls -> {"idle", "acquired", "inflight", "leaving"}]
        BY DEF Init
      <3> QED
        BY <3>1, <3>2, <3>3 DEF Init, TypeOK
    <2>2. Holders = {}
      BY DEF Init, Holders
    <2> QED
      BY <2>1, <2>2, FS_EmptySet, ProtectedAssumption DEF Init, PermitInv, Bulkhead
  <1>2. TypeOK /\ PermitInv /\ [Next]_vars => (TypeOK /\ PermitInv)'
    <2> SUFFICES ASSUME TypeOK, PermitInv, [Next]_vars
                 PROVE  TypeOK' /\ PermitInv'
      OBVIOUS
    <2>1. PermitInv' /\ sem' \in Nat
      BY PermitStep
    <2> USE DefaultsPositive DEF TypeOK, breaker
    <2>2. ASSUME NEW c \in Calls, Acquire(c) \/ RejectBulkhead(c) \/ Release(c)
          PROVE  TypeOK'
      BY <2>1, <2>2 DEF Acquire, RejectBulkhead, Release, Outcomes
    <2>3. ASSUME NEW c \in Calls, beforeRequest(c)
          PROVE  TypeOK'
      <3>1. CASE Refuse(c)
        BY <2>1, <2>3, <3>1 DEF beforeRequest, Refuse, Outcomes
      <3>2. CASE Admit(c)
        BY <2>1, <2>3, <3>2 DEF beforeRequest, Admit
      <3> QED
        BY <2>3, <3>1, <3>2 DEF beforeRequest
    <2>4. ASSUME NEW c \in Calls, afterResult(c)
          PROVE  TypeOK'
      <3>1. PICK err \in ResultsNow :
              /\ ret' = [ret EXCEPT ![c] = err]
              /\ Close \/ Reopen \/ Count
        BY <2>4 DEF afterResult
      <3>2. ret' \in [Calls -> Outcomes]
        BY <3>1 DEF ResultsNow, Results, Outcomes
      <3>3. failures' \in Nat /\ elapsed' \in 0..Interval /\ sinceProbe' \in 0..Interval
        BY <3>1 DEF Close, Reopen, Count
      <3>4. open' \in BOOLEAN /\ halfOpen' \in BOOLEAN
        BY <3>1 DEF Close, Reopen, Count
      <3> QED
        BY <2>1, <2>4, <3>2, <3>3, <3>4 DEF afterResult
    <2>5. CASE Tick
      BY <2>1, <2>5 DEF Tick
    <2>6. CASE ToggleHealth
      BY <2>1, <2>6 DEF ToggleHealth
    <2>7. CASE UNCHANGED vars
      BY <2>1, <2>7 DEF vars
    <2> QED
      BY <2>1, <2>2, <2>3, <2>4, <2>5, <2>6, <2>7 DEF Next, DoJSON
  <1> QED
    BY <1>1, <1>2, PTL DEF Spec

\* At most MaxConcurrent calls are downstream and no permit is ever lost.
THEOREM PermitsSafe == Spec => []PermitsAccounted
  <1>1. TypeOK /\ PermitInv => PermitsAccounted
    <2> SUFFICES ASSUME TypeOK, PermitInv, Bulkhead
                 PROVE  Cardinality(InFlight) <= MaxConcurrent
      BY DEF PermitInv, PermitsAccounted
    <2>1. InFlight \subseteq Holders
      BY DEF InFlight, Holders
    <2>2. Cardinality(InFlight) <= Cardinality(Holders) /\ Cardinality(InFlight) \in Nat
      BY <2>1, HoldersFinite, FS_Subset, FS_CardinalityType
    <2> QED
      BY <2>2, HoldersFinite, ProtectedAssumption DEF PermitInv
  <1> QED
    BY <1>1, TypeCorrect, PTL

\* A result clears the half-open mark or finds it clear, keeps openedAt and the count
\* in step, and restarts the interval whenever it leaves the circuit open.
LEMMA ResultStep ==
    ASSUME TypeOK, OpenIffThreshold, IntervalCoversProbe, Close \/ Reopen \/ (~halfOpen /\ Count)
    PROVE  OpenIffThreshold' /\ IntervalCoversProbe' /\ ~halfOpen'
  <1> USE DefaultsPositive DEF TypeOK, OpenIffThreshold, IntervalCoversProbe
  <1>1. CASE Close
    BY <1>1 DEF Close
  <1>2. CASE Reopen
    BY <1>2 DEF Reopen
  <1>3. CASE ~halfOpen /\ Count
    <2>1. Trips(failures + 1) <=> failures + 1 >= Threshold
      BY DEF Trips
    <2>2. failures' >= Threshold <=> open'
      <3>1. open => failures + 1 >= Threshold
        OBVIOUS
      <3>2. open' <=> Trips(failures + 1)
        BY <1>3, <2>1, <3>1 DEF Count
      <3>3. failures' = failures + 1
        BY <1>3 DEF Count
      <3> QED
        BY <2>1, <3>2, <3>3
    <2>3. open' => elapsed' = 0
      BY <1>3, <2>1 DEF Count
    <2> QED
      BY <1>3, <2>2, <2>3 DEF Count
  <1> QED
    BY <1>1, <1>2, <1>3

\* Each of the breaker's invariants is kept by every step.
LEMMA BreakerStep == TypeOK' /\ BreakerInv /\ [Next]_vars => BreakerInv'
  <1> SUFFICES ASSUME TypeOK', BreakerInv, [Next]_vars
               PROVE  OpenIffThreshold' /\ HalfOpenHasProbe' /\ IntervalCoversProbe'
    BY DEF BreakerInv
  <1> USE DEF BreakerInv
  <1>1. ASSUME NEW c \in Calls, Acquire(c) \/ RejectBulkhead(c) \/ Release(c)
        PROVE  OpenIffThreshold' /\ HalfOpenHasProbe' /\ IntervalCoversProbe'
    <2>1. UNCHANGED <<failures, open, elapsed, halfOpen, sinceProbe>> /\ InFlight \subseteq InFlight'
      BY <1>1 DEF Acquire, RejectBulkhead, Release, breaker, InFlight, TypeOK
    <2>2. \A d \in InFlight : probe[d] => probe'[d]
      BY <1>1 DEF Acquire, RejectBulkhead, Release, InFlight, TypeOK
    <2> QED
      BY <2>1, <2>2 DEF OpenIffThreshold, HalfOpenHasProbe, IntervalCoversProbe
  <1>2. ASSUME NEW c \in Calls, pc[c] = "acquired", Refuse(c), UNCHANGED <<failures, open, elapsed>>
        PROVE  OpenIffThreshold' /\ HalfOpenHasProbe' /\ IntervalCoversProbe'
    <2>1. UNCHANGED <<failures, open, elapsed, halfOpen, sinceProbe, probe>> /\ InFlight \subseteq InFlight'
      BY <1>2 DEF Refuse, InFlight, TypeOK
    <2> QED
      BY <2>1 DEF OpenIffThreshold, HalfOpenHasProbe, IntervalCoversProbe
  <1>3. ASSUME NEW c \in Calls, pc[c] = "acquired", Admit(c), UNCHANGED <<failures, open, elapsed>>
        PROVE  OpenIffThreshold' /\ HalfOpenHasProbe' /\ IntervalCoversProbe'
    <2>1. c \in InFlight' /\ (open => probe'[c])
      BY <1>3 DEF Admit, InFlight, TypeOK
    <2>2. open <=> halfOpen'
      BY <1>3 DEF Admit, OpenIffThreshold, TypeOK
    <2>3. OpenIffThreshold'
      BY <1>3, <2>2 DEF OpenIffThreshold
    <2>4. HalfOpenHasProbe'
      BY <2>1, <2>2 DEF HalfOpenHasProbe
    <2>5. IntervalCoversProbe'
      BY <1>3, <2>2 DEF IntervalCoversProbe
    <2> QED
      BY <2>3, <2>4, <2>5
  <1>4. ASSUME NEW c \in Calls, afterResult(c)
        PROVE  OpenIffThreshold' /\ HalfOpenHasProbe' /\ IntervalCoversProbe'
    <2>1. Close \/ Reopen \/ (~halfOpen /\ Count)
      BY <1>4 DEF afterResult
    <2> QED
      BY <2>1, ResultStep DEF HalfOpenHasProbe
  <1>5. CASE Tick
    <2>1. UNCHANGED <<failures, open, halfOpen, probe, InFlight>>
      BY <1>5 DEF Tick, InFlight
    <2>2. IntervalCoversProbe'
      BY <1>5, <2>1, DefaultsPositive DEF Tick, IntervalCoversProbe, TypeOK
    <2> QED
      BY <2>1, <2>2 DEF OpenIffThreshold, HalfOpenHasProbe
  <1>6. CASE ToggleHealth \/ UNCHANGED vars
    <2>1. UNCHANGED <<failures, open, elapsed, halfOpen, sinceProbe, probe, InFlight>>
      BY <1>6 DEF ToggleHealth, vars, breaker, InFlight
    <2> QED
      BY <2>1 DEF OpenIffThreshold, HalfOpenHasProbe, IntervalCoversProbe
  <1> QED
    BY <1>1, <1>2, <1>3, <1>4, <1>5, <1>6 DEF Next, DoJSON, beforeRequest

LEMMA BreakerInvariant == Spec => []BreakerInv
  <1>1. Init => OpenIffThreshold /\ HalfOpenHasProbe /\ IntervalCoversProbe
    BY DefaultsPositive DEF Init, OpenIffThreshold, HalfOpenHasProbe, IntervalCoversProbe
  <1>2. TypeOK /\ OpenIffThreshold /\ HalfOpenHasProbe /\ IntervalCoversProbe => BreakerInv
    BY DEF BreakerInv
  <1> QED
    BY <1>1, <1>2, TypeCorrect, BreakerStep, PTL DEF Spec

\* openedAt is set exactly while the failure count is at or over the threshold.
THEOREM BreakerConsistent == Spec => []OpenIffThreshold
  BY BreakerInvariant, PTL DEF BreakerInv

\* Whoever is refused as half-open is waiting for a call that is really downstream.
THEOREM HalfOpenAccounted == Spec => []HalfOpenHasProbe
  BY BreakerInvariant, PTL DEF BreakerInv

\* On an open circuit, admissions are at least OpenFor apart.
THEOREM ProbeSpacing == Spec => ProbesSpaced
  <1>1. ASSUME BreakerInv, [Next]_vars, NEW c \in Calls,
               pc[c] = "acquired", pc'[c] = "inflight", open
        PROVE  sinceProbe >= Interval
    <2>1. Admit(c)
      <3>1. ~(Tick \/ ToggleHealth \/ UNCHANGED vars)
        BY <1>1 DEF Tick, ToggleHealth, vars
      <3>2. PICK d \in Calls : DoJSON(d)
        BY <1>1, <3>1 DEF Next
      <3>3. pc[d] # "idle" => d = c
        BY <1>1, <3>2 DEF DoJSON, Acquire, RejectBulkhead, beforeRequest, Refuse, Admit,
                          afterResult, Release, BreakerInv, TypeOK
      <3> QED
        BY <1>1, <3>2, <3>3 DEF DoJSON, Acquire, RejectBulkhead, beforeRequest, Refuse, Admit,
                          afterResult, Release, BreakerInv, TypeOK
    <2> QED
      BY <1>1, <2>1, DefaultsPositive DEF Admit, BreakerInv, IntervalCoversProbe, TypeOK
  <1>2. BreakerInv /\ [Next]_vars =>
          [\A c \in Calls :
             (pc[c] = "acquired" /\ pc'[c] = "inflight" /\ open) => sinceProbe >= Interval]_vars
    BY <1>1
  <1> QED
    BY <1>2, BreakerInvariant, PTL DEF Spec, ProbesSpaced
=============================================================================
