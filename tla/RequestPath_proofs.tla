------------------------- MODULE RequestPath_proofs -------------------------
(***************************************************************************)
(* For every number of requests, limit, retry count and backoff: the limiter *)
(* admits at most Max requests and its gauge follows them exactly, a call    *)
(* reaches the downstream no more often than its method allows, and only     *)
(* for a live request after a retryable outcome.                            *)
(***************************************************************************)
EXTENDS RequestPath, FiniteSetTheorems, TLAPS

Retryable == {"transport", "gateway", "gateway_unread"}

\* One call: it is never sent more often than attempts were begun, the loop
\* variable stays below the number of attempts, and a call that is on its way to
\* being sent again has a retryable outcome behind it.
LoopOK(r) ==
    /\ attempt[r] < attempts(method[r])
    /\ sent[r] <= attempt[r] + 1
    /\ pc[r] \in {"idle", "arrived", "admitted", "handling", "left"}
         => attempt[r] = 0 /\ sent[r] = 0
    /\ pc[r] \in {"ready", "again"} => sent[r] <= attempt[r]
    /\ pc[r] = "backoff" => attempt[r] + 1 < attempts(method[r])
    /\ pc[r] \in {"ready", "again", "backoff"} /\ sent[r] > 0 => last[r] \in Retryable

LoopInv == \A r \in Requests : LoopOK(r)

\* Every method has at least one attempt.
LEMMA AttemptsPositive == \A m : attempts(m) \in Nat \ {0}
  BY RequestAssumption DEF attempts

\* The type invariant, one group of actions after the other.
LEMMA TypeStep ==
    ASSUME TypeOK, [Next]_vars
    PROVE  TypeOK'
  <1> USE DEF TypeOK, Goto, loop, limiter, AddInflight, Inside
  <1>1. ASSUME NEW r \in Requests, Arrive(r)
        PROVE  TypeOK'
    BY <1>1 DEF Arrive
  <1>2. ASSUME NEW r \in Requests, Bypass(r) \/ Reject(r) \/ Cancel(r) \/ CountOut(r)
        PROVE  TypeOK'
    <2>1. ctx' \in [Requests -> BOOLEAN]
      BY <1>2, Zenon DEF Bypass, Reject, Cancel, CountOut
    <2>2. pc' \in [Requests -> {"idle", "arrived", "admitted", "left"} \cup Inside]
      BY <1>2 DEF Bypass, Reject, Cancel, CountOut
    <2>3. inflight' \in Int /\ sem' \in Int
      BY <1>2 DEF Bypass, Reject, Cancel, CountOut
    <2>4. UNCHANGED <<method, attempt, last, sent>>
      BY <1>2 DEF Bypass, Reject, Cancel, CountOut
    <2> QED
      BY <2>1, <2>2, <2>3, <2>4
  <1>3. ASSUME NEW r \in Requests, Admit(r) \/ CountIn(r) \/ Refuse(r) \/ NewRequest(r) \/ GiveUp(r)
        PROVE  TypeOK'
    BY <1>3 DEF Admit, CountIn, Refuse, NewRequest, GiveUp
  <1>4. ASSUME NEW r \in Requests, Leave(r) \/ Send(r) \/ Backoff(r)
        PROVE  TypeOK'
    BY <1>4 DEF Leave, Send, Backoff, Outcomes
  <1>5. ASSUME NEW r \in Requests, Transport(r)
        PROVE  TypeOK'
    BY <1>5 DEF Transport, Retry, Outcomes
  <1>6. ASSUME NEW r \in Requests, Respond(r)
        PROVE  TypeOK'
    BY <1>6 DEF Respond, Retry, Outcomes
  <1>7. CASE UNCHANGED vars
    BY <1>7 DEF vars
  <1> QED
    BY <1>1, <1>2, <1>3, <1>4, <1>5, <1>6, <1>7 DEF Next, Step

\* The retry loop.
LEMMA LoopStep ==
    ASSUME TypeOK, LoopInv, [Next]_vars
    PROVE  LoopInv'
  <1> SUFFICES ASSUME NEW q \in Requests
               PROVE  LoopOK(q)'
    BY DEF LoopInv
  <1> USE AttemptsPositive DEF TypeOK, Goto, loop, limiter, Inside, LoopOK
  <1>0. LoopOK(q)
    BY DEF LoopInv
  <1>1. ASSUME NEW r \in Requests, Arrive(r)
        PROVE  LoopOK(q)'
    BY <1>0, <1>1 DEF Arrive
  <1>2. ASSUME NEW r \in Requests, Bypass(r) \/ Reject(r) \/ Admit(r) \/ CountIn(r) \/ CountOut(r)
        PROVE  LoopOK(q)'
    BY <1>0, <1>2 DEF Bypass, Reject, Admit, CountIn, CountOut
  <1>3. ASSUME NEW r \in Requests, Leave(r)
        PROVE  LoopOK(q)'
    BY <1>0, <1>3 DEF Leave
  <1>4. ASSUME NEW r \in Requests, Refuse(r) \/ NewRequest(r) \/ GiveUp(r)
        PROVE  LoopOK(q)'
    BY <1>0, <1>4 DEF Refuse, NewRequest, GiveUp
  <1>5. ASSUME NEW r \in Requests, Send(r)
        PROVE  LoopOK(q)'
    BY <1>0, <1>5 DEF Send
  <1>6. ASSUME NEW r \in Requests, Transport(r)
        PROVE  LoopOK(q)'
    BY <1>0, <1>6 DEF Transport, Retry, Retryable
  <1>7. ASSUME NEW r \in Requests, Respond(r)
        PROVE  LoopOK(q)'
    <2>1. PICK o \in Answers : /\ last' = [last EXCEPT ![r] = o]
                               /\ Retry(r, retryableResponse(o))
      BY <1>7 DEF Respond
    <2> QED
      BY <1>0, <1>7, <2>1 DEF Respond, Retry, retryableResponse, Retryable
  <1>8. ASSUME NEW r \in Requests, Backoff(r)
        PROVE  LoopOK(q)'
    BY <1>0, <1>8 DEF Backoff
  <1>9. ASSUME NEW r \in Requests, Cancel(r)
        PROVE  LoopOK(q)'
    BY <1>0, <1>9 DEF Cancel
  <1>10. CASE UNCHANGED vars
    BY <1>0, <1>10 DEF vars
  <1> QED
    BY <1>1, <1>2, <1>3, <1>4, <1>5, <1>6, <1>7, <1>8, <1>9, <1>10 DEF Next, Step

\* The sets that slots and gauge count are finite.
LEMMA SetsFinite ==
    /\ IsFiniteSet(Holding) /\ Cardinality(Holding) \in Nat
    /\ IsFiniteSet(Counted) /\ Cardinality(Counted) \in Nat
  BY RequestAssumption, FS_Subset, FS_CardinalityType DEF Holding, Counted

\* A request enters the two sets in one order and leaves them in the same order;
\* each write of the limiter matches one of those four moments.
LEMMA AdmissionStep ==
    ASSUME TypeOK, AdmissionExact, [Next]_vars
    PROVE  AdmissionExact'
  <1> SUFFICES ASSUME Limited
               PROVE  /\ sem' = Cardinality(Holding')
                      /\ sem' <= Max
                      /\ inflight' = Cardinality(Counted')
    BY DEF AdmissionExact, Limited
  <1> USE RequestAssumption, SetsFinite DEF TypeOK, AdmissionExact, Goto, loop, limiter, Inside
  <1>1. ASSUME NEW r \in Requests, Admit(r)
        PROVE  sem' = Cardinality(Holding') /\ sem' <= Max /\ inflight' = Cardinality(Counted')
    <2>1. r \notin Holding /\ Holding' = Holding \cup {r} /\ Counted' = Counted
      BY <1>1 DEF Admit, Holding, Counted
    <2>2. Cardinality(Holding') = Cardinality(Holding) + 1
      BY <2>1, FS_AddElement
    <2> QED
      BY <1>1, <2>1, <2>2 DEF Admit
  <1>2. ASSUME NEW r \in Requests, CountIn(r)
        PROVE  sem' = Cardinality(Holding') /\ sem' <= Max /\ inflight' = Cardinality(Counted')
    <2>1. r \notin Counted /\ Counted' = Counted \cup {r} /\ Holding' = Holding
      BY <1>2 DEF CountIn, Holding, Counted
    <2>2. Cardinality(Counted') = Cardinality(Counted) + 1
      BY <2>1, FS_AddElement
    <2> QED
      BY <1>2, <2>1, <2>2 DEF CountIn, AddInflight
  <1>3. ASSUME NEW r \in Requests, Leave(r)
        PROVE  sem' = Cardinality(Holding') /\ sem' <= Max /\ inflight' = Cardinality(Counted')
    <2>1. r \in Holding /\ Holding' = Holding \ {r} /\ Counted' = Counted
      BY <1>3 DEF Leave, Holding, Counted
    <2>2. Cardinality(Holding') = Cardinality(Holding) - 1
      BY <2>1, FS_RemoveElement
    <2> QED
      BY <1>3, <2>1, <2>2 DEF Leave
  <1>4. ASSUME NEW r \in Requests, CountOut(r)
        PROVE  sem' = Cardinality(Holding') /\ sem' <= Max /\ inflight' = Cardinality(Counted')
    <2>1. r \in Counted /\ Counted' = Counted \ {r} /\ Holding' = Holding
      BY <1>4 DEF CountOut, Holding, Counted
    <2>2. Cardinality(Counted') = Cardinality(Counted) - 1
      BY <2>1, FS_RemoveElement
    <2>3. Cardinality(Counted) # 0
      BY <2>1, FS_EmptySet
    <2> QED
      BY <1>4, <2>1, <2>2, <2>3 DEF CountOut, AddInflight
  <1>5. ASSUME Holding' = Holding, Counted' = Counted, UNCHANGED limiter
        PROVE  sem' = Cardinality(Holding') /\ sem' <= Max /\ inflight' = Cardinality(Counted')
    BY <1>5
  <1>6. ASSUME NEW r \in Requests, Arrive(r) \/ Bypass(r) \/ Reject(r) \/ Cancel(r)
        PROVE  Holding' = Holding /\ Counted' = Counted /\ UNCHANGED limiter
    BY <1>6 DEF Arrive, Bypass, Reject, Cancel, Holding, Counted
  <1>7. ASSUME NEW r \in Requests,
               Refuse(r) \/ NewRequest(r) \/ Send(r) \/ Backoff(r) \/ GiveUp(r)
        PROVE  Holding' = Holding /\ Counted' = Counted /\ UNCHANGED limiter
    BY <1>7 DEF Refuse, NewRequest, Send, Backoff, GiveUp, Holding, Counted
  <1>8. ASSUME NEW r \in Requests, Transport(r) \/ Respond(r)
        PROVE  Holding' = Holding /\ Counted' = Counted /\ UNCHANGED limiter
    BY <1>8 DEF Transport, Respond, Retry, Holding, Counted
  <1>9. CASE UNCHANGED vars
    BY <1>9 DEF vars, Holding, Counted
  <1> QED
    BY <1>1, <1>2, <1>3, <1>4, <1>5, <1>6, <1>7, <1>8, <1>9 DEF Next, Step

PathInv == TypeOK /\ LoopInv /\ AdmissionExact

\* The three invariants hold together.
LEMMA PathInvariant == Spec => []PathInv
  <1>1. Init => PathInv
    <2> SUFFICES ASSUME Init
                 PROVE  PathInv
      OBVIOUS
    <2>1. ctx \in [Requests -> BOOLEAN]
      BY Zenon DEF Init
    <2>2. TypeOK
      BY <2>1 DEF Init, TypeOK, Methods, Outcomes
    <2>3. LoopInv
      BY AttemptsPositive DEF Init, LoopInv, LoopOK
    <2>4. Holding = {} /\ Counted = {}
      BY DEF Init, Holding, Counted, Inside
    <2> QED
      BY <2>2, <2>3, <2>4, FS_EmptySet, RequestAssumption DEF Init, PathInv, AdmissionExact
  <1>2. PathInv /\ [Next]_vars => PathInv'
    BY TypeStep, LoopStep, AdmissionStep DEF PathInv
  <1> QED
    BY <1>1, <1>2, PTL DEF Spec

\* Every variable keeps its type.
THEOREM TypeCorrect == Spec => []TypeOK
  BY PathInvariant, PTL DEF PathInv

\* The limiter admits at most Max requests, and slots and gauge are exact.
THEOREM AdmissionSafe == Spec => []AdmissionExact
  BY PathInvariant, PTL DEF PathInv

\* A mutation is sent at most once, a read at most 1 + MaxRetries times.
THEOREM SendsBounded == Spec => []SentBound
  <1>1. PathInv => SentBound
    BY RequestAssumption
    DEF PathInv, TypeOK, LoopInv, LoopOK, SentBound, attempts, isIdempotent
  <1> QED
    BY <1>1, PathInvariant, PTL

\* Nothing is sent for a dead request or after a final answer.
THEOREM RetriesJustified == Spec => RetryJustified
  <1> DEFINE Justified ==
        \A r \in Requests :
          sent'[r] > sent[r] =>
            ctx[r] /\ (sent[r] > 0 => last[r] \in {"transport", "gateway", "gateway_unread"})
  <1>1. PathInv /\ [Next]_vars => [Justified]_vars
    <2> SUFFICES ASSUME PathInv, Next, NEW q \in Requests, sent'[q] > sent[q]
                 PROVE  ctx[q] /\ (sent[q] > 0 => last[q] \in Retryable)
      BY DEF Retryable
    <2>1. PICK r \in Requests : Arrive(r) \/ Step(r) \/ Cancel(r)
      BY DEF Next
    <2>2. Send(r) \/ Leave(r)
      BY <2>1 DEF PathInv, TypeOK, Step, Arrive, Cancel, Bypass, Admit, Reject, CountIn, CountOut,
                  Refuse, NewRequest, Transport, Respond, Backoff, GiveUp, loop
    <2>3. Send(r) /\ q = r
      BY <2>2 DEF PathInv, TypeOK, Send, Leave
    <2> QED
      BY <2>3 DEF PathInv, LoopInv, LoopOK, Send
  <1> QED
    BY <1>1, PathInvariant, PTL DEF Spec, RetryJustified
=============================================================================
