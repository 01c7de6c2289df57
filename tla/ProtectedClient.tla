--------------------------- MODULE ProtectedClient ---------------------------
(***************************************************************************)
(* The bulkhead and circuit breaker around one downstream service          *)
(* (internal/outbound/protected.go).  Every goroutine that calls DoJSON is  *)
(* one element of Calls.  A call takes a bulkhead permit, asks the breaker, *)
(* runs the inner client and reports the result to the breaker; the permit  *)
(* is given back by a deferred function, as the last step.                  *)
(*                                                                         *)
(* beforeRequest and afterResult hold the breaker's mutex throughout, so    *)
(* each is one action.  The breaker only ever compares Now() - openedAt     *)
(* with OpenFor: the model keeps `open` (openedAt is not the zero time) and  *)
(* `elapsed`, the time since openedAt, which saturates at OpenFor.          *)
(***************************************************************************)
EXTENDS Integers, FiniteSets

CONSTANTS
    Calls,             \* the goroutines that may be inside DoJSON
    MaxConcurrent,     \* ProtectedClient.MaxConcurrent; 0 or less: no bulkhead
    FailureThreshold,  \* ProtectedClient.FailureThreshold as configured
    OpenFor            \* ProtectedClient.OpenFor as configured, in clock ticks

ASSUME ProtectedAssumption ==
    /\ IsFiniteSet(Calls)
    /\ MaxConcurrent \in Int
    /\ FailureThreshold \in Int
    /\ OpenFor \in Int

VARIABLES
    pc,         \* where each call is in DoJSON
    ret,        \* the error the call is about to return, or a rejected one returned
    probe,      \* history: the call was admitted by the half-open branch
    sem,        \* len(c.sem)
    failures,   \* c.failures
    open,       \* ~c.openedAt.IsZero()
    elapsed,    \* Now() - c.openedAt, at most OpenFor
    halfOpen,   \* c.halfOpen
    sinceProbe, \* history: time since the last half-open admission, at most OpenFor
    healthy     \* environment: the downstream service answers

breaker == <<failures, open, elapsed, halfOpen>>
vars == <<pc, ret, probe, sem, failures, open, elapsed, halfOpen, sinceProbe, healthy>>

\* The defaults that init() substitutes.
Threshold == IF FailureThreshold <= 0 THEN 5 ELSE FailureThreshold
Interval == IF OpenFor <= 0 THEN 15 ELSE OpenFor
Bulkhead == MaxConcurrent > 0

\* The errors the inner client can return: none; a cancelled context; *Error of
\* kind unavailable (502, 503, 504); a transport error; *Error of another kind;
\* and every other error (token lookup, encoding, an oversized or undecodable body).
Results == {"ok", "canceled", "unavailable", "transport", "status", "local"}
Outcomes == Results \cup {"none", "bulkhead_full", "circuit_open", "circuit_half_open"}

isCircuitFailure(err) == err \notin {"ok", "canceled", "status"}

\* While `healthy`, the downstream answers and nothing fails on the way to it.
ResultsNow == IF healthy THEN {"ok", "status", "canceled"} ELSE Results

Init ==
    /\ pc = [c \in Calls |-> "idle"]
    /\ ret = [c \in Calls |-> "none"]
    /\ probe = [c \in Calls |-> FALSE]
    /\ sem = 0
    /\ failures = 0
    /\ open = FALSE
    /\ elapsed = 0
    /\ halfOpen = FALSE
    /\ sinceProbe = Interval
    /\ healthy = FALSE
-----------------------------------------------------------------------------
\* The non-blocking send on c.sem succeeds (or there is no bulkhead).
Acquire(c) ==
    /\ pc[c] = "idle"
    /\ Bulkhead => sem < MaxConcurrent
    /\ sem' = IF Bulkhead THEN sem + 1 ELSE sem
    /\ pc' = [pc EXCEPT ![c] = "acquired"]
    /\ ret' = [ret EXCEPT ![c] = "none"]
    /\ UNCHANGED <<probe, breaker, sinceProbe, healthy>>

\* The default branch of the select: the call fails at once.
RejectBulkhead(c) ==
    /\ pc[c] = "idle"
    /\ Bulkhead
    /\ sem >= MaxConcurrent
    /\ ret' = [ret EXCEPT ![c] = "bulkhead_full"]
    /\ UNCHANGED <<pc, probe, sem, breaker, sinceProbe, healthy>>

\* Mutants of Refuse: the refused call sets the half-open mark; the refusal skips
\* the deferred release.
RefuseMarks(c) ==
    /\ open /\ (elapsed < Interval \/ halfOpen)
    /\ pc' = [pc EXCEPT ![c] = "leaving"]
    /\ ret' = [ret EXCEPT ![c] = "circuit_open"]
    /\ halfOpen' = TRUE
    /\ UNCHANGED <<probe, sinceProbe>>

RefuseLeaks(c) ==
    /\ open /\ (elapsed < Interval \/ halfOpen)
    /\ pc' = [pc EXCEPT ![c] = "idle"]
    /\ ret' = [ret EXCEPT ![c] = "circuit_open"]
    /\ UNCHANGED <<probe, halfOpen, sinceProbe>>

\* An open circuit refuses until the interval is over, and while a probe is out.
Refuse(c) ==
    /\ open
    /\ elapsed < Interval \/ halfOpen
    /\ pc' = [pc EXCEPT ![c] = "leaving"]
    /\ ret' = [ret EXCEPT ![c] =
                  IF elapsed < Interval THEN "circuit_open" ELSE "circuit_half_open"]
    /\ UNCHANGED <<probe, halfOpen, sinceProbe>>

\* A closed circuit admits; an open one whose interval is over admits the first
\* caller as its half-open probe.
Admit(c) ==
    /\ open => elapsed >= Interval /\ ~halfOpen
    /\ pc' = [pc EXCEPT ![c] = "inflight"]
    /\ probe' = [probe EXCEPT ![c] = open]
    /\ halfOpen' = (halfOpen \/ open)
    /\ sinceProbe' = IF open THEN 0 ELSE sinceProbe
    /\ UNCHANGED ret

beforeRequest(c) ==
    /\ pc[c] = "acquired"
    /\ Refuse(c) \/ Admit(c)
    /\ UNCHANGED <<sem, failures, open, elapsed, healthy>>

\* A mutant: a result that is not a failure leaves openedAt set.
CloseKeepsOpen ==
    /\ failures' = 0
    /\ halfOpen' = FALSE
    /\ UNCHANGED <<open, elapsed, sinceProbe>>

\* afterResult for a result that is no circuit failure.  Closing also forgets the
\* last probe: sinceProbe speaks of one open period.
Close ==
    /\ failures' = 0
    /\ open' = FALSE
    /\ elapsed' = 0
    /\ halfOpen' = FALSE
    /\ sinceProbe' = Interval

\* A mutant: the open interval is not restarted.
ReopenStale ==
    /\ open' = TRUE
    /\ halfOpen' = FALSE
    /\ failures' = Threshold
    /\ UNCHANGED <<elapsed, sinceProbe>>

\* afterResult for a failure while the half-open mark is set.
Reopen ==
    /\ open' = TRUE
    /\ elapsed' = 0
    /\ halfOpen' = FALSE
    /\ failures' = Threshold
    /\ UNCHANGED sinceProbe

Trips(n) == n >= Threshold

\* afterResult for any other failure; an already open circuit opens anew.
Count ==
    /\ failures' = failures + 1
    /\ open' = (open \/ Trips(failures + 1))
    /\ elapsed' = IF Trips(failures + 1) THEN 0 ELSE elapsed
    /\ UNCHANGED <<halfOpen, sinceProbe>>

\* The inner client returned err, and afterResult reports it.  The breaker is not
\* told which admission the result belongs to.
afterResult(c) ==
    /\ pc[c] = "inflight"
    /\ \E err \in ResultsNow :
        /\ ret' = [ret EXCEPT ![c] = err]
        /\ \/ ~isCircuitFailure(err) /\ Close
           \/ isCircuitFailure(err) /\ halfOpen /\ Reopen
           \/ isCircuitFailure(err) /\ ~halfOpen /\ Count
    /\ pc' = [pc EXCEPT ![c] = "leaving"]
    /\ UNCHANGED <<probe, sem, healthy>>

\* The deferred receive from c.sem, and the return.
Release(c) ==
    /\ pc[c] = "leaving"
    /\ sem' = IF Bulkhead THEN sem - 1 ELSE sem
    /\ pc' = [pc EXCEPT ![c] = "idle"]
    /\ ret' = [ret EXCEPT ![c] = "none"]
    /\ probe' = [probe EXCEPT ![c] = FALSE]
    /\ UNCHANGED <<breaker, sinceProbe, healthy>>
-----------------------------------------------------------------------------
\* The environment: time passes, and the downstream fails and recovers.
Tick ==
    /\ \/ open /\ elapsed < Interval
       \/ sinceProbe < Interval
    /\ elapsed' = IF open /\ elapsed < Interval THEN elapsed + 1 ELSE elapsed
    /\ sinceProbe' = IF sinceProbe < Interval THEN sinceProbe + 1 ELSE sinceProbe
    /\ UNCHANGED <<pc, ret, probe, sem, failures, open, halfOpen, healthy>>

ToggleHealth ==
    /\ healthy' = ~healthy
    /\ UNCHANGED <<pc, ret, probe, sem, breaker, sinceProbe>>

DoJSON(c) ==
    \/ Acquire(c)
    \/ RejectBulkhead(c)
    \/ beforeRequest(c)
    \/ afterResult(c)
    \/ Release(c)

Next == Tick \/ ToggleHealth \/ \E c \in Calls : DoJSON(c)

Spec == Init /\ [][Next]_vars

\* Every started call finishes (the inner client has a timeout and the breaker's
\* mutex is held briefly), time passes, and callers keep calling.
Fairness ==
    /\ WF_vars(Tick)
    /\ \A c \in Calls : /\ WF_vars(beforeRequest(c))
                        /\ WF_vars(afterResult(c))
                        /\ WF_vars(Release(c))
                        /\ SF_vars(Acquire(c))

FairSpec == Spec /\ Fairness
-----------------------------------------------------------------------------
Holders == {c \in Calls : pc[c] # "idle"}
InFlight == {c \in Calls : pc[c] = "inflight"}

\* The type invariant: the breaker's fields and each call's place in DoJSON.
TypeOK ==
    /\ pc \in [Calls -> {"idle", "acquired", "inflight", "leaving"}]
    /\ ret \in [Calls -> Outcomes]
    /\ probe \in [Calls -> BOOLEAN]
    /\ sem \in Nat
    /\ failures \in Nat
    /\ open \in BOOLEAN
    /\ elapsed \in 0..Interval
    /\ halfOpen \in BOOLEAN
    /\ sinceProbe \in 0..Interval
    /\ healthy \in BOOLEAN

\* DoJSON's permits are never lost and never exceeded: on every path, a refusal by
\* the breaker included, the channel holds exactly the calls that have not yet run
\* their deferred release, so at most MaxConcurrent calls are downstream at once.
PermitsAccounted ==
    Bulkhead => /\ sem = Cardinality(Holders)
                /\ Cardinality(InFlight) <= MaxConcurrent

\* The two ways the code writes down "open" never disagree, whatever order stale
\* results arrive in: openedAt is set exactly while the failure count is at or over
\* the threshold, and the half-open mark exists only on an open circuit.
OpenIffThreshold ==
    /\ open <=> failures >= Threshold
    /\ halfOpen => open

\* The half-open mark, which refuses every other caller, is never left behind: some
\* admitted probe is still downstream and its result will clear the mark.
HalfOpenHasProbe ==
    halfOpen => \E c \in InFlight : probe[c]

\* While the circuit stays open, the calls that beforeRequest lets through are at
\* least OpenFor apart, even when results of older calls clear the half-open mark.
ProbesSpaced ==
    [][\A c \in Calls :
          (pc[c] = "acquired" /\ pc'[c] = "inflight" /\ open) => sinceProbe >= Interval]_vars

\* afterResult and beforeRequest recover: once the downstream stays healthy, the
\* circuit is eventually closed for good.
Recovers == <>[]healthy => <>[](~open)

\* docs/OPERATIONAL_SECURITY.md: "After the open interval, only one half-open probe
\* is admitted."  No two admitted probes are downstream at the same time.
OneProbe == Cardinality({c \in InFlight : probe[c]}) <= 1
=============================================================================
