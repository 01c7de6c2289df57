----------------------------- MODULE RequestPath -----------------------------
(***************************************************************************)
(* The life of an HTTP request from the concurrency limiter                  *)
(* (internal/httpx/middleware/concurrency.go) through a handler that calls a  *)
(* downstream service with outbound.Client.DoJSON                            *)
(* (internal/outbound/client.go) and back out of the limiter.                *)
(*                                                                         *)
(* The limiter's channel and its gauge are two pieces of shared state that    *)
(* are written one after the other, in the same order on the way in and on    *)
(* the way out.  DoJSON is a retry loop whose steps other requests, the end   *)
(* of the request's context, and the downstream interleave with.             *)
(***************************************************************************)
EXTENDS Integers, FiniteSets

CONSTANTS
    Requests,      \* the goroutines serving requests
    Max,           \* Limits.MaxConcurrency; 0: no limiter
    MaxRetries,    \* Client.MaxRetries
    RetryBackoff   \* Client.RetryBackoff; only its sign matters

ASSUME RequestAssumption ==
    /\ IsFiniteSet(Requests)
    /\ Max \in Nat
    /\ MaxRetries \in Int
    /\ RetryBackoff \in Int

VARIABLES
    pc,        \* where each request is
    method,    \* the method of the request and of the call it makes
    ctx,       \* r.Context() is alive
    attempt,   \* the loop variable of DoJSON
    last,      \* the outcome of the last attempt
    sent,      \* history: how often the call reached the downstream
    sem,       \* len(sem)
    inflight   \* Metrics.inflight

loop == <<attempt, last, sent>>
limiter == <<sem, inflight>>
vars == <<pc, method, ctx, attempt, last, sent, sem, inflight>>

Limited == Max > 0

\* GET stands for the idempotent methods, POST for the others; an operational
\* request asks for /health/live, /health/ready or /metrics.
Methods == {"GET", "POST", "operational"}
\* A mutant: mutations are retried as well.
IdempotentLax(m) == m \in {"GET", "POST"}
isIdempotent(m) == m = "GET"

attempts(m) == IF isIdempotent(m) /\ MaxRetries > 0 THEN 1 + MaxRetries ELSE 1

\* Outcomes of one attempt: http.Client.Do fails; the response is a success; its
\* status is outside 200..299 and 400..599; it is 4xx; it is 5xx; it is one of 502,
\* 503, 504, whole or too large to read; it is a success that cannot be read or decoded.
Answers == {"ok", "redirect", "rejected", "failed", "gateway", "gateway_unread", "unreadable"}
Outcomes == {"none", "transport"} \cup Answers

\* A mutant: every error status is retried.
RetryableAny(o) == o \in {"failed", "gateway", "gateway_unread"}
retryableResponse(o) == o \in {"gateway", "gateway_unread"}

Init ==
    /\ pc = [r \in Requests |-> "idle"]
    /\ method = [r \in Requests |-> "GET"]
    /\ ctx = [r \in Requests |-> TRUE]
    /\ attempt = [r \in Requests |-> 0]
    /\ last = [r \in Requests |-> "none"]
    /\ sent = [r \in Requests |-> 0]
    /\ sem = 0
    /\ inflight = 0

Goto(r, label) == pc' = [pc EXCEPT ![r] = label]
-----------------------------------------------------------------------------
(* The limiter *)

\* A request arrives; its goroutine enters the limiter.
Arrive(r) ==
    /\ pc[r] = "idle"
    /\ \E m \in Methods : method' = [method EXCEPT ![r] = m]
    /\ Goto(r, "arrived")
    /\ UNCHANGED <<ctx, loop, limiter>>

\* An operational request, and every request when there is no limiter, passes.
Bypass(r) ==
    /\ pc[r] = "arrived"
    /\ method[r] = "operational" \/ ~Limited
    /\ IF method[r] = "operational"
       THEN Goto(r, "idle") /\ ctx' = [ctx EXCEPT ![r] = TRUE]
       ELSE Goto(r, "handling") /\ UNCHANGED ctx
    /\ UNCHANGED <<method, loop, limiter>>

\* The non-blocking send on sem succeeds.
Admit(r) ==
    /\ pc[r] = "arrived"
    /\ method[r] # "operational" /\ Limited
    /\ sem < Max
    /\ sem' = sem + 1
    /\ Goto(r, "admitted")
    /\ UNCHANGED <<method, ctx, loop, inflight>>

\* A mutant: the deferred function runs for a rejected request too.
RejectReleases(r) ==
    /\ pc[r] = "arrived"
    /\ method[r] # "operational" /\ Limited
    /\ sem >= Max
    /\ Goto(r, "leaving")
    /\ UNCHANGED <<method, ctx, loop, limiter>>

\* The default branch of the select: 503, "server busy".
Reject(r) ==
    /\ pc[r] = "arrived"
    /\ method[r] # "operational" /\ Limited
    /\ sem >= Max
    /\ Goto(r, "idle")
    /\ ctx' = [ctx EXCEPT ![r] = TRUE]
    /\ UNCHANGED <<method, loop, limiter>>

\* Metrics.AddInflight keeps the gauge from going below zero.
AddInflight(delta) ==
    inflight' = IF inflight + delta < 0 THEN 0 ELSE inflight + delta

CountIn(r) ==
    /\ pc[r] = "admitted"
    /\ AddInflight(1)
    /\ Goto(r, "handling")
    /\ UNCHANGED <<method, ctx, loop, sem>>

\* A mutant: the slot is not freed.
LeaveLeaks(r) ==
    /\ pc[r] = "leaving"
    /\ Goto(r, "left")
    /\ attempt' = [attempt EXCEPT ![r] = 0]
    /\ last' = [last EXCEPT ![r] = "none"]
    /\ sent' = [sent EXCEPT ![r] = 0]
    /\ UNCHANGED <<method, ctx, limiter>>

\* The handler returns (or panics): the deferred function frees the slot ...
Leave(r) ==
    /\ pc[r] = "leaving"
    /\ sem' = IF Limited THEN sem - 1 ELSE sem
    /\ Goto(r, "left")
    /\ attempt' = [attempt EXCEPT ![r] = 0]
    /\ last' = [last EXCEPT ![r] = "none"]
    /\ sent' = [sent EXCEPT ![r] = 0]
    /\ UNCHANGED <<method, ctx, inflight>>

\* ... and then corrects the gauge.
CountOut(r) ==
    /\ pc[r] = "left"
    /\ IF Limited THEN AddInflight(-1) ELSE UNCHANGED inflight
    /\ Goto(r, "idle")
    /\ ctx' = [ctx EXCEPT ![r] = TRUE]
    /\ UNCHANGED <<method, loop, sem>>
-----------------------------------------------------------------------------
(* The handler and DoJSON *)

\* The handler answers without calling out: CSRF, authorization, a bad id.
Refuse(r) ==
    /\ pc[r] = "handling"
    /\ Goto(r, "leaving")
    /\ UNCHANGED <<method, ctx, loop, limiter>>

\* newRequest: the access token is fetched anew for each attempt, and an error
\* ends the call, also in the middle of the loop.
NewRequest(r) ==
    /\ pc[r] \in {"handling", "again"}
    /\ Goto(r, "ready") \/ Goto(r, "leaving")
    /\ UNCHANGED <<method, ctx, loop, limiter>>

\* The retry decision after a failed attempt.
Retry(r, retryable) ==
    IF attempt[r] + 1 < attempts(method[r]) /\ retryable
    THEN Goto(r, "backoff") ELSE Goto(r, "leaving")

\* http.Client.Do hands the request to the network; when the context has ended
\* it fails instead.
Send(r) ==
    /\ pc[r] = "ready"
    /\ ctx[r]
    /\ sent' = [sent EXCEPT ![r] = @ + 1]
    /\ Goto(r, "waiting")
    /\ UNCHANGED <<method, ctx, attempt, last, limiter>>

\* Do returns an error: the context ended before or during the exchange, the
\* connection failed, or Client.Timeout passed.
Transport(r) ==
    /\ \/ pc[r] = "waiting"
       \/ pc[r] = "ready" /\ ~ctx[r]
    /\ last' = [last EXCEPT ![r] = "transport"]
    /\ Retry(r, ctx[r])
    /\ UNCHANGED <<method, ctx, attempt, sent, limiter>>

\* A response arrives and handleResponse has read it.
Respond(r) ==
    /\ pc[r] = "waiting"
    /\ \E o \in Answers :
         /\ last' = [last EXCEPT ![r] = o]
         /\ Retry(r, retryableResponse(o))
    /\ UNCHANGED <<method, ctx, attempt, sent, limiter>>

\* A mutant: the loop variable is not advanced.
BackoffForgets(r) ==
    /\ pc[r] = "backoff"
    /\ ctx[r] \/ RetryBackoff > 0
    /\ Goto(r, "again")
    /\ UNCHANGED <<method, ctx, loop, limiter>>

\* waitBackoff returns nil.  With a positive backoff the context may have ended
\* too: the select takes either of two ready branches.
Backoff(r) ==
    /\ pc[r] = "backoff"
    /\ ctx[r] \/ RetryBackoff > 0
    /\ attempt' = [attempt EXCEPT ![r] = @ + 1]
    /\ Goto(r, "again")
    /\ UNCHANGED <<method, ctx, last, sent, limiter>>

\* waitBackoff returns the context's error.
GiveUp(r) ==
    /\ pc[r] = "backoff"
    /\ ~ctx[r]
    /\ Goto(r, "leaving")
    /\ UNCHANGED <<method, ctx, loop, limiter>>

\* The client goes away or the request's deadline passes.
Cancel(r) ==
    /\ pc[r] # "idle"
    /\ ctx[r]
    /\ ctx' = [ctx EXCEPT ![r] = FALSE]
    /\ UNCHANGED <<pc, method, loop, limiter>>

Step(r) ==
    \/ Bypass(r) \/ Admit(r) \/ Reject(r) \/ CountIn(r) \/ Leave(r) \/ CountOut(r)
    \/ Refuse(r) \/ NewRequest(r) \/ Send(r) \/ Transport(r) \/ Respond(r)
    \/ Backoff(r) \/ GiveUp(r)

Next == \E r \in Requests : Arrive(r) \/ Step(r) \/ Cancel(r)

Spec == Init /\ [][Next]_vars
-----------------------------------------------------------------------------
Inside == {"handling", "ready", "waiting", "backoff", "again", "leaving"}

TypeOK ==
    /\ pc \in [Requests -> {"idle", "arrived", "admitted", "left"} \cup Inside]
    /\ method \in [Requests -> Methods]
    /\ ctx \in [Requests -> BOOLEAN]
    /\ attempt \in [Requests -> Nat]
    /\ last \in [Requests -> Outcomes]
    /\ sent \in [Requests -> Nat]
    /\ sem \in Int
    /\ inflight \in Int

\* The requests that hold a slot, and those the gauge counts.
Holding == {r \in Requests : pc[r] \in {"admitted"} \cup Inside}
Counted == {r \in Requests : pc[r] \in {"left"} \cup Inside}

\* The limiter admits at most Max requests at a time; slots and gauge follow the
\* requests exactly through every interleaving of their separate writes, so the
\* clamp in AddInflight never hides a count (ConcurrencyLimit).  The gauge itself
\* may exceed Max, by the requests that freed their slot and are not yet counted
\* out.
AdmissionExact ==
    Limited =>
      /\ sem = Cardinality(Holding)
      /\ sem <= Max
      /\ inflight = Cardinality(Counted)

\* A mutation reaches the downstream at most once per call, a read at most
\* 1 + MaxRetries times, whatever fails in between (DoJSON).
SentBound ==
    \A r \in Requests :
      sent[r] <= IF method[r] = "GET" /\ MaxRetries > 0 THEN 1 + MaxRetries ELSE 1

\* Nothing is sent for a request whose context has ended, and nothing is sent
\* again after an answer other than 502, 503 or 504 (DoJSON).
RetryJustified ==
    [][\A r \in Requests :
         sent'[r] > sent[r] =>
           ctx[r] /\ (sent[r] > 0 => last[r] \in {"transport", "gateway", "gateway_unread"})]_vars
=============================================================================
