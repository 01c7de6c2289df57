------------------------------- MODULE Gateway -------------------------------
(***************************************************************************)
(* The process around the request path: the main goroutine of app.RunWith,   *)
(* which serves until a signal or a failure of the listener, drains the        *)
(* server with a deadline, closes the connection to the store and returns,     *)
(* and with it ends the process and every request in it.                      *)
(*                                                                         *)
(* A connection that brings its request after the signal was taken is closed   *)
(* by Shutdown; requests that have arrived go on.                             *)
(***************************************************************************)
EXTENDS AppRoute

CONSTANT Backend  \* Store.Backend: "memory" has nothing to close

ASSUME BackendAssumption == Backend \in {"memory", "redis"}

VARIABLES
    main,       \* where RunWith is
    signalled,  \* sigCh holds a signal
    failed,     \* errCh holds the listener's error
    cause       \* why RunWith stopped serving, "none" before

process == <<main, signalled, failed, cause>>
gatewayVars == <<routeVars, process>>

GatewayInit ==
    /\ RouteInit
    /\ main = "serving"
    /\ signalled = FALSE
    /\ failed = FALSE
    /\ cause = "none"

\* SIGINT or SIGTERM; sigCh has room for one, and later ones are dropped.
Signal ==
    /\ main # "exited" /\ ~signalled
    /\ signalled' = TRUE
    /\ UNCHANGED <<routeVars, main, failed, cause>>

\* ListenAndServe returns an error that is not ErrServerClosed.
ListenFails ==
    /\ main = "serving" /\ ~failed
    /\ failed' = TRUE
    /\ UNCHANGED <<routeVars, main, signalled, cause>>

\* A mutant: the store is closed as soon as the signal arrives.
TakeSignalCloses ==
    /\ main = "serving" /\ signalled
    /\ main' = "draining"
    /\ store' = "closed"
    /\ UNCHANGED <<vars, route, signalled, failed, cause>>

\* The select takes the signal, and Shutdown stops the listener.
TakeSignal ==
    /\ main = "serving" /\ signalled
    /\ main' = "draining"
    /\ UNCHANGED <<routeVars, signalled, failed, cause>>

\* The select takes the listener's error, and RunWith returns without draining.
TakeFailure ==
    /\ main = "serving" /\ failed
    /\ main' = "closing" /\ cause' = "listener"
    /\ UNCHANGED <<routeVars, signalled, failed>>

\* A mutant: Shutdown does not wait.
DrainedAtOnce ==
    /\ main = "draining"
    /\ main' = "closing" /\ cause' = "drained"
    /\ UNCHANGED <<routeVars, signalled, failed>>

\* Shutdown returns when no request is left ...
Drained ==
    /\ main = "draining"
    /\ \A r \in Requests : pc[r] = "idle"
    /\ main' = "closing" /\ cause' = "drained"
    /\ UNCHANGED <<routeVars, signalled, failed>>

\* A mutant: Shutdown is given a context without a deadline.
DeadlineNever == FALSE /\ UNCHANGED gatewayVars

\* ... or after ten seconds.
Deadline ==
    /\ main = "draining"
    /\ main' = "closing" /\ cause' = "deadline"
    /\ UNCHANGED <<routeVars, signalled, failed>>

\* The deferred closeStore.
CloseStore ==
    /\ main = "closing"
    /\ main' = "returning"
    /\ store' = IF Backend = "redis" THEN "closed" ELSE store
    /\ UNCHANGED <<vars, route, signalled, failed, cause>>

\* main returns, or log.Fatal exits: the requests end where they are.
Return ==
    /\ main = "returning"
    /\ main' = "exited"
    /\ UNCHANGED <<routeVars, signalled, failed, cause>>

Main == TakeSignal \/ TakeFailure \/ Drained \/ Deadline \/ CloseStore \/ Return

\* A step of a request; new requests are accepted until Shutdown or the end.
Serve(r) ==
    /\ main # "exited"
    /\ \/ RouteStep(r)
       \/ Arrive(r) /\ main = "serving" /\ UNCHANGED <<route, store>>
       \/ Cancel(r) /\ UNCHANGED <<route, store>>
    /\ UNCHANGED process

GatewayNext == Main \/ Signal \/ ListenFails \/ \E r \in Requests : Serve(r)

GatewaySpec == GatewayInit /\ [][GatewayNext]_gatewayVars

\* The main goroutine runs when it can and the deadline's timer fires.  While the
\* gateway serves, Client.Timeout ends every exchange, a timer every backoff, and a
\* goroutine that can run does.  Of the requests nothing is assumed once RunWith has
\* stopped serving.  Nobody has to send a request, a signal, or to cancel anything.
GatewayFair ==
    /\ GatewaySpec
    /\ WF_gatewayVars(Main)
    /\ \A r \in Requests :
         WF_gatewayVars(main = "serving" /\ RouteStep(r) /\ UNCHANGED process)
-----------------------------------------------------------------------------
\* What shutting down must not cost: a call whose effect is not on record.  Every
\* request that has called a downstream leaves its business event before it is gone,
\* except when the process ends under it, and that only happens after the deadline or
\* when the listener has failed (RunWith, BusinessAudit).
TrailComplete ==
    [][\A r \in Requests :
          sent[r] > 0 /\ event[r] = "none" /\ (sent'[r] = 0 \/ main' = "exited")
            => main' = "exited" /\ cause \in {"deadline", "listener"}]_gatewayVars

\* A request is refused for want of a store that RunWith itself closed only after the
\* deadline or a failure of the listener (the order of the deferred calls in RunWith).
StoreOutlives ==
    \A r \in Requests : pc[r] # "idle" /\ store = "closed" => cause \in {"deadline", "listener"}

\* What a request has ahead of it: for the retry loop four steps for each attempt that
\* is left, and before and after it the limiter and the middlewares.
Place == [arrived |-> 6, admitted |-> 5, handling |-> 4, again |-> 4, ready |-> 3,
          waiting |-> 2, backoff |-> 1]
WayOut == [leaving |-> 2, left |-> 1, idle |-> 0]
Middlewares == [none |-> 0, csrf |-> 3, permission |-> 2, route |-> 1, done |-> 0]

Ahead(r) ==
    4 * (IF pc[r] \in DOMAIN Place
         THEN 4 * (attempts(method[r]) - attempt[r]) + Place[pc[r]]
         ELSE WayOut[pc[r]])
    + Middlewares[stage[r]]

\* No request goes on for ever: each of its own steps leaves less ahead of it, and
\* nothing that another request, a cancellation or the main goroutine does adds to it.
\* The loop of DoJSON is in it, which a backoff that uses up no attempt, or an attempt
\* too many, would make endless (DoJSON, waitBackoff, BusinessAudit).
StepsRunOut ==
    [][\A r \in Requests :
          pc[r] # "idle" =>
            /\ Ahead(r)' \in 0..Ahead(r)
            /\ RouteStep(r) => Ahead(r)' < Ahead(r)]_gatewayVars

\* A signal ends the process, whatever the requests in it do or fail to do.
SignalStops == signalled ~> main = "exited"

\* A full limiter has a free slot again some time, unless the gateway stops serving:
\* every admitted request ends, by an answer, a timeout or the last retry, and gives
\* its slot back.
SlotsComeFree == Limited /\ sem = Max ~> sem < Max \/ main # "serving"
=============================================================================
