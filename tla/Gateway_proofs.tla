--------------------------- MODULE Gateway_proofs ---------------------------
(***************************************************************************)
(* The gateway implements the request path, so that the limiter's and the     *)
(* retry loop's theorems hold of it, and for every number of requests, limit,  *)
(* role table and backend: only authorized calls are sent, the audit trail is  *)
(* truthful and complete, the store outlives the requests, and every request   *)
(* runs out of steps.                                                         *)
(***************************************************************************)
EXTENDS Gateway, RequestPath_proofs

RouteType ==
    /\ stage \in [Requests -> {"none", "csrf", "permission", "route", "done"}]
    /\ decision \in [Requests -> {"none", "allow", "deny", "error"}]
    /\ status \in [Requests -> Nat]
    /\ event \in [Requests -> {"none", "success", "deny", "failure"}]
    /\ due \in [Requests -> BOOLEAN]

\* One request on its route: where it may be, what it has met, and what its answer
\* says once the handler has returned.
RouteOK(r) ==
    /\ stage[r] = "none" <=> pc[r] \notin Inside
    /\ stage[r] \in {"csrf", "permission"} => pc[r] = "handling"
    /\ stage[r] = "done" => pc[r] = "leaving"
    /\ pc[r] \in {"idle", "arrived", "admitted", "handling", "left"} => last[r] = "none"
    /\ pc[r] # "leaving" => last[r] # "ok"
    /\ stage[r] = "permission" => due[r]
    /\ stage[r] = "route" => decision[r] = "allow" /\ due[r]
    /\ stage[r] # "done" => event[r] = "none"
    /\ sent[r] > 0 => decision[r] = "allow" /\ due[r]
    /\ sent[r] > 0 /\ stage[r] = "done" => event[r] # "none"

\* The status that BusinessAudit turns into an event.
StatusOK(r) ==
    stage[r] = "route" /\ pc[r] = "leaving" =>
        /\ status[r] \in Nat
        /\ status[r] < 400 <=> last[r] = "ok"
        /\ status[r] < 500 /\ last[r] # "ok" => sent[r] = 0 \/ last[r] = "rejected"

RouteInv == \A r \in Requests : RouteOK(r) /\ StatusOK(r)

\* The store is closed last, and a drained gateway has no request left.
ProcessInv ==
    /\ main \in {"serving", "draining", "closing", "returning", "exited"}
    /\ cause \in {"none", "drained", "deadline", "listener"}
    /\ main \in {"serving", "draining"} <=> cause = "none"
    /\ store = "closed" => main \in {"returning", "exited"}
    /\ cause = "drained" => \A r \in Requests : pc[r] = "idle"
-----------------------------------------------------------------------------
\* A step of the gateway is a step of the request path, or leaves it alone.
LEMMA PathStep == [GatewayNext]_gatewayVars => [Next]_vars
  <1> SUFFICES ASSUME [GatewayNext]_gatewayVars PROVE [Next]_vars
    OBVIOUS
  <1>1. CASE Main \/ Signal \/ ListenFails
    BY <1>1 DEF Main, TakeSignal, TakeFailure, Drained, Deadline, CloseStore, Return, Signal,
                ListenFails, routeVars
  <1>2. ASSUME NEW r \in Requests, Serve(r) PROVE [Next]_vars
    <2>1. CASE Arrive(r) \/ Cancel(r)
      BY <2>1 DEF Next
    <2>2. CASE RouteStep(r)
      <3>1. Step(r) \/ UNCHANGED vars
        BY <2>2 DEF RouteStep, Enter, CSRF, RequirePermission, Decide, Handler, Call,
                    BusinessAudit, Exit, Step
      <3> QED
        BY <3>1 DEF Next
    <2> QED
      BY <1>2, <2>1, <2>2 DEF Serve
  <1>3. CASE UNCHANGED gatewayVars
    BY <1>3 DEF gatewayVars, routeVars
  <1> QED
    BY <1>1, <1>2, <1>3 DEF GatewayNext

\* Every behaviour of the gateway is one of the request path.
THEOREM ImplementsPath == GatewaySpec => Spec
  <1>1. GatewayInit => Init
    BY DEF GatewayInit, RouteInit
  <1> QED
    BY <1>1, PathStep, PTL DEF GatewaySpec, Spec

\* A step of one request leaves every other where it is.
LEMMA Others ==
    ASSUME TypeOK, RouteType, NEW r \in Requests, NEW q \in Requests, q # r, Serve(r)
    PROVE  /\ pc'[q] = pc[q] /\ last'[q] = last[q] /\ sent'[q] = sent[q]
           /\ stage'[q] = stage[q] /\ decision'[q] = decision[q] /\ status'[q] = status[q]
           /\ event'[q] = event[q] /\ due'[q] = due[q]
  <1> USE DEF TypeOK, RouteType, Goto, Hand, Answer, Returned, loop, limiter, route, vars
  <1>1. CASE Arrive(r) /\ UNCHANGED route
    BY <1>1 DEF Arrive
  <1>2. CASE Cancel(r) /\ UNCHANGED route
    BY <1>2 DEF Cancel
  <1>3. CASE Enter(r)
    BY <1>3 DEF Enter, Bypass, CountIn
  <1>4. CASE CSRF(r)
    BY <1>4 DEF CSRF, Refuse
  <1>5. CASE RequirePermission(r)
    BY <1>5 DEF RequirePermission, Decide, Refuse
  <1>6. CASE Handler(r)
    BY <1>6 DEF Handler, Refuse
  <1>7. CASE Call(r)
    BY <1>7 DEF Call, NewRequest, Send, Transport, Retry, Backoff, GiveUp, Respond
  <1>8. CASE BusinessAudit(r)
    BY <1>8 DEF BusinessAudit
  <1>9. CASE Exit(r)
    BY <1>9 DEF Exit, Leave
  <1>10. CASE (Admit(r) \/ Reject(r) \/ CountOut(r)) /\ UNCHANGED route
    BY <1>10 DEF Admit, Reject, CountOut
  <1> QED
    BY <1>1, <1>2, <1>3, <1>4, <1>5, <1>6, <1>7, <1>8, <1>9, <1>10 DEF Serve, RouteStep

\* The route's variables keep their types.
LEMMA RouteTypeStep ==
    ASSUME RouteType, NEW r \in Requests, Serve(r)
    PROVE  RouteType'
  <1> USE DEF RouteType, Hand, Answer, Returned, route
  <1>1. CASE UNCHANGED route
    BY <1>1
  <1>2. CASE Enter(r)
    BY <1>2 DEF Enter
  <1>3. CASE CSRF(r)
    <2>1. due' \in [Requests -> BOOLEAN]
      BY <1>3, Zenon DEF CSRF
    <2>2. /\ stage' \in [Requests -> {"none", "csrf", "permission", "route", "done"}]
          /\ status' \in [Requests -> Nat]
          /\ UNCHANGED <<decision, event>>
      BY <1>3 DEF CSRF
    <2> QED
      BY <2>1, <2>2
  <1>4. CASE RequirePermission(r)
    <2>1. due' \in [Requests -> BOOLEAN]
      BY <1>4, Zenon DEF RequirePermission
    <2>2. ASSUME NEW o \in {"allow", "deny", "error"}, NEW code \in Nat, Decide(r, o, code)
          PROVE  /\ stage' \in [Requests -> {"none", "csrf", "permission", "route", "done"}]
                 /\ status' \in [Requests -> Nat]
                 /\ decision' \in [Requests -> {"none", "allow", "deny", "error"}]
      BY <2>2 DEF Decide
    <2>3. UNCHANGED event
      BY <1>4 DEF RequirePermission
    <2>4. \/ Decide(r, "deny", 401) \/ Decide(r, "error", 503)
          \/ Decide(r, "allow", 0) \/ Decide(r, "deny", 403)
      BY <1>4 DEF RequirePermission
    <2> QED
      BY <2>1, <2>2, <2>3, <2>4
  <1>5. CASE Handler(r)
    BY <1>5 DEF Handler
  <1>6. CASE Call(r)
    <2>1. \A o : HTTPStatus(o) \in Nat
      BY DEF HTTPStatus, ErrorStatus
    <2> QED
      BY <1>6, <2>1 DEF Call
  <1>7. CASE BusinessAudit(r)
    BY <1>7 DEF BusinessAudit, Outcome
  <1>8. CASE Exit(r)
    <2>1. due' \in [Requests -> BOOLEAN]
      BY <1>8, Zenon DEF Exit
    <2> QED
      BY <1>8, <2>1 DEF Exit
  <1> QED
    BY <1>1, <1>2, <1>3, <1>4, <1>5, <1>6, <1>7, <1>8 DEF Serve, RouteStep

\* The four statuses a failed call can have, and the rest.
LEMMA Statuses ==
    /\ HTTPStatus("ok") = 200
    /\ HTTPStatus("rejected") = 404
    /\ \A o : o \notin {"ok", "rejected"} => HTTPStatus(o) \in 500..599
  <1>1. DOMAIN ErrorStatus = {"redirect", "rejected", "failed", "gateway"}
    BY DEF ErrorStatus
  <1>2. /\ ErrorStatus["redirect"] = 302 /\ ErrorStatus["rejected"] = 404
        /\ ErrorStatus["failed"] = 500 /\ ErrorStatus["gateway"] = 503
    BY DEF ErrorStatus
  <1>3. HTTPStatus("ok") = 200
    BY DEF HTTPStatus
  <1>4. HTTPStatus("rejected") = 404
    BY <1>1, <1>2 DEF HTTPStatus
  <1>5. ASSUME NEW o, o \notin {"ok", "rejected"} PROVE HTTPStatus(o) \in 500..599
    BY <1>1, <1>2, <1>5 DEF HTTPStatus
  <1> QED
    BY <1>3, <1>4, <1>5

\* The event that BusinessAudit writes stays true until the request is gone.
TruthOK(r) ==
    event[r] # "none" =>
        /\ decision[r] = "allow"
        /\ event[r] = "success" <=> last[r] = "ok"
        /\ event[r] = "deny" => sent[r] = 0 \/ last[r] = "rejected"

\* What is said of a request depends on nothing but the request.
LEMMA Untouched ==
    ASSUME NEW q \in Requests, RouteOK(q), StatusOK(q), TruthOK(q),
           pc'[q] = pc[q], last'[q] = last[q], sent'[q] = sent[q], stage'[q] = stage[q],
           decision'[q] = decision[q], status'[q] = status[q], event'[q] = event[q], due'[q] = due[q]
    PROVE  RouteOK(q)' /\ StatusOK(q)' /\ TruthOK(q)'
  <1>1. RouteOK(q)'
    BY Zenon DEF RouteOK
  <1>2. StatusOK(q)'
    BY DEF StatusOK
  <1>3. TruthOK(q)'
    BY Zenon DEF TruthOK
  <1> QED
    BY <1>1, <1>2, <1>3

\* Outside the handler, refused, and before the call, nothing has been sent.
LEMMA Outside ==
    ASSUME NEW r \in Requests, pc'[r] \in {"idle", "arrived", "admitted", "left"},
           stage'[r] = "none", last'[r] = "none", sent'[r] = 0, event'[r] = "none"
    PROVE  RouteOK(r)' /\ StatusOK(r)'
  <1>1. RouteOK(r)'
    BY DEF RouteOK, Inside
  <1>2. StatusOK(r)'
    BY DEF StatusOK
  <1> QED
    BY <1>1, <1>2

LEMMA Refused ==
    ASSUME NEW r \in Requests, pc'[r] = "leaving", stage'[r] = "done", last'[r] = "none", sent'[r] = 0
    PROVE  RouteOK(r)' /\ StatusOK(r)'
  <1>1. RouteOK(r)'
    BY DEF RouteOK, Inside
  <1>2. StatusOK(r)'
    BY DEF StatusOK
  <1> QED
    BY <1>1, <1>2

LEMMA Guarded ==
    ASSUME NEW r \in Requests, pc'[r] = "handling", last'[r] = "none", sent'[r] = 0, event'[r] = "none",
           \/ stage'[r] = "csrf"
           \/ stage'[r] = "permission" /\ due'[r]
           \/ stage'[r] = "route" /\ decision'[r] = "allow" /\ due'[r]
    PROVE  RouteOK(r)' /\ StatusOK(r)'
  <1>1. RouteOK(r)'
    BY DEF RouteOK, Inside
  <1>2. StatusOK(r)'
    BY DEF StatusOK
  <1> QED
    BY <1>1, <1>2

\* An error status is in order when nothing was sent.
LEMMA Unsent ==
    ASSUME NEW r \in Requests, status'[r] \in Nat, status'[r] >= 400, last'[r] = "none", sent'[r] = 0
    PROVE  StatusOK(r)'
  BY DEF StatusOK

\* The middlewares and the audit send nothing.
LEMMA GuardsSendNothing ==
    ASSUME NEW r \in Requests, CSRF(r) \/ RequirePermission(r) \/ Handler(r) \/ BusinessAudit(r)
    PROVE  sent' = sent
  <1>1. ASSUME Refuse(r) PROVE sent' = sent
    BY <1>1 DEF Refuse, loop
  <1>2. ASSUME UNCHANGED vars PROVE sent' = sent
    BY <1>2 DEF vars
  <1>3. CASE CSRF(r)
    BY <1>1, <1>2, <1>3 DEF CSRF
  <1>4. ASSUME NEW o, NEW code, Decide(r, o, code) PROVE sent' = sent
    BY <1>1, <1>2, <1>4 DEF Decide
  <1>5. CASE RequirePermission(r)
    BY <1>4, <1>5 DEF RequirePermission
  <1>6. CASE Handler(r)
    BY <1>1, <1>6 DEF Handler
  <1>7. CASE BusinessAudit(r)
    BY <1>2, <1>7 DEF BusinessAudit
  <1> QED
    BY <1>3, <1>5, <1>6, <1>7

\* An idle request has sent nothing.
LEMMA IdleUnsent ==
    ASSUME NEW r \in Requests, LoopOK(r), pc[r] = "idle"
    PROVE  sent[r] = 0
  BY Zenon DEF LoopOK

\* A refused request leaves with its loop as it was.
LEMMA RefuseLeaves ==
    ASSUME TypeOK, NEW r \in Requests, Refuse(r)
    PROVE  pc'[r] = "leaving" /\ last' = last /\ sent' = sent
  BY DEF TypeOK, Refuse, Goto, loop

\* The middlewares before the handler.
LEMMA GuardStep ==
    ASSUME TypeOK, RouteType, NEW r \in Requests, LoopOK(r), RouteOK(r), StatusOK(r),
           CSRF(r) \/ RequirePermission(r) \/ Handler(r)
    PROVE  RouteOK(r)' /\ StatusOK(r)'
  <1>0. pc[r] = "handling" /\ sent[r] = 0 /\ last[r] = "none" /\ event[r] = "none"
    <2>1. pc[r] = "handling"
      BY DEF CSRF, RequirePermission, Handler, Refuse
    <2> QED
      BY <2>1 DEF LoopOK, RouteOK
  <1>1. ASSUME Refuse(r), Hand(r, "done"), UNCHANGED event
        PROVE  RouteOK(r)' /\ StatusOK(r)'
    <2>1. pc'[r] = "leaving" /\ last'[r] = "none" /\ sent'[r] = 0
      BY <1>0, <1>1, RefuseLeaves
    <2>2. stage'[r] = "done"
      BY <1>1 DEF Hand, RouteType
    <2> QED
      BY <2>1, <2>2, Refused
  <1>2. ASSUME UNCHANGED vars, UNCHANGED event, due'[r],
               Hand(r, "permission") \/ (Hand(r, "route") /\ decision'[r] = "allow")
        PROVE  RouteOK(r)' /\ StatusOK(r)'
    <2>1. pc'[r] = "handling" /\ last'[r] = "none" /\ sent'[r] = 0 /\ event'[r] = "none"
      BY <1>0, <1>2 DEF vars
    <2>2. stage'[r] = "permission" \/ (stage'[r] = "route" /\ decision'[r] = "allow")
      BY <1>2 DEF Hand, RouteType
    <2> QED
      BY <1>2, <2>1, <2>2, Guarded
  <1>3. CASE CSRF(r)
    <2>1. PICK sameOrigin \in BOOLEAN, cookie \in Tokens, header \in Tokens :
             /\ due' = [due EXCEPT ![r] =
                   method[r] = "GET" \/ (sameOrigin /\ <<cookie, header>> \in {<<"t1", "t1">>, <<"t2", "t2">>})]
             /\ IF ~isUnsafeMethod(method[r]) \/ (sameOrigin /\ constantTimeEqual(cookie, header))
                THEN Hand(r, "permission") /\ UNCHANGED <<vars, status>>
                ELSE Refuse(r) /\ Answer(r, 403) /\ Hand(r, "done")
      BY <1>3 DEF CSRF
    <2>2. UNCHANGED event
      BY <1>3 DEF CSRF
    <2>3. CASE ~isUnsafeMethod(method[r]) \/ (sameOrigin /\ constantTimeEqual(cookie, header))
      <3>1. method[r] = "GET" \/ (sameOrigin /\ <<cookie, header>> \in {<<"t1", "t1">>, <<"t2", "t2">>})
        BY <2>3 DEF isUnsafeMethod, constantTimeEqual, Tokens
      <3>2. due'[r]
        BY <2>1, <3>1, Zenon DEF RouteType
      <3>3. Hand(r, "permission") /\ UNCHANGED vars
        BY <2>1, <2>3
      <3> QED
        BY <1>2, <2>2, <3>2, <3>3
    <2>4. CASE ~(~isUnsafeMethod(method[r]) \/ (sameOrigin /\ constantTimeEqual(cookie, header)))
      <3>1. Refuse(r) /\ Hand(r, "done")
        BY <2>1, <2>4
      <3> QED
        BY <1>1, <2>2, <3>1
    <2> QED
      BY <2>3, <2>4
  <1>4. CASE RequirePermission(r)
    <2>1. UNCHANGED event /\ due[r]
      BY <1>4 DEF RequirePermission, RouteOK
    <2>2. ASSUME NEW o, NEW code, o # "allow", Decide(r, o, code)
          PROVE  RouteOK(r)' /\ StatusOK(r)'
      <3>1. Refuse(r) /\ Hand(r, "done")
        BY <2>2 DEF Decide
      <3> QED
        BY <1>1, <2>1, <3>1
    <2>3. CASE Decide(r, "deny", 401) \/ Decide(r, "error", 503) \/ Decide(r, "deny", 403)
      <3>1. "deny" # "allow" /\ "error" # "allow"
        OBVIOUS
      <3> QED
        BY <2>2, <2>3, <3>1
    <2>4. ASSUME NEW roles \in SUBSET Roles,
                 due' = [due EXCEPT ![r] =
                           @ /\ \E role \in roles : Permission(method[r]) \in RolePermissions[role]],
                 Allowed(roles, Permission(method[r])), Decide(r, "allow", 0)
          PROVE  RouteOK(r)' /\ StatusOK(r)'
      <3>1. \E role \in roles : Permission(method[r]) \in RolePermissions[role]
        BY <2>4, Zenon DEF Allowed, Evaluate
      <3>2. due'[r]
        BY <2>1, <2>4, <3>1, Zenon DEF RouteType
      <3>3. decision'[r] = "allow"
        BY <2>4 DEF Decide, RouteType
      <3>4. Hand(r, "route") /\ UNCHANGED vars
        BY <2>4 DEF Decide
      <3> QED
        BY <1>2, <2>1, <3>2, <3>3, <3>4
    <2>5. CASE \E roles \in SUBSET Roles :
                 /\ due' = [due EXCEPT ![r] =
                              @ /\ \E role \in roles : Permission(method[r]) \in RolePermissions[role]]
                 /\ IF Policy = "static" /\ Allowed(roles, Permission(method[r]))
                    THEN Decide(r, "allow", 0) ELSE Decide(r, "deny", 403)
      BY <2>3, <2>4, <2>5
    <2> QED
      BY <1>4, <2>3, <2>5, Zenon DEF RequirePermission
  <1>5. CASE Handler(r)
    <2>1. /\ pc'[r] = "leaving" /\ last'[r] = "none" /\ sent'[r] = 0 /\ event'[r] = "none"
          /\ stage[r] = "route" /\ UNCHANGED <<stage, decision, due>>
      BY <1>0, <1>5, RefuseLeaves DEF Handler
    <2>2. status'[r] \in Nat /\ status'[r] >= 400
      <3>1. PICK code \in {400, 503} : Answer(r, code)
        BY <1>5 DEF Handler
      <3>2. status'[r] = code
        BY <3>1 DEF Answer, RouteType
      <3> QED
        BY <3>1, <3>2
    <2>3. RouteOK(r)'
      BY <2>1 DEF RouteOK, Inside
    <2>4. StatusOK(r)'
      BY <2>1, <2>2, Unsent
    <2> QED
      BY <2>3, <2>4
  <1> QED
    BY <1>3, <1>4, <1>5

\* The outbound call under the handler.
LEMMA CallStep ==
    ASSUME TypeOK, RouteType, NEW r \in Requests, RouteOK(r), Call(r)
    PROVE  RouteOK(r)' /\ StatusOK(r)'
  <1>0. /\ stage'[r] = "route" /\ decision'[r] = "allow" /\ due'[r] /\ event'[r] = "none"
    <2>1. stage[r] = "route" /\ UNCHANGED <<stage, decision, event, due>>
      BY DEF Call
    <2> QED
      BY <2>1 DEF RouteOK
  <1>1. ASSUME pc'[r] \in Inside, pc'[r] # "handling", pc'[r] # "leaving" => last'[r] # "ok"
        PROVE  RouteOK(r)'
    BY <1>0, <1>1 DEF RouteOK, Inside
  <1>2. ASSUME NEW o, Returned(r, HTTPStatus(o)), pc'[r] = "leaving",
               o = last'[r] \/ (o = "none" /\ last'[r] # "ok")
        PROVE  StatusOK(r)'
    <2>1. status'[r] = HTTPStatus(o)
      BY <1>2 DEF Returned, RouteType
    <2>2. CASE o = last'[r]
      BY <2>1, <2>2, Statuses DEF StatusOK
    <2>3. CASE o = "none" /\ last'[r] # "ok"
      <3>1. status'[r] \in 500..599
        BY <2>1, <2>3, Statuses
      <3> QED
        BY <2>3, <3>1 DEF StatusOK
    <2> QED
      BY <1>2, <2>2, <2>3
  <1>3. ASSUME pc'[r] # "leaving" PROVE StatusOK(r)'
    BY <1>3 DEF StatusOK
  <1>4. ASSUME pc'[r] \in Inside, pc'[r] # "handling", last'[r] # "ok", Returned(r, HTTPStatus("none"))
        PROVE  RouteOK(r)' /\ StatusOK(r)'
    BY <1>1, <1>2, <1>3, <1>4
  <1>5. CASE (NewRequest(r) \/ Send(r) \/ Backoff(r) \/ GiveUp(r)) /\ Returned(r, HTTPStatus("none"))
    <2>1. last' = last /\ pc[r] # "leaving"
      BY <1>5 DEF NewRequest, Send, Backoff, GiveUp, loop
    <2>2. last'[r] # "ok"
      BY <2>1 DEF RouteOK
    <2>3. pc'[r] \in {"ready", "waiting", "again", "leaving"}
      <3>1. \E label \in {"ready", "waiting", "again", "leaving"} : Goto(r, label)
        BY <1>5 DEF NewRequest, Send, Backoff, GiveUp
      <3> QED
        BY <3>1 DEF Goto, TypeOK
    <2> QED
      BY <1>4, <1>5, <2>2, <2>3 DEF Inside
  <1>6. ASSUME NEW retryable, Retry(r, retryable)
        PROVE  pc'[r] = "leaving" \/ (pc'[r] = "backoff" /\ retryable)
    BY <1>6 DEF Retry, Goto, TypeOK
  <1>7. CASE Transport(r) /\ Returned(r, HTTPStatus("none"))
    <2>1. last'[r] = "transport"
      BY <1>7 DEF Transport, TypeOK
    <2>2. pc'[r] = "leaving" \/ pc'[r] = "backoff"
      BY <1>6, <1>7 DEF Transport
    <2> QED
      BY <1>4, <1>7, <2>1, <2>2 DEF Inside
  <1>8. CASE Respond(r) /\ Returned(r, HTTPStatus(last'[r]))
    <2>1. PICK o \in Answers : /\ last' = [last EXCEPT ![r] = o]
                               /\ Retry(r, retryableResponse(o))
      BY <1>8 DEF Respond
    <2>2. last'[r] = o
      BY <2>1 DEF TypeOK
    <2>3. pc'[r] = "leaving" \/ (pc'[r] = "backoff" /\ o # "ok")
      BY <2>1 DEF Retry, Goto, TypeOK, retryableResponse
    <2>4. RouteOK(r)'
      BY <1>1, <2>2, <2>3 DEF Inside
    <2>5. StatusOK(r)'
      BY <1>2, <1>3, <1>8, <2>3
    <2> QED
      BY <2>4, <2>5
  <1> QED
    BY <1>5, <1>7, <1>8 DEF Call

\* The event, and the way in and out of the limiter.
LEMMA EdgeStep ==
    ASSUME TypeOK, RouteType, NEW r \in Requests, LoopOK(r), RouteOK(r), StatusOK(r), TruthOK(r),
           \/ BusinessAudit(r) \/ Enter(r) \/ Exit(r)
           \/ (Admit(r) \/ Reject(r) \/ CountOut(r) \/ Arrive(r) \/ Cancel(r)) /\ UNCHANGED route
    PROVE  RouteOK(r)' /\ StatusOK(r)'
  <1>1. CASE BusinessAudit(r)
    <2>1. /\ pc'[r] = "leaving" /\ stage[r] = "route"
          /\ UNCHANGED <<last, sent, decision, due>>
      BY <1>1 DEF BusinessAudit, vars
    <2>2. stage'[r] = "done"
      BY <1>1 DEF BusinessAudit, Hand, RouteType
    <2>3. event'[r] = Outcome(status[r])
      BY <1>1 DEF BusinessAudit, RouteType
    <2>4. event'[r] # "none"
      BY <2>3 DEF Outcome
    <2> QED
      <3>1. RouteOK(r)'
        BY <2>1, <2>2, <2>4 DEF RouteOK, Inside
      <3>2. StatusOK(r)'
        BY <2>2 DEF StatusOK
      <3> QED
        BY <3>1, <3>2
  <1>2. CASE Enter(r)
    <2>1. pc[r] \in {"arrived", "admitted"}
      BY <1>2 DEF Enter, Bypass, CountIn
    <2>2. last[r] = "none" /\ sent[r] = 0 /\ stage[r] = "none" /\ event[r] = "none"
      BY <2>1 DEF RouteOK, LoopOK, Inside
    <2>3. last'[r] = "none" /\ sent'[r] = 0 /\ event'[r] = "none"
      <3>1. UNCHANGED <<last, sent, event>>
        BY <1>2 DEF Enter, Bypass, CountIn, loop
      <3> QED
        BY <2>2, <3>1
    <2>4. Goto(r, "handling") \/ Goto(r, "idle")
      BY <1>2 DEF Enter, Bypass, CountIn
    <2>5. pc'[r] = "handling" \/ pc'[r] = "idle"
      BY <2>4 DEF Goto, TypeOK
    <2>6. IF pc'[r] = "handling" THEN stage'[r] = "csrf" ELSE stage'[r] = "none"
      BY <1>2, <2>2 DEF Enter, Hand, RouteType
    <2> QED
      BY <2>3, <2>5, <2>6, Outside, Guarded
  <1>3. CASE Exit(r)
    <2>1. pc'[r] = "left" /\ last'[r] = "none" /\ sent'[r] = 0
      BY <1>3 DEF Exit, Leave, Goto, TypeOK
    <2>2. stage'[r] = "none" /\ event'[r] = "none"
      BY <1>3 DEF Exit, RouteType
    <2> QED
      BY <2>1, <2>2, Outside
  <1>4. CASE (Admit(r) \/ Reject(r) \/ CountOut(r) \/ Arrive(r)) /\ UNCHANGED route
    <2>1. pc[r] \in {"idle", "arrived", "left"} /\ UNCHANGED <<last, sent>>
      BY <1>4 DEF Admit, Reject, CountOut, Arrive, loop
    <2>2. \E label \in {"idle", "arrived", "admitted"} : Goto(r, label)
      BY <1>4 DEF Admit, Reject, CountOut, Arrive
    <2>3. pc'[r] \in {"idle", "arrived", "admitted"}
      BY <2>2 DEF Goto, TypeOK
    <2>4. last'[r] = "none" /\ sent'[r] = 0
      BY <2>1 DEF RouteOK, LoopOK
    <2>5. stage'[r] = "none" /\ event'[r] = "none"
      BY <1>4, <2>1 DEF RouteOK, Inside, route
    <2> QED
      BY <2>3, <2>4, <2>5, Outside
  <1>5. CASE Cancel(r) /\ UNCHANGED route
    <2>1. UNCHANGED <<pc, last, sent, stage, decision, status, event, due>>
      BY <1>5 DEF Cancel, loop, route
    <2> QED
      BY <2>1, Untouched
  <1> QED
    BY <1>1, <1>2, <1>3, <1>4, <1>5

LEMMA TruthStep ==
    ASSUME TypeOK, RouteType, NEW r \in Requests, RouteOK(r), StatusOK(r), TruthOK(r), Serve(r)
    PROVE  TruthOK(r)'
  <1>1. ASSUME event'[r] = "none" PROVE TruthOK(r)'
    BY <1>1 DEF TruthOK
  <1>2. ASSUME stage[r] # "done", UNCHANGED event PROVE TruthOK(r)'
    BY <1>1, <1>2 DEF RouteOK
  <1>3. CASE BusinessAudit(r)
    <2>1. stage[r] = "route" /\ pc[r] = "leaving" /\ UNCHANGED <<last, sent, decision>>
      BY <1>3 DEF BusinessAudit, vars
    <2>2. event'[r] = Outcome(status[r])
      BY <1>3 DEF BusinessAudit, RouteType
    <2>3. decision'[r] = "allow"
      BY <2>1 DEF RouteOK
    <2>4. /\ status[r] \in Nat
          /\ status[r] < 400 <=> last[r] = "ok"
          /\ status[r] < 500 /\ last[r] # "ok" => sent[r] = 0 \/ last[r] = "rejected"
      BY <2>1 DEF StatusOK
    <2>5. event'[r] = "success" <=> last'[r] = "ok"
      BY <2>1, <2>2, <2>4 DEF Outcome
    <2>6. event'[r] = "deny" => sent'[r] = 0 \/ last'[r] = "rejected"
      BY <2>1, <2>2, <2>4 DEF Outcome
    <2> QED
      BY <2>3, <2>5, <2>6 DEF TruthOK
  <1>4. CASE Exit(r)
    <2>1. event'[r] = "none"
      BY <1>4 DEF Exit, RouteType
    <2> QED
      BY <1>1, <2>1
  <1>5. CASE CSRF(r)
    BY <1>2, <1>5 DEF CSRF
  <1>6. CASE RequirePermission(r)
    <2>1. stage[r] = "permission" /\ UNCHANGED event
      BY <1>6 DEF RequirePermission
    <2> QED
      BY <1>2, <2>1
  <1>7. CASE Handler(r) \/ Call(r)
    <2>1. stage[r] = "route" /\ UNCHANGED event
      BY <1>7 DEF Handler, Call
    <2> QED
      BY <1>2, <2>1
  <1>8. CASE Enter(r)
    <2>1. pc[r] \in {"arrived", "admitted"} /\ UNCHANGED event
      BY <1>8 DEF Enter, Bypass, CountIn
    <2>2. stage[r] # "done"
      BY <2>1 DEF RouteOK
    <2> QED
      BY <1>2, <2>1, <2>2
  <1>9. CASE (Admit(r) \/ Reject(r) \/ CountOut(r) \/ Arrive(r) \/ Cancel(r)) /\ UNCHANGED route
    <2>1. UNCHANGED <<last, sent, decision, event>>
      BY <1>9 DEF Admit, Reject, CountOut, Arrive, Cancel, loop, route
    <2> QED
      BY <2>1 DEF TruthOK
  <1> QED
    BY <1>3, <1>4, <1>5, <1>6, <1>7, <1>8, <1>9 DEF Serve, RouteStep

\* The inductive invariant of the gateway, on top of the request path's.
GatewayInv ==
    /\ PathInv
    /\ RouteType
    /\ RouteInv
    /\ AuditTruthful
    /\ ProcessInv

\* A step of a request keeps the requests' part of it.
LEMMA ServeStep ==
    ASSUME GatewayInv, NEW r \in Requests, Serve(r)
    PROVE  RouteType' /\ RouteInv' /\ AuditTruthful'
  <1>1. TypeOK /\ RouteType
    BY DEF GatewayInv, PathInv
  <1>2. RouteType'
    BY <1>1, RouteTypeStep
  <1>3. \A q \in Requests : LoopOK(q) /\ RouteOK(q) /\ StatusOK(q) /\ TruthOK(q)
    BY DEF GatewayInv, PathInv, LoopInv, RouteInv, AuditTruthful, TruthOK
  <1>4. RouteOK(r)' /\ StatusOK(r)'
    BY <1>1, <1>3, GuardStep, CallStep, EdgeStep DEF Serve, RouteStep, route
  <1>5. TruthOK(r)'
    BY <1>1, <1>3, TruthStep
  <1>6. ASSUME NEW q \in Requests, q # r PROVE RouteOK(q)' /\ StatusOK(q)' /\ TruthOK(q)'
    <2>1. RouteOK(q) /\ StatusOK(q) /\ TruthOK(q)
      BY <1>3
    <2>2. /\ pc'[q] = pc[q] /\ last'[q] = last[q] /\ sent'[q] = sent[q]
          /\ stage'[q] = stage[q] /\ decision'[q] = decision[q] /\ status'[q] = status[q]
          /\ event'[q] = event[q] /\ due'[q] = due[q]
      BY <1>1, <1>6, Others
    <2> QED
      BY <2>1, <2>2, Untouched
  <1>7. \A q \in Requests : RouteOK(q)' /\ StatusOK(q)' /\ TruthOK(q)'
    BY <1>4, <1>5, <1>6
  <1> QED
    BY <1>2, <1>7 DEF RouteInv, AuditTruthful, TruthOK

\* The main goroutine and the requests keep the order of the shutdown.
LEMMA ProcessStep ==
    ASSUME TypeOK, ProcessInv, [GatewayNext]_gatewayVars
    PROVE  ProcessInv'
  <1> USE DEF ProcessInv, process
  <1>1. CASE Signal \/ ListenFails \/ TakeSignal \/ TakeFailure \/ Deadline \/ Return
    BY <1>1 DEF Signal, ListenFails, TakeSignal, TakeFailure, Deadline, Return, routeVars, vars
  <1>2. CASE Drained
    BY <1>2 DEF Drained, routeVars, vars
  <1>3. CASE CloseStore
    BY <1>3 DEF CloseStore, vars
  <1>4. ASSUME NEW r \in Requests, Serve(r) PROVE ProcessInv'
    <2>1. UNCHANGED <<main, cause, store>>
      <3>1. UNCHANGED store
        BY <1>4 DEF Serve, RouteStep, Enter, CSRF, RequirePermission, Handler, Call, BusinessAudit, Exit
      <3> QED
        BY <1>4, <3>1 DEF Serve
    <2>2. ASSUME cause = "drained" PROVE FALSE
      <3>1. pc[r] = "idle" /\ main # "serving"
        BY <2>2
      <3>2. ~RouteStep(r) /\ ~Cancel(r)
        BY <3>1 DEF RouteStep, Enter, CSRF, RequirePermission, Handler, Call, BusinessAudit, Exit,
                    Bypass, CountIn, Refuse, NewRequest, Send, Transport, Backoff, GiveUp, Respond,
                    Leave, Admit, Reject, CountOut, Cancel
      <3> QED
        BY <1>4, <3>1, <3>2 DEF Serve
    <2> QED
      BY <2>1, <2>2
  <1>5. CASE UNCHANGED gatewayVars
    BY <1>5 DEF gatewayVars, routeVars, vars
  <1> QED
    BY <1>1, <1>2, <1>3, <1>4, <1>5 DEF GatewayNext, Main

-----------------------------------------------------------------------------
\* The inductive invariant holds at the start and every step keeps it.
LEMMA GatewayInvariant == GatewaySpec => []GatewayInv
  <1>1. GatewaySpec => []PathInv
    BY ImplementsPath, PathInvariant, PTL
  <1>2. GatewayInit => RouteType /\ RouteInv /\ AuditTruthful /\ ProcessInv
    <2> SUFFICES ASSUME GatewayInit PROVE RouteType /\ RouteInv /\ AuditTruthful /\ ProcessInv
      OBVIOUS
    <2>1. RouteType
      BY DEF GatewayInit, RouteInit, RouteType
    <2>2. ASSUME NEW r \in Requests
          PROVE  pc[r] = "idle" /\ last[r] = "none" /\ sent[r] = 0 /\ stage[r] = "none" /\ event[r] = "none"
      BY DEF GatewayInit, RouteInit, Init
    <2>3. RouteInv
      <3> SUFFICES ASSUME NEW r \in Requests PROVE RouteOK(r) /\ StatusOK(r)
        BY DEF RouteInv
      <3>1. RouteOK(r)
        BY <2>2 DEF RouteOK, Inside
      <3>2. StatusOK(r)
        BY <2>2 DEF StatusOK
      <3> QED
        BY <3>1, <3>2
    <2>4. AuditTruthful
      BY <2>2 DEF AuditTruthful
    <2>5. ProcessInv
      BY DEF GatewayInit, RouteInit, ProcessInv
    <2> QED
      BY <2>1, <2>3, <2>4, <2>5
  <1>3. GatewayInv /\ [GatewayNext]_gatewayVars
          => RouteType' /\ RouteInv' /\ AuditTruthful' /\ ProcessInv'
    <2> SUFFICES ASSUME GatewayInv, [GatewayNext]_gatewayVars
                 PROVE  RouteType' /\ RouteInv' /\ AuditTruthful' /\ ProcessInv'
      OBVIOUS
    <2>1. ProcessInv'
      BY ProcessStep DEF GatewayInv, PathInv
    <2>2. RouteType' /\ RouteInv' /\ AuditTruthful'
      <3>1. CASE UNCHANGED <<vars, route>>
        <4>1. RouteType'
          BY <3>1 DEF GatewayInv, RouteType, route
        <4>2. ASSUME NEW q \in Requests PROVE RouteOK(q)' /\ StatusOK(q)'
          <5>1. RouteOK(q) /\ StatusOK(q) /\ TruthOK(q)
            BY DEF GatewayInv, RouteInv, AuditTruthful, TruthOK
          <5>2. UNCHANGED <<pc, last, sent, stage, decision, status, event, due>>
            BY <3>1 DEF vars, route
          <5> QED
            BY <5>1, <5>2, Untouched
        <4>3. AuditTruthful'
          BY <3>1 DEF GatewayInv, AuditTruthful, vars, route
        <4> QED
          BY <4>1, <4>2, <4>3 DEF RouteInv
      <3>2. CASE Main \/ Signal \/ ListenFails \/ UNCHANGED gatewayVars
        <4>1. UNCHANGED <<vars, route>>
          BY <3>2 DEF Main, TakeSignal, TakeFailure, Drained, Deadline, CloseStore, Return, Signal,
                      ListenFails, gatewayVars, routeVars
        <4> QED
          BY <3>1, <4>1
      <3>3. ASSUME NEW r \in Requests, Serve(r) PROVE RouteType' /\ RouteInv' /\ AuditTruthful'
        BY <3>3, ServeStep
      <3> QED
        BY <3>2, <3>3 DEF GatewayNext
    <2> QED
      BY <2>1, <2>2
  <1> QED
    BY <1>1, <1>2, <1>3, PTL DEF GatewaySpec, GatewayInv

\* Only a request that met the CSRF check and the policy reaches a downstream, with an
\* authorization event that says so (CSRF, RequirePermission).
THEOREM CallsAuthorized == GatewaySpec => []OnlyAuthorized
  <1>1. GatewayInv => OnlyAuthorized
    BY DEF GatewayInv, RouteInv, RouteOK, OnlyAuthorized
  <1> QED
    BY <1>1, GatewayInvariant, PTL

\* The business event tells what happened downstream (BusinessAudit, HTTPStatus).
THEOREM EventsTruthful == GatewaySpec => []AuditTruthful
  BY GatewayInvariant, PTL DEF GatewayInv

\* A request outlives the store only after the deadline or a failure of the listener
\* (RunWith).
THEOREM StoreClosedLast == GatewaySpec => []StoreOutlives
  <1>1. GatewayInv => StoreOutlives
    BY DEF GatewayInv, ProcessInv, StoreOutlives
  <1> QED
    BY <1>1, GatewayInvariant, PTL

\* No call that reached a downstream is without its business event, unless the process
\* ended under it (RunWith, BusinessAudit).
THEOREM EventsComplete == GatewaySpec => TrailComplete
  <1> DEFINE Recorded ==
        \A r \in Requests :
          sent[r] > 0 /\ event[r] = "none" /\ (sent'[r] = 0 \/ main' = "exited")
            => main' = "exited" /\ cause \in {"deadline", "listener"}
  <1>1. GatewayInv /\ [GatewayNext]_gatewayVars => [Recorded]_gatewayVars
    <2> SUFFICES ASSUME GatewayInv, GatewayNext,
                        NEW r \in Requests, sent[r] > 0, event[r] = "none",
                        sent'[r] = 0 \/ main' = "exited"
                 PROVE  main' = "exited" /\ cause \in {"deadline", "listener"}
      OBVIOUS
    <2>1. TypeOK /\ RouteType /\ LoopOK(r) /\ RouteOK(r) /\ ProcessInv
      BY DEF GatewayInv, PathInv, LoopInv, RouteInv
    <2>2. stage[r] # "done" /\ pc[r] # "idle"
      <3>1. stage[r] # "done"
        BY <2>1 DEF RouteOK
      <3>2. pc[r] # "idle"
        BY <2>1, IdleUnsent
      <3> QED
        BY <3>1, <3>2
    <2>3. CASE Signal \/ ListenFails \/ TakeSignal \/ TakeFailure \/ Drained \/ Deadline \/ CloseStore
      <3>1. UNCHANGED vars
        BY <2>3 DEF Signal, ListenFails, TakeSignal, TakeFailure, Drained, Deadline, CloseStore, routeVars
      <3>2. CASE Signal
        BY <3>1, <3>2 DEF Signal, vars
      <3>3. CASE ~Signal
        <4>1. main' # "exited"
          BY <2>3, <3>3 DEF ListenFails, TakeSignal, TakeFailure, Drained, Deadline, CloseStore
        <4> QED
          BY <3>1, <4>1 DEF vars
      <3> QED
        BY <3>2, <3>3
    <2>4. CASE Return
      BY <2>1, <2>2, <2>4 DEF Return, ProcessInv
    <2>5. ASSUME NEW q \in Requests, Serve(q) PROVE FALSE
      <3>1. main' # "exited"
        BY <2>5 DEF Serve, process
      <3>2. q = r
        <4> SUFFICES ASSUME q # r PROVE FALSE
          OBVIOUS
        <4>1. sent'[r] = sent[r]
          BY <2>1, <2>5, Others
        <4> QED
          BY <3>1, <4>1
      <3>3. sent'[r] >= sent[r]
        <4>1. CASE Exit(r)
          BY <2>2, <4>1 DEF Exit
        <4>2. CASE Call(r)
          <5>1. CASE Send(r)
            BY <2>1, <5>1 DEF Send, TypeOK
          <5>2. CASE NewRequest(r) \/ Transport(r) \/ Backoff(r) \/ GiveUp(r) \/ Respond(r)
            <6>1. sent' = sent
              BY <5>2 DEF NewRequest, Transport, Backoff, GiveUp, Respond, loop
            <6> QED
              BY <2>1, <6>1 DEF TypeOK
          <5> QED
            BY <4>2, <5>1, <5>2 DEF Call
        <4>3. CASE CSRF(r) \/ RequirePermission(r) \/ Handler(r) \/ BusinessAudit(r)
          <5>1. sent' = sent
            BY <4>3, GuardsSendNothing
          <5> QED
            BY <2>1, <5>1 DEF TypeOK
        <4>4. CASE Enter(r) \/ Admit(r) \/ Reject(r) \/ CountOut(r) \/ Arrive(r) \/ Cancel(r)
          <5>1. sent' = sent
            BY <4>4 DEF Enter, Bypass, CountIn, Admit, Reject, CountOut, Arrive, Cancel, loop
          <5> QED
            BY <2>1, <5>1 DEF TypeOK
        <4> QED
          BY <2>5, <3>2, <4>1, <4>2, <4>3, <4>4 DEF Serve, RouteStep
      <3> QED
        BY <2>1, <3>1, <3>3 DEF TypeOK
    <2> QED
      BY <2>3, <2>4, <2>5 DEF GatewayNext, Main
  <1> QED
    BY <1>1, GatewayInvariant, PTL DEF GatewaySpec, TrailComplete
-----------------------------------------------------------------------------
(* What a request has ahead of it *)

\* Ahead of a request at p, under middleware s, with n attempts left.
Measure(p, s, n) ==
    4 * (IF p \in DOMAIN Place THEN 4 * n + Place[p] ELSE WayOut[p]) + Middlewares[s]

Left(r) == attempts(method[r]) - attempt[r]

\* The measure, place by place.
LEMMA Weights ==
    /\ Middlewares["none"] = 0 /\ Middlewares["csrf"] = 3 /\ Middlewares["permission"] = 2
    /\ Middlewares["route"] = 1 /\ Middlewares["done"] = 0
    /\ \A s, n : /\ Measure("arrived", s, n) = 4 * (4 * n + 6) + Middlewares[s]
                 /\ Measure("admitted", s, n) = 4 * (4 * n + 5) + Middlewares[s]
                 /\ Measure("handling", s, n) = 4 * (4 * n + 4) + Middlewares[s]
                 /\ Measure("again", s, n) = 4 * (4 * n + 4) + Middlewares[s]
                 /\ Measure("ready", s, n) = 4 * (4 * n + 3) + Middlewares[s]
                 /\ Measure("waiting", s, n) = 4 * (4 * n + 2) + Middlewares[s]
                 /\ Measure("backoff", s, n) = 4 * (4 * n + 1) + Middlewares[s]
                 /\ Measure("leaving", s, n) = 4 * 2 + Middlewares[s]
                 /\ Measure("left", s, n) = 4 * 1 + Middlewares[s]
                 /\ Measure("idle", s, n) = 4 * 0 + Middlewares[s]
  <1>1. DOMAIN Place = {"arrived", "admitted", "handling", "again", "ready", "waiting", "backoff"}
    BY DEF Place
  <1>2. /\ Place["arrived"] = 6 /\ Place["admitted"] = 5 /\ Place["handling"] = 4
        /\ Place["again"] = 4 /\ Place["ready"] = 3 /\ Place["waiting"] = 2 /\ Place["backoff"] = 1
    BY DEF Place
  <1>3. WayOut["leaving"] = 2 /\ WayOut["left"] = 1 /\ WayOut["idle"] = 0
    BY DEF WayOut
  <1>4. /\ Middlewares["none"] = 0 /\ Middlewares["csrf"] = 3 /\ Middlewares["permission"] = 2
        /\ Middlewares["route"] = 1 /\ Middlewares["done"] = 0
    BY DEF Middlewares
  <1> HIDE DEF Place, WayOut, Middlewares
  <1> QED
    BY <1>1, <1>2, <1>3, <1>4 DEF Measure

\* What is ahead is the measure of where the request is.
LEMMA AheadMeasure ==
    ASSUME NEW r
    PROVE  /\ Ahead(r) = Measure(pc[r], stage[r], Left(r))
           /\ Ahead(r)' = Measure(pc'[r], stage'[r], Left(r)')
  BY DEF Ahead, Measure, Left

\* The moves of a request, each to less: into the handler, through the middlewares,
\* through an attempt, to the next attempt, and out.
LEMMA Forward ==
    ASSUME NEW n \in Nat, n > 0
    PROVE  /\ Measure("handling", "csrf", n) < Measure("admitted", "none", n)
           /\ Measure("handling", "csrf", n) < Measure("arrived", "none", n)
           /\ Measure("admitted", "none", n) < Measure("arrived", "none", n)
           /\ Measure("handling", "permission", n) < Measure("handling", "csrf", n)
           /\ Measure("handling", "route", n) < Measure("handling", "permission", n)
           /\ Measure("ready", "route", n) < Measure("handling", "route", n)
           /\ Measure("ready", "route", n) < Measure("again", "route", n)
           /\ Measure("waiting", "route", n) < Measure("ready", "route", n)
           /\ Measure("backoff", "route", n) < Measure("ready", "route", n)
           /\ Measure("backoff", "route", n) < Measure("waiting", "route", n)
           /\ Measure("again", "route", n - 1) < Measure("backoff", "route", n)
  <1>1. /\ Measure("handling", "csrf", n) < Measure("admitted", "none", n)
        /\ Measure("handling", "csrf", n) < Measure("arrived", "none", n)
        /\ Measure("admitted", "none", n) < Measure("arrived", "none", n)
    BY Weights
  <1>2. /\ Measure("handling", "permission", n) < Measure("handling", "csrf", n)
        /\ Measure("handling", "route", n) < Measure("handling", "permission", n)
    BY Weights
  <1>3. /\ Measure("ready", "route", n) < Measure("handling", "route", n)
        /\ Measure("ready", "route", n) < Measure("again", "route", n)
        /\ Measure("waiting", "route", n) < Measure("ready", "route", n)
    BY Weights
  <1>4. /\ Measure("backoff", "route", n) < Measure("ready", "route", n)
        /\ Measure("backoff", "route", n) < Measure("waiting", "route", n)
    BY Weights
  <1>5. Measure("again", "route", n - 1) < Measure("backoff", "route", n)
    BY Weights
  <1> QED
    BY <1>1, <1>2, <1>3, <1>4, <1>5

LEMMA Backward ==
    ASSUME NEW n \in Nat, n > 0, NEW k \in Nat
    PROVE  /\ \A p \in {"handling", "again", "ready", "waiting", "backoff"}, s \in {"route", "done"} :
                Measure("leaving", s, k) < Measure(p, "route", n)
           /\ \A s \in {"csrf", "permission"} : Measure("leaving", "done", k) < Measure("handling", s, n)
           /\ Measure("idle", "none", k) < Measure("arrived", "none", n)
           /\ Measure("leaving", "done", k) < Measure("leaving", "route", n)
           /\ Measure("left", "none", k) < Measure("leaving", "done", n)
           /\ Measure("idle", "none", k) < Measure("left", "none", n)
  BY Weights

\* It is a natural number.
LEMMA AheadNat ==
    ASSUME NEW p \in {"idle", "arrived", "admitted", "left"} \cup Inside,
           NEW s \in {"none", "csrf", "permission", "route", "done"}, NEW n \in Nat
    PROVE  Measure(p, s, n) \in Nat
  BY Weights DEF Inside

\* Where a request is after each of its steps.
LEMMA OnItsWay ==
    ASSUME TypeOK, RouteType, NEW r \in Requests, RouteOK(r), RouteStep(r)
    PROVE  /\ method' = method
           /\ \/ /\ attempt' = attempt
                 /\ <<pc[r], stage[r], pc'[r], stage'[r]>> \in
                      {<<"arrived", "none", "idle", "none">>, <<"arrived", "none", "handling", "csrf">>,
                       <<"admitted", "none", "handling", "csrf">>, <<"arrived", "none", "admitted", "none">>,
                       <<"left", "none", "idle", "none">>,
                       <<"handling", "csrf", "handling", "permission">>, <<"handling", "csrf", "leaving", "done">>,
                       <<"handling", "permission", "handling", "route">>,
                       <<"handling", "permission", "leaving", "done">>,
                       <<"leaving", "route", "leaving", "done">>}
              \/ /\ attempt' = attempt
                 /\ stage[r] = "route" /\ stage'[r] = "route"
                 /\ <<pc[r], pc'[r]>> \in
                      {<<"handling", "ready">>, <<"again", "ready">>, <<"ready", "waiting">>,
                       <<"ready", "backoff">>, <<"waiting", "backoff">>,
                       <<"handling", "leaving">>, <<"again", "leaving">>, <<"ready", "leaving">>,
                       <<"waiting", "leaving">>, <<"backoff", "leaving">>}
              \/ /\ attempt' = [attempt EXCEPT ![r] = @ + 1]
                 /\ stage[r] = "route" /\ stage'[r] = "route"
                 /\ pc[r] = "backoff" /\ pc'[r] = "again"
              \/ /\ attempt' = [attempt EXCEPT ![r] = 0]
                 /\ stage[r] = "done" /\ stage'[r] = "none"
                 /\ pc[r] = "leaving" /\ pc'[r] = "left"
  <1>0. \A next : /\ Goto(r, next) => pc'[r] = next
                  /\ Hand(r, next) => stage'[r] = next
    BY DEF Goto, Hand, TypeOK, RouteType
  <1>1. ASSUME Refuse(r) PROVE pc[r] = "handling" /\ pc'[r] = "leaving" /\ UNCHANGED <<method, attempt>>
    BY <1>0, <1>1 DEF Refuse, loop
  <1>2. ASSUME UNCHANGED vars PROVE UNCHANGED <<pc, method, attempt>>
    BY <1>2 DEF vars
  <1>3. CASE Enter(r)
    <2>1. UNCHANGED <<method, attempt>>
      BY <1>3 DEF Enter, Bypass, CountIn, loop
    <2>2. pc[r] \in {"arrived", "admitted"} /\ stage[r] = "none"
      BY <1>3 DEF Enter, Bypass, CountIn, RouteOK, Inside
    <2>3. pc'[r] = "handling" \/ (pc[r] = "arrived" /\ pc'[r] = "idle")
      BY <1>0, <1>3 DEF Enter, Bypass, CountIn
    <2>4. IF pc'[r] = "handling" THEN stage'[r] = "csrf" ELSE stage'[r] = stage[r]
      BY <1>0, <1>3 DEF Enter
    <2> QED
      BY <2>1, <2>2, <2>3, <2>4
  <1>4. CASE CSRF(r)
    <2>1. pc[r] = "handling" /\ stage[r] = "csrf"
      BY <1>4 DEF CSRF
    <2>2. \/ Hand(r, "permission") /\ UNCHANGED vars
          \/ Refuse(r) /\ Hand(r, "done")
      BY <1>4 DEF CSRF
    <2> QED
      BY <1>0, <1>1, <1>2, <2>1, <2>2
  <1>5. CASE RequirePermission(r)
    <2>1. pc[r] = "handling" /\ stage[r] = "permission"
      BY <1>5 DEF RequirePermission
    <2>2. \/ Hand(r, "route") /\ UNCHANGED vars
          \/ Refuse(r) /\ Hand(r, "done")
      BY <1>5 DEF RequirePermission, Decide
    <2> QED
      BY <1>0, <1>1, <1>2, <2>1, <2>2
  <1>6. CASE Handler(r)
    <2>1. stage[r] = "route" /\ stage' = stage /\ Refuse(r)
      BY <1>6 DEF Handler
    <2> QED
      BY <1>1, <2>1
  <1>7. CASE Call(r)
    <2>1. stage[r] = "route" /\ stage'[r] = "route"
      BY <1>7 DEF Call
    <2>2. CASE NewRequest(r)
      <3>1. UNCHANGED <<method, attempt>>
        BY <2>2 DEF NewRequest, loop
      <3>2. pc[r] \in {"handling", "again"} /\ pc'[r] \in {"ready", "leaving"}
        BY <1>0, <2>2 DEF NewRequest
      <3> QED
        BY <2>1, <3>1, <3>2
    <2>3. CASE Send(r) \/ GiveUp(r)
      <3>1. UNCHANGED <<method, attempt>>
        BY <2>3 DEF Send, GiveUp, loop
      <3>2. <<pc[r], pc'[r]>> \in {<<"ready", "waiting">>, <<"backoff", "leaving">>}
        BY <1>0, <2>3 DEF Send, GiveUp
      <3> QED
        BY <2>1, <3>1, <3>2
    <2>4. CASE Transport(r) \/ Respond(r)
      <3>1. UNCHANGED <<method, attempt>>
        BY <2>4 DEF Transport, Respond
      <3>2. \E retryable : Retry(r, retryable)
        BY <2>4 DEF Transport, Respond
      <3>3. pc[r] \in {"ready", "waiting"} /\ pc'[r] \in {"backoff", "leaving"}
        BY <1>0, <2>4, <3>2 DEF Transport, Respond, Retry
      <3> QED
        BY <2>1, <3>1, <3>3
    <2>5. CASE Backoff(r)
      BY <1>0, <2>1, <2>5 DEF Backoff
    <2> QED
      BY <1>7, <2>2, <2>3, <2>4, <2>5 DEF Call
  <1>8. CASE BusinessAudit(r)
    <2>1. pc[r] = "leaving" /\ stage[r] = "route" /\ Hand(r, "done") /\ UNCHANGED vars
      BY <1>8 DEF BusinessAudit
    <2> QED
      BY <1>0, <1>2, <2>1
  <1>9. CASE Exit(r)
    <2>1. method' = method /\ attempt' = [attempt EXCEPT ![r] = 0] /\ stage[r] = "done"
      BY <1>9 DEF Exit, Leave
    <2>2. pc[r] = "leaving" /\ pc'[r] = "left" /\ stage'[r] = "none"
      BY <1>0, <1>9 DEF Exit, Leave, Hand
    <2> QED
      BY <2>1, <2>2
  <1>10. CASE (Admit(r) \/ Reject(r) \/ CountOut(r)) /\ UNCHANGED route
    <2>1. UNCHANGED <<method, attempt, stage>>
      BY <1>10 DEF Admit, Reject, CountOut, loop, route
    <2>2. <<pc[r], pc'[r]>> \in {<<"arrived", "admitted">>, <<"arrived", "idle">>, <<"left", "idle">>}
      BY <1>0, <1>10 DEF Admit, Reject, CountOut
    <2>3. stage[r] = "none"
      BY <2>2 DEF RouteOK, Inside
    <2> QED
      BY <2>1, <2>2, <2>3
  <1> QED
    BY <1>3, <1>4, <1>5, <1>6, <1>7, <1>8, <1>9, <1>10 DEF RouteStep

\* Each step of a request leaves less ahead of it.
LEMMA AheadLess ==
    ASSUME TypeOK, RouteType, NEW r \in Requests, LoopOK(r), RouteOK(r), RouteStep(r)
    PROVE  Ahead(r)' < Ahead(r)
  <1>0. Left(r) \in Nat /\ Left(r) > 0
    <2>1. attempts(method[r]) \in Nat \ {0} /\ attempt[r] \in Nat
      BY AttemptsPositive DEF TypeOK
    <2>2. attempt[r] < attempts(method[r])
      BY DEF LoopOK
    <2>3. \A a, b \in Nat : a < b => b - a \in Nat /\ b - a > 0
      OBVIOUS
    <2> QED
      BY <2>1, <2>2, <2>3 DEF Left
  <1>1. attempts(method[r]) \in Nat \ {0}
    BY AttemptsPositive
  <1> DEFINE n == Left(r)
             k == Left(r)'
  <1>2. SUFFICES Measure(pc'[r], stage'[r], k) < Measure(pc[r], stage[r], n)
    BY AheadMeasure
  <1>3. CASE method' = method /\ attempt' = attempt
    <2>1. k = n
      BY <1>3 DEF Left
    <2>2. CASE stage[r] = "route" /\ stage'[r] = "route"
      <3>1. <<pc[r], pc'[r]>> \in
               {<<"handling", "ready">>, <<"again", "ready">>, <<"ready", "waiting">>,
                <<"ready", "backoff">>, <<"waiting", "backoff">>,
                <<"handling", "leaving">>, <<"again", "leaving">>, <<"ready", "leaving">>,
                <<"waiting", "leaving">>, <<"backoff", "leaving">>}
            \/ (pc[r] = "backoff" /\ pc'[r] = "again" /\ attempt' = [attempt EXCEPT ![r] = @ + 1])
        BY <2>2, OnItsWay
      <3>2. ~(attempt' = [attempt EXCEPT ![r] = @ + 1])
        BY <1>3 DEF TypeOK
      <3> HIDE DEF n, k
      <3> QED
        BY <1>0, <2>1, <2>2, <3>1, <3>2, Forward, Backward DEF n
    <2>3. CASE ~(stage[r] = "route" /\ stage'[r] = "route") /\ ~(stage[r] = "done" /\ stage'[r] = "none")
      <3>1. <<pc[r], stage[r], pc'[r], stage'[r]>> \in
              {<<"arrived", "none", "idle", "none">>, <<"arrived", "none", "handling", "csrf">>,
               <<"admitted", "none", "handling", "csrf">>, <<"arrived", "none", "admitted", "none">>,
               <<"left", "none", "idle", "none">>,
               <<"handling", "csrf", "handling", "permission">>, <<"handling", "csrf", "leaving", "done">>,
               <<"handling", "permission", "handling", "route">>,
               <<"handling", "permission", "leaving", "done">>,
               <<"leaving", "route", "leaving", "done">>}
        BY <2>3, OnItsWay
      <3> HIDE DEF n, k
      <3> QED
        BY <1>0, <2>1, <3>1, Forward, Backward DEF n
    <2>4. CASE stage[r] = "done" /\ stage'[r] = "none"
      <3>1. pc[r] = "leaving" /\ pc'[r] = "left"
        BY <2>4, OnItsWay
      <3> QED
        BY <1>0, <2>1, <2>4, <3>1, Backward
    <2> QED
      BY <2>2, <2>3, <2>4
  <1>4. CASE /\ method' = method /\ attempt' = [attempt EXCEPT ![r] = @ + 1]
             /\ stage[r] = "route" /\ stage'[r] = "route"
             /\ pc[r] = "backoff" /\ pc'[r] = "again"
    <2>1. k = n - 1
      <3>1. attempt'[r] = attempt[r] + 1 /\ attempt[r] \in Nat
        BY <1>4 DEF TypeOK
      <3> QED
        BY <1>1, <1>4, <3>1 DEF Left
    <2> HIDE DEF n, k
    <2> QED
      BY <1>0, <1>4, <2>1, Forward DEF n
  <1>5. CASE /\ method' = method /\ attempt' = [attempt EXCEPT ![r] = 0]
             /\ stage[r] = "done" /\ stage'[r] = "none"
             /\ pc[r] = "leaving" /\ pc'[r] = "left"
    <2>1. k \in Nat
      <3>1. attempt'[r] = 0
        BY <1>5 DEF TypeOK
      <3> QED
        BY <1>1, <1>5, <3>1 DEF Left
    <2> HIDE DEF n, k
    <2> QED
      BY <1>0, <1>5, <2>1, Backward DEF n
  <1> QED
    BY <1>3, <1>4, <1>5, OnItsWay

\* What is ahead of a request is a natural number.
LEMMA AheadType ==
    ASSUME TypeOK, RouteType, NEW r \in Requests, LoopOK(r)
    PROVE  Ahead(r) \in Nat
  <1>1. Left(r) \in Nat
    <2>1. attempts(method[r]) \in Nat \ {0} /\ attempt[r] \in Nat
      BY AttemptsPositive DEF TypeOK
    <2>2. attempt[r] < attempts(method[r])
      BY DEF LoopOK
    <2>3. \A a, b \in Nat : a < b => b - a \in Nat /\ b - a > 0
      OBVIOUS
    <2> QED
      BY <2>1, <2>2, <2>3 DEF Left
  <1>2. /\ pc[r] \in {"idle", "arrived", "admitted", "left"} \cup Inside
        /\ stage[r] \in {"none", "csrf", "permission", "route", "done"}
    BY DEF TypeOK, RouteType
  <1> QED
    BY <1>1, <1>2, AheadMeasure, AheadNat

\* What other requests and the main goroutine do, and a cancellation, leave it as it is.
LEMMA AheadSame ==
    ASSUME TypeOK, RouteType, NEW r \in Requests, pc[r] # "idle", GatewayNext, ~RouteStep(r)
    PROVE  Ahead(r)' = Ahead(r)
  <1>1. SUFFICES pc'[r] = pc[r] /\ stage'[r] = stage[r] /\ method'[r] = method[r] /\ attempt'[r] = attempt[r]
    BY AheadMeasure DEF Left
  <1>2. CASE Main \/ Signal \/ ListenFails
    <2>1. UNCHANGED <<vars, route>>
      BY <1>2 DEF Main, TakeSignal, TakeFailure, Drained, Deadline, CloseStore, Return, Signal,
                  ListenFails, routeVars
    <2> QED
      BY <2>1 DEF vars, route
  <1>3. ASSUME NEW q \in Requests, Serve(q)
        PROVE  pc'[r] = pc[r] /\ stage'[r] = stage[r] /\ method'[r] = method[r] /\ attempt'[r] = attempt[r]
    <2>1. CASE q = r
      <3>1. Cancel(r) /\ UNCHANGED route
        BY <1>3, <2>1 DEF Serve, Arrive
      <3> QED
        BY <3>1 DEF Cancel, loop, route
    <2>2. CASE q # r
      <3>1. pc'[r] = pc[r] /\ stage'[r] = stage[r]
        BY <1>3, <2>2, Others
      <3>2. [Next]_vars
        BY <1>3, PathStep DEF GatewayNext
      <3>3. method'[r] = method[r] /\ attempt'[r] = attempt[r]
        <4>1. CASE Arrive(q) \/ Cancel(q)
          BY <2>2, <4>1 DEF Arrive, Cancel, TypeOK, loop
        <4>2. CASE UNCHANGED vars
          BY <4>2 DEF vars
        <4>3. CASE Step(q)
          <5>1. CASE Leave(q) \/ Backoff(q)
            BY <2>2, <5>1 DEF Leave, Backoff, TypeOK
          <5>2. CASE ~Leave(q) /\ ~Backoff(q)
            BY <4>3, <5>2 DEF Step, Bypass, Admit, Reject, CountIn, CountOut, Refuse, NewRequest, Send,
                              Transport, Respond, GiveUp, loop
          <5> QED
            BY <5>1, <5>2
        <4>4. Arrive(q) \/ Cancel(q) \/ UNCHANGED vars \/ Step(q)
          BY <1>3 DEF Serve, RouteStep, Enter, CSRF, RequirePermission, Decide, Handler, Call,
                      BusinessAudit, Exit, Step
        <4> QED
          BY <4>1, <4>2, <4>3, <4>4
      <3> QED
        BY <3>1, <3>3
    <2> QED
      BY <2>1, <2>2
  <1> QED
    BY <1>2, <1>3 DEF GatewayNext

\* No request goes on for ever: every step of its own leaves it less to do, and nothing
\* else leaves it more (DoJSON, BusinessAudit).
THEOREM RequestsRunOut == GatewaySpec => StepsRunOut
  <1> DEFINE RunsOut ==
        \A r \in Requests : pc[r] # "idle" =>
          /\ Ahead(r)' \in 0..Ahead(r)
          /\ RouteStep(r) => Ahead(r)' < Ahead(r)
  <1> DEFINE Natural == \A r \in Requests : Ahead(r) \in Nat
  <1>1. GatewayInv => Natural
    BY AheadType DEF GatewayInv, PathInv, LoopInv
  <1>2. GatewayInv /\ Natural /\ Natural' /\ [GatewayNext]_gatewayVars => [RunsOut]_gatewayVars
    <2> SUFFICES ASSUME GatewayInv, Natural, Natural', GatewayNext,
                        NEW r \in Requests, pc[r] # "idle"
                 PROVE  /\ Ahead(r)' \in 0..Ahead(r)
                        /\ RouteStep(r) => Ahead(r)' < Ahead(r)
      OBVIOUS
    <2>1. TypeOK /\ RouteType /\ LoopOK(r) /\ RouteOK(r)
      BY DEF GatewayInv, PathInv, LoopInv, RouteInv
    <2>2. Ahead(r) \in Nat /\ Ahead(r)' \in Nat
      OBVIOUS
    <2>3. RouteStep(r) => Ahead(r)' < Ahead(r)
      BY <2>1, AheadLess
    <2>4. ~RouteStep(r) => Ahead(r)' = Ahead(r)
      BY <2>1, AheadSame
    <2> QED
      BY <2>2, <2>3, <2>4
  <1> QED
    BY <1>1, <1>2, GatewayInvariant, PTL DEF GatewaySpec, StepsRunOut
=============================================================================
