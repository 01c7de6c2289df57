------------------------------ MODULE AppRoute ------------------------------
(***************************************************************************)
(* What a request of RequestPath meets between the concurrency limiter and    *)
(* the outbound call: the CSRF middleware, RequirePermission with the static  *)
(* policy, BusinessAudit and the handler, as core.Router.Handle chains them,  *)
(* and on the way back the status of the answer and the audit event.          *)
(*                                                                         *)
(* A status stands for its class: 404 for the codes 4xx of a downstream, 500   *)
(* for its other 5xx.                                                        *)
(***************************************************************************)
EXTENDS RequestPath

CONSTANTS
    Roles,            \* roles a session may have
    RolePermissions,  \* Static.RolePermissions, a set of permissions per role
    Policy            \* "static", or "none": the evaluator is nil

ASSUME RouteAssumption ==
    /\ RolePermissions \in [Roles -> SUBSET {"asset.read", "storage.upload"}]
    /\ Policy \in {"static", "none"}

VARIABLES
    stage,     \* the middleware that has the request
    decision,  \* the authorization event, "none" before it
    status,    \* the status of the answer, 0 before it is written
    event,     \* the business event, "none" before it
    due,       \* history: the request met what its route asks for so far
    store      \* "open", or "closed": the connection to the session store

route == <<stage, decision, status, event, due>>
routeVars == <<vars, route, store>>

RouteInit ==
    /\ Init
    /\ stage = [r \in Requests |-> "none"]
    /\ decision = [r \in Requests |-> "none"]
    /\ status = [r \in Requests |-> 0]
    /\ event = [r \in Requests |-> "none"]
    /\ due = [r \in Requests |-> FALSE]
    /\ store = "open"

Hand(r, next) == stage' = [stage EXCEPT ![r] = next]
Answer(r, code) == status' = [status EXCEPT ![r] = code]
-----------------------------------------------------------------------------
isUnsafeMethod(m) == m # "GET"

constantTimeEqual(a, b) == a # "" /\ a = b

\* The cookie and the header of a request: absent or empty, or one of two tokens.
Tokens == {"", "t1", "t2"}

\* A request without a CSRF cookie is given one, and if it is unsafe refused all the
\* same: with 403, like one from another origin or whose header is not its cookie.
CSRF(r) ==
    /\ pc[r] = "handling" /\ stage[r] = "csrf"
    /\ \E sameOrigin \in BOOLEAN, cookie \in Tokens, header \in Tokens :
         /\ due' = [due EXCEPT ![r] =
                      method[r] = "GET" \/ (sameOrigin /\ <<cookie, header>> \in {<<"t1", "t1">>, <<"t2", "t2">>})]
         /\ IF ~isUnsafeMethod(method[r]) \/ (sameOrigin /\ constantTimeEqual(cookie, header))
            THEN Hand(r, "permission") /\ UNCHANGED <<vars, status>>
            ELSE Refuse(r) /\ Answer(r, 403) /\ Hand(r, "done")
    /\ UNCHANGED <<decision, event, store>>

\* Static.Evaluate and Static.Allowed.
Evaluate(roles) == UNION {RolePermissions[role] : role \in roles}
\* A mutant: any permission will do.
AllowedAny(roles, permission) == Evaluate(roles) # {}
Allowed(roles, permission) == permission \in Evaluate(roles)

Permission(m) == IF m = "GET" THEN "asset.read" ELSE "storage.upload"

\* emitDecision, and the answer unless the request is allowed.
Decide(r, outcome, code) ==
    /\ decision' = [decision EXCEPT ![r] = outcome]
    /\ IF outcome = "allow"
       THEN Hand(r, "route") /\ UNCHANGED <<vars, status>>
       ELSE Refuse(r) /\ Answer(r, code) /\ Hand(r, "done")

\* No cookie or no session: 401.  The store fails: 503.  No policy, or no role of the
\* session has the permission: 403.
RequirePermission(r) ==
    /\ pc[r] = "handling" /\ stage[r] = "permission"
    /\ \/ Decide(r, "deny", 401) /\ UNCHANGED due
       \/ Decide(r, "error", 503) /\ UNCHANGED due
       \/ /\ store = "open"
          /\ \E roles \in SUBSET Roles :
               /\ due' = [due EXCEPT ![r] =
                            @ /\ \E role \in roles : Permission(method[r]) \in RolePermissions[role]]
               /\ IF Policy = "static" /\ Allowed(roles, Permission(method[r]))
                  THEN Decide(r, "allow", 0) ELSE Decide(r, "deny", 403)
    /\ UNCHANGED <<event, store>>
-----------------------------------------------------------------------------
\* The status in the *Error DoJSON returns for an answer; other errors have none.
ErrorStatus == [redirect |-> 302, rejected |-> 404, failed |-> 500, gateway |-> 503]

\* A mutant: the downstream's status is passed on whatever it is.
HTTPStatusRaw(o) ==
    IF o = "ok" THEN 200 ELSE IF o \in DOMAIN ErrorStatus THEN ErrorStatus[o] ELSE 502

\* core.HTTPStatus of what DoJSON returns after outcome o.
HTTPStatus(o) ==
    IF o = "ok" THEN 200
    ELSE IF o \in DOMAIN ErrorStatus /\ ErrorStatus[o] \in 400..599 THEN ErrorStatus[o] ELSE 502

\* The handler has its answer when DoJSON returns.
Returned(r, code) ==
    status' = IF pc'[r] = "leaving" THEN [status EXCEPT ![r] = code] ELSE status

\* The handler refuses a bad id or body, or the protected client sheds the call.
Handler(r) ==
    /\ stage[r] = "route"
    /\ Refuse(r)
    /\ \E code \in {400, 503} : Answer(r, code)
    /\ UNCHANGED <<stage, decision, event, due, store>>

\* DoJSON under the handler.  Without a store there is no access token.
Call(r) ==
    /\ stage[r] = "route"
    /\ \/ NewRequest(r) /\ (store = "closed" => pc'[r] = "leaving") /\ Returned(r, HTTPStatus("none"))
       \/ (Send(r) \/ Transport(r) \/ Backoff(r) \/ GiveUp(r)) /\ Returned(r, HTTPStatus("none"))
       \/ Respond(r) /\ Returned(r, HTTPStatus(last'[r]))
    /\ UNCHANGED <<stage, decision, event, due, store>>

Outcome(code) == IF code >= 500 THEN "failure" ELSE IF code >= 400 THEN "deny" ELSE "success"

\* BusinessAudit after the handler has returned.
BusinessAudit(r) ==
    /\ pc[r] = "leaving" /\ stage[r] = "route"
    /\ event' = [event EXCEPT ![r] = Outcome(status[r])]
    /\ Hand(r, "done")
    /\ UNCHANGED <<vars, decision, status, due, store>>
-----------------------------------------------------------------------------
\* The limiter lets the request in, and is left when the middlewares have returned.
Enter(r) ==
    /\ Bypass(r) \/ CountIn(r)
    /\ IF pc'[r] = "handling" THEN Hand(r, "csrf") ELSE UNCHANGED stage
    /\ UNCHANGED <<decision, status, event, due, store>>

Exit(r) ==
    /\ stage[r] = "done"
    /\ Leave(r)
    /\ stage' = [stage EXCEPT ![r] = "none"]
    /\ decision' = [decision EXCEPT ![r] = "none"]
    /\ status' = [status EXCEPT ![r] = 0]
    /\ event' = [event EXCEPT ![r] = "none"]
    /\ due' = [due EXCEPT ![r] = FALSE]
    /\ UNCHANGED store

RouteStep(r) ==
    \/ Enter(r) \/ CSRF(r) \/ RequirePermission(r) \/ Handler(r) \/ Call(r)
    \/ BusinessAudit(r) \/ Exit(r)
    \/ (Admit(r) \/ Reject(r) \/ CountOut(r)) /\ UNCHANGED <<route, store>>
-----------------------------------------------------------------------------
\* A call reaches a downstream only for a request that the policy allows, whose
\* authorization event says so, and which came from this origin with its token if it
\* is a mutation (CSRF, RequirePermission).
OnlyAuthorized == \A r \in Requests : sent[r] > 0 => decision[r] = "allow" /\ due[r]

\* The business event tells what happened downstream: success exactly when the call
\* was answered and read, deny only when nothing was sent or the downstream refused
\* (BusinessAudit, HTTPStatus).  No business event without an authorization event.
AuditTruthful ==
    \A r \in Requests : event[r] # "none" =>
        /\ decision[r] = "allow"
        /\ event[r] = "success" <=> last[r] = "ok"
        /\ event[r] = "deny" => sent[r] = 0 \/ last[r] = "rejected"
=============================================================================
