---------------------------- MODULE AuthService ----------------------------
(***************************************************************************)
(* Login, callback, logout, /api/me and the protected routes: auth.Service,  *)
(* auth.Handler and middleware.RequirePermission over the flow store, the    *)
(* session store, the token store and the user-context cache, which every    *)
(* replica shares.  Each store call is a step; requests of one browser or of *)
(* several, on any replica, interleave between them.                         *)
(*                                                                         *)
(* Sessions.Get is session.LifecycleStore's: a read, and a second step when   *)
(* LastSeen is due and the copy is written back (module LifecycleStore has    *)
(* its timing).  StoreManager.AccessToken is its calls of the two stores      *)
(* (module TokenManager has its lock and the IdP).                           *)
(*                                                                         *)
(* A callback's session ID is random and new: the model uses the callback    *)
(* request itself as the ID.  A later request carries the cookie of some     *)
(* callback that was answered.                                              *)
(***************************************************************************)
EXTENDS FiniteSets

CONSTANTS
    States,     \* the state parameters of the logins that may be started
    Callbacks,  \* the callback requests, and the session IDs they create
    Requests,   \* the handlers that serve /api/me, /auth/logout and protected routes
    Faults      \* TRUE: a store call may fail, its write applied or not

ASSUME AuthAssumption == Faults \in BOOLEAN

VARIABLES
    flows,      \* the states whose flow is stored
    started,    \* the states StartLogin has handed out
    sessions,   \* the session IDs with a stored session
    over,       \* the session IDs past their absolute expiry
    tokens,     \* the session IDs with a stored token set
    cache,      \* the session IDs with a cached user context
    cpc,        \* where each callback is in CompleteCallback
    cstate,     \* the states each callback has taken from the flow store
    issued,     \* the session IDs sent to a browser in a cookie
    rpc,        \* where each handler is
    sid,        \* the session ID of its request
    idToken,    \* Logout found an ID token
    ans,        \* the status of its last response
    held,       \* the handlers whose Sessions.Get has a copy to write back
    gone,       \* history: the session had ended for good when the request began
    ended,      \* history: the session IDs that a logout or invalidate has gone about
    straddled   \* history: the session IDs deleted under a handler that writes back

login == <<flows, started>>
stores == <<sessions, over, tokens, cache>>
callback == <<cpc, cstate, issued>>
history == <<gone, ended, straddled>>
request == <<rpc, sid, idToken, ans, held, gone, ended, straddled>>
vars == <<flows, started, sessions, over, tokens, cache, cpc, cstate, issued,
          rpc, sid, idToken, ans, held, gone, ended, straddled>>

Init ==
    /\ flows = {} /\ started = {}
    /\ sessions = {} /\ over = {} /\ tokens = {} /\ cache = {}
    /\ cpc = [c \in Callbacks |-> "new"]
    /\ cstate = [c \in Callbacks |-> {}]
    /\ issued = {}
    /\ rpc = [r \in Requests |-> "idle"]
    /\ sid \in [Requests -> Callbacks]
    /\ idToken = [r \in Requests |-> FALSE]
    /\ ans = [r \in Requests |-> "none"]
    /\ held = {}
    /\ gone = [r \in Requests |-> FALSE]
    /\ ended = {} /\ straddled = {}
-----------------------------------------------------------------------------
\* The values of the set x that a write to y can leave: y, or, when the call fails,
\* the old or the new value.
Failed(x, y) == IF Faults THEN {x, y} ELSE {}

\* StartLogin: a new random state, and its flow is stored.  When the Put fails the
\* browser gets 503 and no state.
StartLogin(s) ==
    /\ s \notin started
    /\ \/ flows' = flows \cup {s} /\ started' = started \cup {s}
       \/ flows' \in Failed(flows, flows \cup {s}) /\ UNCHANGED started
    /\ UNCHANGED <<stores, callback, request>>

\* The flow's ten minutes are over.
FlowExpires(s) ==
    /\ s \in flows
    /\ flows' = flows \ {s}
    /\ UNCHANGED <<started, stores, callback, request>>

CGoto(c, label) == cpc' = [cpc EXCEPT ![c] = label]

\* A mutant: the flow is read and left in the store.
TakeKeeps(c, s) ==
    /\ s \in flows
    /\ CGoto(c, "exchanging")
    /\ cstate' = [cstate EXCEPT ![c] = {s}]
    /\ UNCHANGED flows

\* Flows.Take reads and removes the flow in one step.
Take(c, s) ==
    \/ /\ s \in flows
       /\ flows' = flows \ {s}
       /\ cstate' = [cstate EXCEPT ![c] = {s}]
       /\ CGoto(c, "exchanging")
    \/ /\ s \notin flows
       /\ CGoto(c, "failed")
       /\ UNCHANGED <<flows, cstate>>
    \/ /\ flows' \in Failed(flows, flows \ {s})
       /\ CGoto(c, "failed")
       /\ UNCHANGED cstate

\* A callback arrives with a state the gateway handed out: the browser may send it
\* again, or send it late.
Callback(c) ==
    /\ cpc[c] = "new"
    /\ \E s \in started : Take(c, s)
    /\ UNCHANGED <<started, stores, issued, request>>

\* Provider.Exchange, its checks of the ID token, and the identity check.
Exchange(c) ==
    /\ cpc[c] = "exchanging"
    /\ CGoto(c, "session") \/ CGoto(c, "failed")
    /\ UNCHANGED <<login, stores, cstate, issued, request>>

CallbackSession(c) ==
    /\ cpc[c] = "session"
    /\ \/ sessions' = sessions \cup {c} /\ CGoto(c, "tokens")
       \/ sessions' \in Failed(sessions, sessions \cup {c}) /\ CGoto(c, "failed")
    /\ UNCHANGED <<login, over, tokens, cache, cstate, issued, request>>

\* A mutant: an error of Tokens.Put is ignored.
TokensUnchecked(c) ==
    /\ cpc[c] = "tokens"
    /\ tokens' \in {tokens \cup {c}} \cup Failed(tokens, tokens)
    /\ CGoto(c, "answering")
    /\ UNCHANGED <<login, sessions, over, cache, cstate, issued, request>>

CallbackTokens(c) ==
    /\ cpc[c] = "tokens"
    /\ \/ tokens' = tokens \cup {c} /\ CGoto(c, "answering")
       \/ tokens' \in Failed(tokens, tokens \cup {c}) /\ CGoto(c, "undoing")
    /\ UNCHANGED <<login, sessions, over, cache, cstate, issued, request>>

\* The session is deleted again when the tokens could not be stored; the error of
\* that Delete is ignored.
CallbackUndo(c) ==
    /\ cpc[c] = "undoing"
    /\ sessions' \in {sessions \ {c}} \cup Failed(sessions, sessions \ {c})
    /\ CGoto(c, "failed")
    /\ UNCHANGED <<login, over, tokens, cache, cstate, issued, request>>

\* The handler sets the cookie and redirects.
CallbackAnswer(c) ==
    /\ cpc[c] = "answering"
    /\ issued' = issued \cup {c}
    /\ CGoto(c, "done")
    /\ UNCHANGED <<login, stores, cstate, request>>

CompleteCallback(c) ==
    \/ Callback(c) \/ Exchange(c) \/ CallbackSession(c) \/ CallbackTokens(c)
    \/ CallbackUndo(c) \/ CallbackAnswer(c)
-----------------------------------------------------------------------------
Goto(r, label) == rpc' = [rpc EXCEPT ![r] = label]

Answer(r, status) ==
    /\ Goto(r, "idle")
    /\ ans' = [ans EXCEPT ![r] = status]

\* The handlers that hold a copy of session i, and those that will store its tokens.
Touching(i) == {r \in held : sid[r] = i}
Renewing(i) == {r \in Requests : sid[r] = i /\ rpc[r] \in {"renewed", "storeSet"}}

\* The first step of each kind of request: GET /api/me, POST /auth/logout, a protected
\* route.
Begins == {"checkSession", "loadToken", "authorize"}

\* A request arrives with the cookie of i.
Begin(r, i) ==
    /\ rpc[r] = "idle"
    /\ \E label \in Begins :
          /\ Goto(r, label)
          /\ ended' = IF label = "loadToken" THEN ended \cup {i} ELSE ended
    /\ sid' = [sid EXCEPT ![r] = i]
    /\ idToken' = [idToken EXCEPT ![r] = FALSE]
    /\ ans' = [ans EXCEPT ![r] = "none"]
    /\ gone' = [gone EXCEPT ![r] = i \notin sessions /\ Touching(i) = {}]
    /\ UNCHANGED <<login, stores, callback, held, straddled>>
-----------------------------------------------------------------------------
\* Where Sessions.Get is called and where its caller goes on with the session: me, the
\* resolver of me, RequirePermission, and sessionExpiry of AccessToken.
After == [checkSession |-> "readCache", resolve |-> "fillCache",
          authorize |-> "loadSet", renewed |-> "storeSet"]

\* What an error of Sessions.Get comes to: invalidate in AccessToken, always 401 in the
\* resolver of me, and otherwise 401 for a missing session and 503 for the backend.
GetFails(r, status) ==
    IF rpc[r] = "renewed" THEN Goto(r, "dropSet") /\ UNCHANGED ans
    ELSE Answer(r, IF rpc[r] = "resolve" THEN "401" ELSE status)

\* A mutant: me serves the cached context without asking the session store.
GetSkipped(r) ==
    /\ rpc[r] \in DOMAIN After /\ r \notin held
    /\ \/ sid[r] \in sessions \/ rpc[r] = "checkSession"
    /\ Goto(r, After[rpc[r]])
    /\ UNCHANGED <<stores, ans, held>>

\* Sessions.Get reads; a session whose LastSeen is due is still to be written back.
GetSession(r) ==
    /\ rpc[r] \in DOMAIN After
    /\ r \notin held
    /\ \/ /\ sid[r] \in sessions
          /\ held' = held \cup {r}
          /\ UNCHANGED <<rpc, ans>>
       \/ /\ sid[r] \in sessions
          /\ Goto(r, After[rpc[r]])
          /\ UNCHANGED <<ans, held>>
       \/ /\ sid[r] \notin sessions
          /\ GetFails(r, "401")
          /\ UNCHANGED held
       \/ /\ Faults
          /\ GetFails(r, "503")
          /\ UNCHANGED held
    /\ UNCHANGED stores

\* The touch.  Past the absolute expiry the Redis store refuses it, and MemoryStore
\* keeps a record that no Get returns.
Touch(r) ==
    LET touched == sessions \cup ({sid[r]} \ over)
    IN  /\ r \in held
        /\ held' = held \ {r}
        /\ \/ /\ sessions' = touched
              /\ Goto(r, After[rpc[r]])
              /\ UNCHANGED ans
           \/ /\ sid[r] \in over
              /\ GetFails(r, "401")
              /\ UNCHANGED sessions
           \/ /\ sessions' \in Failed(sessions, touched)
              /\ GetFails(r, "503")
        /\ UNCHANGED <<over, tokens, cache>>

Lookup(r) ==
    /\ GetSession(r) \/ Touch(r)
    /\ UNCHANGED <<login, callback, sid, idToken, history>>
-----------------------------------------------------------------------------
\* CachedResolver.Resolve: Cache.Get; an error counts as a miss.
MeCache(r) ==
    /\ rpc[r] = "readCache"
    /\ \/ sid[r] \in cache /\ Answer(r, "200")
       \/ (sid[r] \notin cache \/ Faults) /\ Goto(r, "resolve") /\ UNCHANGED ans
    /\ UNCHANGED cache

\* Cache.Set, its error ignored, and the response.
MeFill(r) ==
    /\ rpc[r] = "fillCache"
    /\ cache' \in {cache \cup {sid[r]}} \cup Failed(cache, cache)
    /\ Answer(r, "200")

Me(r) ==
    /\ MeCache(r) \/ MeFill(r)
    /\ UNCHANGED <<login, sessions, over, tokens, callback, sid, idToken, held, history>>
-----------------------------------------------------------------------------
\* A mutant: an error of the first Store.Get is taken for a set that needs a refresh.
LoadSetUnchecked(r) ==
    /\ rpc[r] = "loadSet"
    /\ \/ Answer(r, "403")
       \/ (sid[r] \notin tokens \/ Faults) /\ Goto(r, "renewed") /\ UNCHANGED ans
       \/ sid[r] \in tokens /\ Answer(r, "200")
    /\ UNCHANGED <<stores, ended>>

\* A protected route whose policy refuses, or AccessToken's first Store.Get: no token
\* set, one that needs no refresh, or one that does.
LoadSet(r) ==
    /\ rpc[r] = "loadSet"
    /\ \/ Answer(r, "403")
       \/ (sid[r] \notin tokens \/ Faults) /\ Answer(r, "502")
       \/ sid[r] \in tokens /\ Answer(r, "200")
       \/ sid[r] \in tokens /\ (Goto(r, "renewed") \/ Goto(r, "dropSet")) /\ UNCHANGED ans
    /\ UNCHANGED <<stores, ended>>

\* AccessToken stores the refreshed set, which shares the session's expiry.
StoreSet(r) ==
    LET stored == tokens \cup ({sid[r]} \ over)
    IN  /\ rpc[r] = "storeSet"
        /\ \/ tokens' = stored /\ Answer(r, "200")
           \/ tokens' \in Failed(tokens, stored) /\ Answer(r, "502")
           \/ sid[r] \in over /\ UNCHANGED tokens /\ Answer(r, "502")
        /\ UNCHANGED <<sessions, over, cache, ended>>

\* invalidate after a failed refresh: Store.Delete, then Sessions.Delete, both errors
\* ignored.
DropSet(r) ==
    /\ rpc[r] = "dropSet"
    /\ tokens' \in {tokens \ {sid[r]}} \cup Failed(tokens, tokens)
    /\ ended' = ended \cup {sid[r]}
    /\ Goto(r, "dropLive")
    /\ UNCHANGED <<sessions, over, cache, ans>>

DropLive(r) ==
    /\ rpc[r] = "dropLive"
    /\ sessions' \in {sessions \ {sid[r]}} \cup Failed(sessions, sessions)
    /\ Answer(r, "502")
    /\ UNCHANGED <<over, tokens, cache, ended>>

AccessToken(r) ==
    /\ LoadSet(r) \/ StoreSet(r) \/ DropSet(r) \/ DropLive(r)
    /\ UNCHANGED <<login, callback, sid, idToken, held, gone, straddled>>
-----------------------------------------------------------------------------
\* Logout: Tokens.Get for the ID token.
LogoutLoad(r) ==
    /\ rpc[r] = "loadToken"
    /\ \/ /\ Goto(r, "dropTokens")
          /\ idToken' = [idToken EXCEPT ![r] = sid[r] \in tokens]
          /\ UNCHANGED ans
       \/ Faults /\ Answer(r, "503") /\ UNCHANGED idToken
    /\ UNCHANGED <<stores, straddled>>

\* Logout: Tokens.Delete.
LogoutTokens(r) ==
    /\ rpc[r] = "dropTokens"
    /\ \/ tokens' = tokens \ {sid[r]} /\ Goto(r, "dropSession") /\ UNCHANGED ans
       \/ tokens' \in Failed(tokens, tokens \ {sid[r]}) /\ Answer(r, "503")
    /\ straddled' = IF Renewing(sid[r]) = {} THEN straddled ELSE straddled \cup {sid[r]}
    /\ UNCHANGED <<sessions, over, cache, idToken>>

\* A mutant: an error of Sessions.Delete is ignored.
SessionUnchecked(r) ==
    /\ rpc[r] = "dropSession"
    /\ sessions' \in {sessions \ {sid[r]}} \cup Failed(sessions, sessions)
    /\ Goto(r, "dropCache")
    /\ straddled' = IF Touching(sid[r]) = {} THEN straddled ELSE straddled \cup {sid[r]}
    /\ UNCHANGED <<over, tokens, cache, idToken, ans>>

\* Logout: Sessions.Delete, then for a global logout EndSessionURL, which may fail.
LogoutSession(r) ==
    /\ rpc[r] = "dropSession"
    /\ \/ /\ sessions' = sessions \ {sid[r]}
          /\ \/ Goto(r, "dropCache") /\ UNCHANGED ans
             \/ idToken[r] /\ Answer(r, "503")
       \/ sessions' \in Failed(sessions, sessions \ {sid[r]}) /\ Answer(r, "503")
    /\ straddled' = IF Touching(sid[r]) = {} THEN straddled ELSE straddled \cup {sid[r]}
    /\ UNCHANGED <<over, tokens, cache, idToken>>

\* The handler deletes the cached context, ignoring an error, and answers 303.
LogoutCache(r) ==
    /\ rpc[r] = "dropCache"
    /\ cache' \in {cache \ {sid[r]}} \cup Failed(cache, cache)
    /\ Answer(r, "303")
    /\ UNCHANGED <<sessions, over, tokens, idToken, straddled>>

Logout(r) ==
    /\ LogoutLoad(r) \/ LogoutTokens(r) \/ LogoutSession(r) \/ LogoutCache(r)
    /\ UNCHANGED <<login, callback, sid, held, gone, ended>>
-----------------------------------------------------------------------------
\* A session is idle for too long, which leaves its tokens; or it reaches its absolute
\* expiry, which the tokens share.
SessionIdles(i) ==
    /\ i \in sessions
    /\ sessions' = sessions \ {i}
    /\ UNCHANGED <<login, over, tokens, cache, callback, request>>

SessionExpires(i) ==
    /\ i \in (sessions \cup tokens) \ over
    /\ sessions' = sessions \ {i}
    /\ tokens' = tokens \ {i}
    /\ over' = over \cup {i}
    /\ UNCHANGED <<login, cache, callback, request>>

\* The cached context's 60 seconds are over.
CacheExpires(i) ==
    /\ i \in cache
    /\ cache' = cache \ {i}
    /\ UNCHANGED <<login, sessions, over, tokens, callback, request>>

Next ==
    \/ \E s \in States : StartLogin(s) \/ FlowExpires(s)
    \/ \E c \in Callbacks : CompleteCallback(c)
    \/ \E i \in Callbacks : SessionIdles(i) \/ SessionExpires(i) \/ CacheExpires(i)
    \/ \E r \in Requests, i \in issued : Begin(r, i)
    \/ \E r \in Requests : Lookup(r) \/ Me(r) \/ AccessToken(r) \/ Logout(r)

Spec == Init /\ [][Next]_vars
-----------------------------------------------------------------------------
Steps == {"checkSession", "readCache", "resolve", "fillCache",
          "authorize", "loadSet", "renewed", "storeSet", "dropSet", "dropLive",
          "loadToken", "dropTokens", "dropSession", "dropCache"}

\* The type invariant.
TypeOK ==
    /\ flows \subseteq States /\ started \subseteq States
    /\ sessions \subseteq Callbacks /\ over \subseteq Callbacks
    /\ tokens \subseteq Callbacks /\ cache \subseteq Callbacks
    /\ cpc \in [Callbacks -> {"new", "exchanging", "session", "tokens", "undoing",
                              "answering", "done", "failed"}]
    /\ cstate \in [Callbacks -> SUBSET States]
    /\ issued \subseteq Callbacks
    /\ rpc \in [Requests -> {"idle"} \cup Steps]
    /\ sid \in [Requests -> Callbacks]
    /\ idToken \in [Requests -> BOOLEAN]
    /\ ans \in [Requests -> {"none", "200", "303", "401", "403", "502", "503"}]
    /\ held \subseteq Requests
    /\ gone \in [Requests -> BOOLEAN]
    /\ ended \subseteq Callbacks /\ straddled \subseteq Callbacks

\* README.md:228 "one-time state consumption": however often and however concurrently
\* a callback is delivered, at most one of the deliveries gets past Flows.Take, so one
\* login creates at most one session.
StateConsumedOnce ==
    \A c, d \in Callbacks : c # d => cstate[c] \cap cstate[d] = {}

\* CompleteCallback: a browser is given the cookie of a session only with its tokens
\* stored.  Until a logout or a failed refresh goes about deleting them, an issued
\* session that is alive, or was written back to life, has them.
IssuedComplete ==
    \A i \in issued : i \in sessions /\ i \notin ended => i \in tokens

\* docs/RESILIENCE.md:14 "logout does not report success when shared token/session
\* deletion fails": after a 303 neither record is there, and none comes back, whatever
\* callbacks, retries and other logouts do, unless a handler that had read the session
\* or the tokens before logout deleted them writes its copy back.
LogoutHonest ==
    \A r \in Requests :
        ans[r] = "303" /\ sid[r] \notin straddled => sid[r] \notin sessions \cup tokens

\* docs/RESILIENCE.md:43 "Derived user-context cache cannot extend a deleted or
\* expired session": a request that begins when the session is gone, and nobody is
\* about to write it back, is never answered 200, though the cache may still, or
\* again, hold its context.
CacheCannotExtend == \A r \in Requests : ans[r] = "200" => ~gone[r]

\* README.md:319 "The cache ... is invalidated on logout": after the logout's response
\* the context of the session is not cached.
CacheInvalidated == \A r \in Requests : ans[r] = "303" => sid[r] \notin cache

\* The session and the token set of an ID: not there before the callback has tried to
\* store them, and then there or ended.
SessionStatus(i) ==
    IF i \in sessions THEN "live"
    ELSE IF cpc[i] \in {"new", "exchanging", "session"} THEN "none" ELSE "ended"

TokenStatus(i) ==
    IF i \in tokens THEN "live"
    ELSE IF cpc[i] \in {"new", "exchanging", "session", "tokens"} THEN "none" ELSE "ended"

SessionRecord(i) == INSTANCE RecordContract WITH
    Clients <- Requests, status <- SessionStatus(i), copies <- Touching(i)

TokenRecord(i) == INSTANCE RecordContract WITH
    Clients <- Requests, status <- TokenStatus(i), copies <- Renewing(i)

\* Callback, logout, me, the protected routes and AccessToken use both stores as
\* RecordContract says: the records of an ID are created once, by its callback, and
\* one that has ended comes back only from a handler that read it before.  No retry,
\* failed call or late callback makes a record of its own.
RecordsKept ==
    /\ \A i \in Callbacks : SessionRecord(i)!Init /\ TokenRecord(i)!Init
    /\ [][\A i \in Callbacks :
            /\ [SessionRecord(i)!Next]_<<SessionStatus(i), Touching(i)>>
            /\ [TokenRecord(i)!Next]_<<TokenStatus(i), Renewing(i)>>]_vars
=============================================================================
