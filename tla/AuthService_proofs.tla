------------------------- MODULE AuthService_proofs -------------------------
(***************************************************************************)
(* For any number of logins, callbacks and handlers, with failing store      *)
(* calls: a state is consumed once, an issued session has its tokens, a       *)
(* successful logout is honest and final, the cache extends no session, and   *)
(* the session and the tokens of every login follow RecordContract.           *)
(***************************************************************************)
EXTENDS AuthService, TLAPS

\* A state a callback took is not in the store, will not be put there again, and was
\* taken by no other callback.
StateInv ==
    /\ StateConsumedOnce
    /\ \A c \in Callbacks : cstate[c] \cap flows = {} /\ cstate[c] \subseteq started

\* The steps at which a handler is inside Sessions.Get, and those of Logout.
Lookups == {"checkSession", "resolve", "authorize", "renewed"}
LogoutSteps == {"loadToken", "dropTokens", "dropSession", "dropCache"}

\* Requests carry IDs of finished callbacks, which write their records no more; the
\* token set is there from the answer on, until a logout, a failed refresh or the
\* absolute expiry takes it.
IssuedInv ==
    /\ \A i \in issued : cpc[i] = "done"
    /\ \A r \in Requests : rpc[r] # "idle" \/ ans[r] # "none" \/ gone[r] => sid[r] \in issued
    /\ \A r \in Requests : rpc[r] \in LogoutSteps \/ rpc[r] = "dropLive" => sid[r] \in ended
    /\ \A r \in held : rpc[r] \in Lookups
    /\ sessions \cap over = {}
    /\ \A c \in Callbacks : cpc[c] \in {"new", "exchanging", "session"} => c \notin over \cup sessions \cup tokens
    /\ \A c \in Callbacks : cpc[c] \in {"answering", "done"} /\ c \notin ended /\ c \notin over
                               => c \in tokens

\* What a logout has deleted so far stays deleted: nobody holds a copy.
DeletedInv ==
    \A r \in Requests : sid[r] \notin straddled =>
        /\ rpc[r] \in {"dropSession", "dropCache"} \/ ans[r] = "303"
              => sid[r] \notin tokens /\ Renewing(sid[r]) = {}
        /\ rpc[r] = "dropCache" \/ ans[r] = "303"
              => sid[r] \notin sessions /\ Touching(sid[r]) = {}

\* A session that had ended for good when the request began stays ended, so the request
\* does not get beyond its first lookup.
CheckedInv ==
    \A r \in Requests : gone[r] =>
        /\ sid[r] \notin sessions /\ Touching(sid[r]) = {}
        /\ rpc[r] \in {"idle", "checkSession", "authorize"} \cup LogoutSteps
        /\ ans[r] # "200"

AInv == TypeOK /\ StateInv /\ IssuedInv /\ DeletedInv /\ CheckedInv
-----------------------------------------------------------------------------
LEMMA InitInv == Init => AInv
  <1> SUFFICES ASSUME Init PROVE AInv
    OBVIOUS
  <1>1. TypeOK
    BY DEF Init, TypeOK
  <1>2. StateInv /\ IssuedInv /\ DeletedInv /\ CheckedInv
    BY DEF Init, StateInv, StateConsumedOnce, IssuedInv, DeletedInv, CheckedInv, LogoutSteps
  <1> QED
    BY <1>1, <1>2 DEF AInv

\* Where a lookup goes on.
LEMMA AfterLookup ==
    /\ DOMAIN After = Lookups
    /\ After["checkSession"] = "readCache" /\ After["resolve"] = "fillCache"
    /\ After["authorize"] = "loadSet" /\ After["renewed"] = "storeSet"
  BY DEF After, Lookups

\* The login and the environment: they add no state twice and only remove records.
LEMMA LoginStep ==
    ASSUME AInv,
           \/ \E s \in States : StartLogin(s) \/ FlowExpires(s)
           \/ \E i \in Callbacks : SessionIdles(i) \/ SessionExpires(i) \/ CacheExpires(i)
    PROVE  AInv'
  <1> USE DEF AInv, TypeOK, StateInv, StateConsumedOnce, IssuedInv, DeletedInv, CheckedInv,
              Touching, Renewing
  <1>1. ASSUME NEW s \in States, StartLogin(s) PROVE AInv'
    BY <1>1 DEF StartLogin, Failed, stores, callback, request
  <1>2. ASSUME NEW s \in States, FlowExpires(s) PROVE AInv'
    BY <1>2 DEF FlowExpires, stores, callback, request
  <1>3. ASSUME NEW i \in Callbacks, SessionIdles(i) PROVE AInv'
    BY <1>3 DEF SessionIdles, login, callback, request
  <1>4. ASSUME NEW i \in Callbacks, SessionExpires(i) PROVE AInv'
    BY <1>4 DEF SessionExpires, login, callback, request
  <1>5. ASSUME NEW i \in Callbacks, CacheExpires(i) PROVE AInv'
    BY <1>5 DEF CacheExpires, login, callback, request
  <1> QED
    BY <1>1, <1>2, <1>3, <1>4, <1>5

\* A callback writes only its own records, and only before its ID is issued.
LEMMA CallbackStep ==
    ASSUME AInv, NEW c \in Callbacks, CompleteCallback(c)
    PROVE  AInv'
  <1> USE DEF AInv, TypeOK, StateInv, StateConsumedOnce, IssuedInv, DeletedInv, CheckedInv,
              Touching, Renewing, CGoto
  <1>1. CASE Callback(c)
    BY <1>1 DEF Callback, Take, Failed, stores, request
  <1>2. CASE Exchange(c)
    BY <1>2 DEF Exchange, login, stores, request
  <1>3. CASE CallbackSession(c)
    BY <1>3 DEF CallbackSession, Failed, login, request
  <1>4. CASE CallbackTokens(c)
    BY <1>4 DEF CallbackTokens, Failed, login, request
  <1>5. CASE CallbackUndo(c)
    BY <1>5 DEF CallbackUndo, Failed, login, request
  <1>6. CASE CallbackAnswer(c)
    BY <1>6 DEF CallbackAnswer, login, stores, request
  <1> QED
    BY <1>1, <1>2, <1>3, <1>4, <1>5, <1>6 DEF CompleteCallback

\* A request starts with an issued ID; what it remembers of the session is true.
LEMMA BeginStep ==
    ASSUME AInv, NEW r \in Requests, NEW i \in issued, Begin(r, i)
    PROVE  AInv'
  <1> USE DEF AInv, Begin, Begins, Goto
  <1>1. TypeOK'
    <2>1. gone' \in [Requests -> BOOLEAN] /\ idToken' \in [Requests -> BOOLEAN]
      <3>1. (i \notin sessions /\ Touching(i) = {}) \in BOOLEAN
        OBVIOUS
      <3> QED
        BY <3>1, Zenon DEF TypeOK
    <2> QED
      BY <2>1 DEF TypeOK, Steps, login, stores, callback
  <1>2. StateInv' /\ IssuedInv'
    BY DEF TypeOK, StateInv, StateConsumedOnce, IssuedInv, Lookups, LogoutSteps, login, stores, callback
  <1>3. DeletedInv'
    BY DEF TypeOK, DeletedInv, IssuedInv, Touching, Renewing, Lookups, login, stores, callback
  <1>4. CheckedInv'
    <2>1. r \notin held
      BY DEF IssuedInv, Lookups
    <2>2. \A q \in held : sid'[q] = sid[q]
      BY <2>1 DEF TypeOK
    <2> DEFINE Ended(q) == /\ sid[q] \notin sessions /\ Touching(sid[q]) = {}
                           /\ rpc[q] \in {"idle", "checkSession", "authorize"} \cup LogoutSteps
                           /\ ans[q] # "200"
    <2>3. ASSUME NEW q \in Requests, q # r, gone'[q]
          PROVE  Ended(q)'
      <3>1. gone[q]
        BY <2>3, Zenon DEF TypeOK
      <3>2. sid'[q] = sid[q] /\ rpc'[q] = rpc[q] /\ ans'[q] = ans[q] /\ sessions' = sessions
        BY <2>3 DEF TypeOK, stores
      <3>3. Ended(q)
        BY <3>1 DEF CheckedInv
      <3>4. Touching(sid[q])' = Touching(sid[q])
        BY <2>2, <3>2 DEF Touching
      <3> QED
        BY <3>2, <3>3, <3>4
    <2>4. ASSUME gone'[r]
          PROVE  Ended(r)'
      <3>1. i \notin sessions /\ Touching(i) = {}
        BY <2>4, Zenon DEF TypeOK
      <3>2. sid'[r] = i /\ rpc'[r] \in Begins /\ ans'[r] = "none" /\ sessions' = sessions
        BY DEF TypeOK, stores
      <3>3. Touching(sid[r])' = Touching(i)
        BY <2>2, <3>2 DEF Touching
      <3> QED
        BY <3>1, <3>2, <3>3 DEF LogoutSteps
    <2> QED
      BY <2>3, <2>4 DEF CheckedInv
  <1> QED
    BY <1>1, <1>2, <1>3, <1>4

\* Sessions.Get holds a copy only of a session that is there, and writes back only what
\* it holds.
LEMMA LookupStep ==
    ASSUME AInv, NEW r \in Requests, Lookup(r)
    PROVE  AInv'
  <1> USE AfterLookup DEF AInv, Lookup, Goto, Answer, GetFails
  <1>1. CASE GetSession(r)
    <2> USE <1>1 DEF GetSession
    <2>1. TypeOK'
      BY DEF TypeOK, Lookups, Steps, login, callback, history, stores
    <2>2. StateInv' /\ IssuedInv'
      BY DEF TypeOK, StateInv, StateConsumedOnce, IssuedInv, Lookups, LogoutSteps, login,
             callback, history, stores
    <2>3. DeletedInv'
      BY DEF TypeOK, DeletedInv, IssuedInv, Touching, Renewing, Lookups, login, callback,
             history, stores
    <2>4. CheckedInv'
      BY DEF TypeOK, CheckedInv, IssuedInv, Touching, Lookups, LogoutSteps, login, callback,
             history, stores
    <2> QED
      BY <2>1, <2>2, <2>3, <2>4
  <1>2. CASE Touch(r)
    <2> USE <1>2 DEF Touch, Failed
    <2>0. rpc[r] \in Lookups
      BY DEF IssuedInv
    <2>1. TypeOK'
      BY <2>0 DEF TypeOK, Lookups, Steps, login, callback, history
    <2>2. StateInv' /\ IssuedInv'
      BY <2>0 DEF TypeOK, StateInv, StateConsumedOnce, IssuedInv, Lookups, LogoutSteps, login,
             callback, history
    <2>3. DeletedInv'
      BY <2>0 DEF TypeOK, DeletedInv, Touching, Renewing, Lookups, login, callback, history
    <2>4. CheckedInv'
      BY <2>0 DEF TypeOK, CheckedInv, Touching, Lookups, LogoutSteps, login, callback, history
    <2> QED
      BY <2>1, <2>2, <2>3, <2>4
  <1> QED
    BY <1>1, <1>2 DEF Lookup

\* me writes only the cache.
LEMMA MeStep ==
    ASSUME AInv, NEW r \in Requests, Me(r)
    PROVE  AInv'
  <1> USE DEF AInv, Goto, Answer, Me, TypeOK, StateInv, StateConsumedOnce, IssuedInv, DeletedInv,
              CheckedInv, Touching, Renewing, Lookups, LogoutSteps, Steps, login, callback, history
  <1>1. CASE MeCache(r)
    BY <1>1 DEF MeCache
  <1>2. CASE MeFill(r)
    BY <1>2 DEF MeFill, Failed
  <1> QED
    BY <1>1, <1>2

\* AccessToken stores a set only when it had read one, and deletes set before session.
LEMMA AccessStep ==
    ASSUME AInv, NEW r \in Requests, AccessToken(r)
    PROVE  AInv'
  <1>1. CASE LoadSet(r)
    <2> USE <1>1 DEF AInv, TypeOK, Goto, Answer, AccessToken, LoadSet, login, callback, stores
    <2>1. TypeOK'
      BY DEF Steps
    <2>2. StateInv'
      BY DEF StateInv, StateConsumedOnce
    <2>3. IssuedInv'
      BY DEF IssuedInv, Lookups, LogoutSteps
    <2>4. DeletedInv'
      BY DEF DeletedInv, Touching, Renewing
    <2>5. CheckedInv'
      BY DEF CheckedInv, Touching, LogoutSteps
    <2> QED
      BY <2>1, <2>2, <2>3, <2>4, <2>5
  <1> USE DEF AInv, Goto, Answer, AccessToken, TypeOK, StateInv, StateConsumedOnce, IssuedInv,
              DeletedInv, CheckedInv, Touching, Renewing, Lookups, LogoutSteps, Steps, login, callback
  <1>2. CASE StoreSet(r)
    BY <1>2 DEF StoreSet, Failed
  <1>3. CASE DropSet(r)
    BY <1>3 DEF DropSet, Failed
  <1>4. CASE DropLive(r)
    BY <1>4 DEF DropLive, Failed
  <1> QED
    BY <1>1, <1>2, <1>3, <1>4

\* Logout only removes, in the order tokens, session, cache.
LEMMA LogoutStep ==
    ASSUME AInv, NEW r \in Requests, Logout(r)
    PROVE  AInv'
  <1> USE DEF AInv, Logout, Goto, Answer
  <1>1. CASE LogoutLoad(r)
    <2>1. idToken' \in [Requests -> BOOLEAN]
      <3>1. (sid[r] \in tokens) \in BOOLEAN
        OBVIOUS
      <3>2. idToken' = [idToken EXCEPT ![r] = sid[r] \in tokens] \/ idToken' = idToken
        BY <1>1 DEF LogoutLoad
      <3> QED
        BY <3>1, <3>2, Zenon DEF TypeOK
    <2>2. TypeOK'
      BY <1>1, <2>1 DEF LogoutLoad, TypeOK, Steps, login, stores, callback
    <2>3. StateInv' /\ IssuedInv'
      BY <1>1 DEF LogoutLoad, TypeOK, StateInv, StateConsumedOnce, IssuedInv, Lookups, LogoutSteps,
                  login, stores, callback
    <2>4. DeletedInv'
      BY <1>1 DEF LogoutLoad, TypeOK, DeletedInv, Touching, Renewing, login, stores, callback
    <2>5. CheckedInv'
      BY <1>1 DEF LogoutLoad, TypeOK, CheckedInv, Touching, LogoutSteps, login, stores, callback
    <2> QED
      BY <2>2, <2>3, <2>4, <2>5
  <1>2. CASE LogoutTokens(r)
    <2>1. TypeOK'
      BY <1>2 DEF LogoutTokens, Failed, TypeOK, Steps, login, callback
    <2>2. StateInv' /\ IssuedInv'
      BY <1>2 DEF LogoutTokens, Failed, TypeOK, StateInv, StateConsumedOnce, IssuedInv, Lookups,
                  LogoutSteps, login, callback
    <2>3. DeletedInv'
      BY <1>2 DEF LogoutTokens, Failed, TypeOK, DeletedInv, Touching, Renewing, login, callback
    <2>4. CheckedInv'
      BY <1>2 DEF LogoutTokens, Failed, TypeOK, CheckedInv, Touching, LogoutSteps, login, callback
    <2> QED
      BY <2>1, <2>2, <2>3, <2>4
  <1>3. CASE LogoutSession(r)
    BY <1>3 DEF LogoutSession, Failed, TypeOK, StateInv, StateConsumedOnce, IssuedInv, DeletedInv,
                CheckedInv, Touching, Renewing, Lookups, LogoutSteps, Steps, login, callback
  <1>4. CASE LogoutCache(r)
    BY <1>4 DEF LogoutCache, Failed, TypeOK, StateInv, StateConsumedOnce, IssuedInv, DeletedInv,
                CheckedInv, Touching, Renewing, Lookups, LogoutSteps, Steps, login, callback
  <1> QED
    BY <1>1, <1>2, <1>3, <1>4

LEMMA AuthInvariant == Spec => []AInv
  <1>1. AInv /\ UNCHANGED vars => AInv'
    BY DEF AInv, TypeOK, StateInv, StateConsumedOnce, IssuedInv, DeletedInv, CheckedInv,
           Touching, Renewing, vars
  <1>2. AInv /\ [Next]_vars => AInv'
    BY <1>1, LoginStep, CallbackStep, BeginStep, LookupStep, MeStep, AccessStep, LogoutStep DEF Next
  <1> QED
    BY InitInv, <1>2, PTL DEF Spec

\* Type correctness of the auth handlers and the stores they share.
THEOREM TypeCorrect == Spec => []TypeOK
  BY AuthInvariant, PTL DEF AInv

\* One-time state consumption: at most one callback gets past Flows.Take per login.
THEOREM OneCallbackPerLogin == Spec => []StateConsumedOnce
  BY AuthInvariant, PTL DEF AInv, StateInv

\* Until a logout or a failed refresh, a live session that a browser has a cookie for
\* has its tokens.
THEOREM CallbackComplete == Spec => []IssuedComplete
  <1>1. AInv => IssuedComplete
    BY DEF AInv, TypeOK, IssuedInv, IssuedComplete
  <1> QED
    BY AuthInvariant, <1>1, PTL

\* After a logout answered 303, tokens and session are gone for good, unless a handler
\* that held a copy when they were deleted writes it back.
THEOREM LogoutSafe == Spec => []LogoutHonest
  <1>1. AInv => LogoutHonest
    BY DEF AInv, DeletedInv, LogoutHonest
  <1> QED
    BY AuthInvariant, <1>1, PTL

\* The user-context cache never answers for a session that was gone when the request
\* began.
THEOREM CacheSafe == Spec => []CacheCannotExtend
  <1>1. AInv => CacheCannotExtend
    BY DEF AInv, CheckedInv, CacheCannotExtend
  <1> QED
    BY AuthInvariant, <1>1, PTL

-----------------------------------------------------------------------------
(* Both stores follow RecordContract *)

\* A callback that has yet to store the token set finds none.
UnstoredInv == \A c \in Callbacks : cpc[c] = "tokens" => c \notin tokens

\* Only a callback at its own Tokens.Put, or a handler with an issued ID, adds a set.
LEMMA UnstoredStep ==
    ASSUME AInv, UnstoredInv, [Next]_vars
    PROVE  UnstoredInv'
  <1> SUFFICES ASSUME NEW i \in Callbacks, cpc'[i] = "tokens" PROVE i \notin tokens'
    BY DEF UnstoredInv
  <1>1. ASSUME cpc' = cpc, tokens' \subseteq tokens PROVE i \notin tokens'
    BY <1>1 DEF UnstoredInv
  <1>2. ASSUME NEW c \in Callbacks, CompleteCallback(c) PROVE i \notin tokens'
    <2>1. CASE CallbackTokens(c)
      <3>1. cpc'[c] # "tokens" /\ (i # c => cpc'[i] = cpc[i]) /\ tokens' \subseteq tokens \cup {c}
        BY <2>1 DEF CallbackTokens, Failed, CGoto, AInv, TypeOK
      <3> QED
        BY <3>1 DEF UnstoredInv
    <2>2. CASE ~CallbackTokens(c)
      <3>1. tokens' = tokens
        BY <1>2, <2>2 DEF CompleteCallback, Callback, Exchange, CallbackSession, CallbackUndo,
                          CallbackAnswer, stores
      <3>2. i # c => cpc'[i] = cpc[i]
        BY <1>2, <2>2 DEF CompleteCallback, Callback, Take, Exchange, CallbackSession, CallbackUndo,
                          CallbackAnswer, CGoto, AInv, TypeOK
      <3>3. i = c => cpc[i] \in {"new", "exchanging", "session"}
        BY <1>2, <2>2 DEF CompleteCallback, Callback, Take, Exchange, CallbackSession, CallbackUndo,
                          CallbackAnswer, CGoto, AInv, TypeOK
      <3> QED
        BY <3>1, <3>2, <3>3 DEF UnstoredInv, AInv, IssuedInv
    <2> QED
      BY <2>1, <2>2
  <1>3. ASSUME NEW r \in Requests, AccessToken(r) PROVE i \notin tokens'
    <2>1. cpc' = cpc
      BY <1>3 DEF AccessToken, callback
    <2>2. CASE StoreSet(r)
      <3>1. sid[r] \in issued /\ cpc[sid[r]] = "done"
        BY <2>2 DEF StoreSet, AInv, IssuedInv
      <3>2. tokens' \subseteq tokens \cup {sid[r]}
        BY <2>2 DEF StoreSet, Failed
      <3> QED
        BY <2>1, <3>1, <3>2 DEF UnstoredInv
    <2>3. CASE ~StoreSet(r)
      <3>1. tokens' \subseteq tokens
        BY <1>3, <2>3 DEF AccessToken, LoadSet, DropSet, DropLive, Failed, stores
      <3> QED
        BY <1>1, <2>1, <3>1
    <2> QED
      BY <2>2, <2>3
  <1>4. ASSUME NEW r \in Requests, (\E j \in issued : Begin(r, j)) \/ Lookup(r) \/ Me(r) \/ Logout(r)
        PROVE  i \notin tokens'
    <2>1. cpc' = cpc
      BY <1>4 DEF Begin, Lookup, Me, Logout, callback
    <2>2. tokens' \subseteq tokens
      BY <1>4 DEF Begin, Lookup, GetSession, Touch, Me, Logout, LogoutLoad, LogoutTokens,
                  LogoutSession, LogoutCache, Failed, stores
    <2> QED
      BY <1>1, <2>1, <2>2
  <1>5. CASE \/ \E s \in States : StartLogin(s) \/ FlowExpires(s)
             \/ \E j \in Callbacks : SessionIdles(j) \/ SessionExpires(j) \/ CacheExpires(j)
             \/ UNCHANGED vars
    <2>1. cpc' = cpc /\ tokens' \subseteq tokens
      BY <1>5 DEF StartLogin, FlowExpires, SessionIdles, SessionExpires, CacheExpires, stores,
                  callback, vars
    <2> QED
      BY <1>1, <2>1
  <1> QED
    BY <1>2, <1>3, <1>4, <1>5 DEF Next

\* Whoever only removes sessions ends them.
LEMMA SessionFewer ==
    ASSUME AInv, NEW i \in Callbacks, sessions' \subseteq sessions, cpc' = cpc,
           Touching(i)' = Touching(i)
    PROVE  [SessionRecord(i)!Next]_<<SessionStatus(i), Touching(i)>>
  <1>1. CASE i \in sessions' \/ i \notin sessions
    BY <1>1 DEF SessionStatus
  <1>2. CASE i \in sessions /\ i \notin sessions'
    <2>1. cpc[i] \notin {"new", "exchanging", "session"}
      BY <1>2 DEF AInv, IssuedInv
    <2>2. SessionStatus(i) = "live" /\ SessionStatus(i)' = "ended"
      BY <1>2, <2>1 DEF SessionStatus
    <2> QED
      BY <2>2 DEF SessionRecord!Next, SessionRecord!End
  <1> QED
    BY <1>1, <1>2

\* A callback creates its own session, or fails to.
LEMMA SessionCallback ==
    ASSUME AInv, NEW i \in Callbacks, NEW c \in Callbacks, CompleteCallback(c)
    PROVE  [SessionRecord(i)!Next]_<<SessionStatus(i), Touching(i)>>
  <1>1. Touching(i)' = Touching(i)
    BY DEF CompleteCallback, Callback, Exchange, CallbackSession, CallbackTokens, CallbackUndo,
           CallbackAnswer, request, Touching
  <1>2. CASE i # c
    <2>1. cpc'[i] = cpc[i]
      BY <1>2 DEF CompleteCallback, Callback, Take, Exchange, CallbackSession, CallbackTokens,
                  CallbackUndo, CallbackAnswer, CGoto, AInv, TypeOK
    <2>2. i \in sessions' <=> i \in sessions
      BY <1>2 DEF CompleteCallback, Callback, Exchange, CallbackSession, CallbackTokens, CallbackUndo,
                  CallbackAnswer, Failed, stores
    <2> QED
      BY <1>1, <2>1, <2>2 DEF SessionStatus
  <1>3. CASE i = c
    <2> USE DEF AInv, TypeOK, CGoto
    <2>1. CASE Callback(c) \/ Exchange(c)
      <3>1. /\ sessions' = sessions
            /\ cpc[i] \in {"new", "exchanging"} /\ cpc'[i] \in {"exchanging", "session", "failed"}
        BY <1>3, <2>1 DEF Callback, Take, Exchange, stores
      <3>2. i \notin sessions
        BY <3>1 DEF IssuedInv
      <3>3. SessionStatus(i) = "none" /\ SessionStatus(i)' \in {"none", "ended"}
        BY <3>1, <3>2 DEF SessionStatus
      <3> QED
        BY <1>1, <3>3 DEF SessionRecord!Next, SessionRecord!End
    <2>2. CASE CallbackSession(c)
      <3>1. cpc[i] = "session" /\ cpc'[i] \in {"tokens", "failed"}
        BY <1>3, <2>2 DEF CallbackSession
      <3>2. i \notin sessions
        BY <3>1 DEF IssuedInv
      <3>3. SessionStatus(i) = "none" /\ SessionStatus(i)' \in {"live", "ended"}
        BY <3>1, <3>2 DEF SessionStatus
      <3> QED
        BY <1>1, <3>3 DEF SessionRecord!Next, SessionRecord!End, SessionRecord!Create
    <2>3. CASE CallbackTokens(c) \/ CallbackUndo(c) \/ CallbackAnswer(c)
      <3>1. /\ cpc[i] \in {"tokens", "undoing", "answering"}
            /\ cpc'[i] \in {"undoing", "answering", "failed", "done"}
            /\ sessions' \subseteq sessions
        BY <1>3, <2>3 DEF CallbackTokens, CallbackUndo, CallbackAnswer, Failed, stores
      <3>2. \/ SessionStatus(i)' = SessionStatus(i)
            \/ SessionStatus(i) = "live" /\ SessionStatus(i)' = "ended"
        BY <3>1 DEF SessionStatus
      <3> QED
        BY <1>1, <3>2 DEF SessionRecord!Next, SessionRecord!End
    <2> QED
      BY <2>1, <2>2, <2>3 DEF CompleteCallback
  <1> QED
    BY <1>2, <1>3

\* Sessions.Get fetches a copy of a live session, and its touch writes the copy back.
LEMMA SessionLookup ==
    ASSUME AInv, NEW i \in Callbacks, NEW r \in Requests, Lookup(r)
    PROVE  [SessionRecord(i)!Next]_<<SessionStatus(i), Touching(i)>>
  <1>1. cpc' = cpc /\ sid' = sid
    BY DEF Lookup, callback
  <1>2. CASE GetSession(r)
    <2>1. sessions' = sessions /\ (held' = held \/ (held' = held \cup {r} /\ sid[r] \in sessions))
      BY <1>2 DEF GetSession, stores
    <2>2. SessionStatus(i)' = SessionStatus(i)
      BY <1>1, <2>1 DEF SessionStatus
    <2>3. CASE held' = held \/ sid[r] # i
      <3>1. Touching(i)' = Touching(i)
        BY <1>1, <2>1, <2>3 DEF Touching
      <3> QED
        BY <2>2, <3>1
    <2>4. CASE held' = held \cup {r} /\ sid[r] \in sessions /\ sid[r] = i
      <3>1. Touching(i)' = Touching(i) \cup {r}
        BY <1>1, <2>4 DEF Touching
      <3>2. SessionStatus(i) = "live"
        BY <2>4 DEF SessionStatus
      <3> QED
        BY <2>2, <3>1, <3>2 DEF SessionRecord!Next, SessionRecord!Fetch
    <2> QED
      BY <2>1, <2>3, <2>4
  <1>3. CASE Touch(r)
    <2>1. r \in held /\ held' = held \ {r}
      BY <1>3 DEF Touch
    <2>4. sessions \subseteq sessions' /\ sessions' \subseteq sessions \cup {sid[r]}
      BY <1>3 DEF Touch, Failed
    <2>2. CASE sid[r] # i
      <3>1. Touching(i)' = Touching(i)
        BY <1>1, <2>1, <2>2 DEF Touching
      <3>2. SessionStatus(i)' = SessionStatus(i)
        BY <1>1, <2>4, <2>2 DEF SessionStatus
      <3> QED
        BY <3>1, <3>2
    <2>3. CASE sid[r] = i
      <3>1. r \in Touching(i) /\ Touching(i)' = Touching(i) \ {r}
        BY <1>1, <2>1, <2>3 DEF Touching
      <3>2. SessionStatus(i)' = SessionStatus(i) \/ SessionStatus(i)' = "live"
        BY <1>1, <2>4, <2>3 DEF SessionStatus
      <3> QED
        BY <3>1, <3>2 DEF SessionRecord!Next, SessionRecord!Discard, SessionRecord!WriteBack
    <2> QED
      BY <2>2, <2>3
  <1> QED
    BY <1>2, <1>3 DEF Lookup

\* Every step is one of the contract for the session of every ID, or none.
LEMMA SessionStep ==
    ASSUME AInv, [Next]_vars, NEW i \in Callbacks
    PROVE  [SessionRecord(i)!Next]_<<SessionStatus(i), Touching(i)>>
  <1>1. CASE \/ \E s \in States : StartLogin(s) \/ FlowExpires(s)
             \/ \E j \in Callbacks : SessionIdles(j) \/ SessionExpires(j) \/ CacheExpires(j)
             \/ UNCHANGED vars
    <2>1. sessions' \subseteq sessions /\ UNCHANGED <<cpc, held, sid>>
      BY <1>1 DEF StartLogin, FlowExpires, SessionIdles, SessionExpires, CacheExpires, stores,
                  callback, request, vars
    <2> QED
      BY <2>1, SessionFewer DEF Touching
  <1>2. ASSUME NEW c \in Callbacks, CompleteCallback(c)
        PROVE  [SessionRecord(i)!Next]_<<SessionStatus(i), Touching(i)>>
    BY <1>2, SessionCallback
  <1>3. ASSUME NEW r \in Requests, NEW j \in issued, Begin(r, j)
        PROVE  [SessionRecord(i)!Next]_<<SessionStatus(i), Touching(i)>>
    <2>1. sessions' = sessions /\ cpc' = cpc /\ held' = held
      BY <1>3 DEF Begin, stores, callback
    <2>2. r \notin held
      BY <1>3 DEF Begin, AInv, IssuedInv, Lookups
    <2>3. \A q \in held : sid'[q] = sid[q]
      BY <1>3, <2>2 DEF Begin, AInv, TypeOK
    <2>4. Touching(i)' = Touching(i)
      BY <2>1, <2>3 DEF Touching
    <2> QED
      BY <2>1, <2>4, SessionFewer
  <1>4. ASSUME NEW r \in Requests, Lookup(r)
        PROVE  [SessionRecord(i)!Next]_<<SessionStatus(i), Touching(i)>>
    BY <1>4, SessionLookup
  <1>5. ASSUME NEW r \in Requests, Me(r) \/ AccessToken(r) \/ Logout(r)
        PROVE  [SessionRecord(i)!Next]_<<SessionStatus(i), Touching(i)>>
    <2>1. UNCHANGED <<cpc, held, sid>>
      BY <1>5 DEF Me, AccessToken, Logout, callback
    <2>2. sessions' \subseteq sessions
      BY <1>5 DEF Me, AccessToken, LoadSet, StoreSet, DropSet, DropLive, Logout, LogoutLoad,
                  LogoutTokens, LogoutSession, LogoutCache, Failed, stores
    <2> QED
      BY <2>1, <2>2, SessionFewer DEF Touching
  <1> QED
    BY <1>1, <1>2, <1>3, <1>4, <1>5 DEF Next

\* Whoever only removes token sets ends them.
LEMMA TokensFewer ==
    ASSUME AInv, UnstoredInv, NEW i \in Callbacks, tokens' \subseteq tokens, cpc' = cpc,
           Renewing(i)' = Renewing(i)
    PROVE  [TokenRecord(i)!Next]_<<TokenStatus(i), Renewing(i)>>
  <1>1. CASE i \in tokens' \/ i \notin tokens
    BY <1>1 DEF TokenStatus
  <1>2. CASE i \in tokens /\ i \notin tokens'
    <2>1. cpc[i] \notin {"new", "exchanging", "session", "tokens"}
      BY <1>2 DEF AInv, IssuedInv, UnstoredInv
    <2>2. TokenStatus(i) = "live" /\ TokenStatus(i)' = "ended"
      BY <1>2, <2>1 DEF TokenStatus
    <2> QED
      BY <2>2 DEF TokenRecord!Next, TokenRecord!End
  <1> QED
    BY <1>1, <1>2

\* A callback creates its own token set, or fails to.
LEMMA TokensCallback ==
    ASSUME AInv, UnstoredInv, NEW i \in Callbacks, NEW c \in Callbacks, CompleteCallback(c)
    PROVE  [TokenRecord(i)!Next]_<<TokenStatus(i), Renewing(i)>>
  <1>1. Renewing(i)' = Renewing(i)
    BY DEF CompleteCallback, Callback, Exchange, CallbackSession, CallbackTokens, CallbackUndo,
           CallbackAnswer, request, Renewing
  <1>2. CASE i # c
    <2>1. cpc'[i] = cpc[i]
      BY <1>2 DEF CompleteCallback, Callback, Take, Exchange, CallbackSession, CallbackTokens,
                  CallbackUndo, CallbackAnswer, CGoto, AInv, TypeOK
    <2>2. i \in tokens' <=> i \in tokens
      BY <1>2 DEF CompleteCallback, Callback, Exchange, CallbackSession, CallbackTokens, CallbackUndo,
                  CallbackAnswer, Failed, stores
    <2> QED
      BY <1>1, <2>1, <2>2 DEF TokenStatus
  <1>3. CASE i = c
    <2> USE DEF AInv, TypeOK, CGoto
    <2>1. CASE Callback(c) \/ Exchange(c) \/ CallbackSession(c)
      <3>1. /\ tokens' = tokens
            /\ cpc[i] \in {"new", "exchanging", "session"}
            /\ cpc'[i] \in {"exchanging", "session", "tokens", "failed"}
        <4>1. CASE Callback(c)
          BY <1>3, <4>1 DEF Callback, Take, stores
        <4>2. CASE Exchange(c)
          BY <1>3, <4>2 DEF Exchange, stores
        <4>3. CASE CallbackSession(c)
          BY <1>3, <4>3 DEF CallbackSession
        <4> QED
          BY <2>1, <4>1, <4>2, <4>3
      <3>2. i \notin tokens
        BY <3>1 DEF IssuedInv
      <3>3. TokenStatus(i) = "none" /\ TokenStatus(i)' \in {"none", "ended"}
        BY <3>1, <3>2 DEF TokenStatus
      <3> QED
        BY <1>1, <3>3 DEF TokenRecord!Next, TokenRecord!End
    <2>2. CASE CallbackTokens(c)
      <3>1. cpc[i] = "tokens" /\ cpc'[i] \in {"answering", "undoing"}
        BY <1>3, <2>2 DEF CallbackTokens
      <3>2. i \notin tokens
        BY <3>1 DEF UnstoredInv
      <3>3. TokenStatus(i) = "none" /\ TokenStatus(i)' \in {"live", "ended"}
        BY <3>1, <3>2 DEF TokenStatus
      <3> QED
        BY <1>1, <3>3 DEF TokenRecord!Next, TokenRecord!End, TokenRecord!Create
    <2>3. CASE CallbackUndo(c) \/ CallbackAnswer(c)
      <3>1. /\ cpc[i] \in {"undoing", "answering"} /\ cpc'[i] \in {"failed", "done"}
            /\ tokens' = tokens
        BY <1>3, <2>3 DEF CallbackUndo, CallbackAnswer, stores
      <3>2. TokenStatus(i)' = TokenStatus(i)
        BY <3>1 DEF TokenStatus
      <3> QED
        BY <1>1, <3>2
    <2> QED
      BY <2>1, <2>2, <2>3 DEF CompleteCallback
  <1> QED
    BY <1>2, <1>3

\* The handlers of an ID whose place a step of r does not change, or changes outside
\* the refresh, stay the same.
LEMMA RenewingSame ==
    ASSUME TypeOK, NEW i \in Callbacks, NEW r \in Requests, sid' = sid,
           \A q \in Requests \ {r} : rpc'[q] = rpc[q]
    PROVE  /\ sid[r] # i => Renewing(i)' = Renewing(i)
           /\ (rpc[r] \in {"renewed", "storeSet"} <=> rpc'[r] \in {"renewed", "storeSet"})
                => Renewing(i)' = Renewing(i)
           /\ sid[r] = i /\ rpc'[r] \in {"renewed", "storeSet"}
                => Renewing(i)' = Renewing(i) \cup {r}
           /\ sid[r] = i /\ rpc'[r] \notin {"renewed", "storeSet"}
                => Renewing(i)' = Renewing(i) \ {r}
  BY DEF Renewing, TypeOK

\* AccessToken fetches the set at its first Store.Get and writes its own back.
LEMMA TokensAccess ==
    ASSUME AInv, UnstoredInv, NEW i \in Callbacks, NEW r \in Requests, AccessToken(r)
    PROVE  [TokenRecord(i)!Next]_<<TokenStatus(i), Renewing(i)>>
  <1>0. cpc' = cpc /\ sid' = sid /\ TypeOK
    BY DEF AccessToken, callback, AInv
  <1>1. \A q \in Requests \ {r} : rpc'[q] = rpc[q]
    BY <1>0 DEF AccessToken, LoadSet, StoreSet, DropSet, DropLive, Goto, Answer, TypeOK
  <1>2. CASE LoadSet(r)
    <2>1. tokens' = tokens /\ rpc[r] = "loadSet" /\ (rpc'[r] = "renewed" => sid[r] \in tokens)
      BY <1>0, <1>2 DEF LoadSet, Goto, Answer, stores, TypeOK
    <2>2. rpc'[r] \in {"idle", "renewed", "dropSet"}
      BY <1>0, <1>2 DEF LoadSet, Goto, Answer, TypeOK
    <2>3. TokenStatus(i)' = TokenStatus(i)
      BY <1>0, <2>1 DEF TokenStatus
    <2>4. CASE rpc'[r] = "renewed" /\ sid[r] = i
      <3>1. Renewing(i)' = Renewing(i) \cup {r}
        BY <1>0, <1>1, <2>4, RenewingSame
      <3>2. TokenStatus(i) = "live"
        BY <2>1, <2>4 DEF TokenStatus
      <3> QED
        BY <2>3, <3>1, <3>2 DEF TokenRecord!Next, TokenRecord!Fetch
    <2>5. CASE rpc'[r] # "renewed" \/ sid[r] # i
      <3>1. Renewing(i)' = Renewing(i)
        BY <1>0, <1>1, <2>1, <2>2, <2>5, RenewingSame
      <3> QED
        BY <2>3, <3>1
    <2> QED
      BY <2>4, <2>5
  <1>3. CASE StoreSet(r)
    <2>0. tokens \subseteq tokens' /\ tokens' \subseteq tokens \cup {sid[r]}
      BY <1>3 DEF StoreSet, Failed
    <2>1. rpc[r] = "storeSet" /\ rpc'[r] = "idle"
      BY <1>0, <1>3 DEF StoreSet, Goto, Answer, TypeOK
    <2>2. CASE sid[r] # i
      <3>1. Renewing(i)' = Renewing(i)
        BY <1>0, <1>1, <2>2, RenewingSame
      <3>2. TokenStatus(i)' = TokenStatus(i)
        BY <1>0, <2>0, <2>2 DEF TokenStatus
      <3> QED
        BY <3>1, <3>2
    <2>3. CASE sid[r] = i
      <3>1. r \in Renewing(i)
        BY <2>1, <2>3 DEF Renewing
      <3>2. Renewing(i)' = Renewing(i) \ {r}
        BY <1>0, <1>1, <2>1, <2>3, RenewingSame
      <3>3. TokenStatus(i)' = TokenStatus(i) \/ TokenStatus(i)' = "live"
        BY <1>0, <2>0, <2>3 DEF TokenStatus
      <3> QED
        BY <3>1, <3>2, <3>3 DEF TokenRecord!Next, TokenRecord!Discard, TokenRecord!WriteBack
    <2> QED
      BY <2>2, <2>3
  <1>4. CASE DropSet(r) \/ DropLive(r)
    <2>1. rpc[r] \in {"dropSet", "dropLive"} /\ rpc'[r] \in {"dropLive", "idle"}
      BY <1>0, <1>4 DEF DropSet, DropLive, Goto, Answer, TypeOK
    <2>2. tokens' \subseteq tokens
      BY <1>4 DEF DropSet, DropLive, Failed
    <2>3. Renewing(i)' = Renewing(i)
      BY <1>0, <1>1, <2>1, RenewingSame
    <2> QED
      BY <1>0, <2>2, <2>3, TokensFewer
  <1> QED
    BY <1>2, <1>3, <1>4 DEF AccessToken

\* Every step is one of the contract for the token set of every ID, or none.
LEMMA TokensStep ==
    ASSUME AInv, UnstoredInv, [Next]_vars, NEW i \in Callbacks
    PROVE  [TokenRecord(i)!Next]_<<TokenStatus(i), Renewing(i)>>
  <1>1. CASE \/ \E s \in States : StartLogin(s) \/ FlowExpires(s)
             \/ \E j \in Callbacks : SessionIdles(j) \/ SessionExpires(j) \/ CacheExpires(j)
             \/ UNCHANGED vars
    <2>1. tokens' \subseteq tokens /\ UNCHANGED <<cpc, rpc, sid>>
      BY <1>1 DEF StartLogin, FlowExpires, SessionIdles, SessionExpires, CacheExpires, stores,
                  callback, request, vars
    <2> QED
      BY <2>1, TokensFewer DEF Renewing
  <1>2. ASSUME NEW c \in Callbacks, CompleteCallback(c)
        PROVE  [TokenRecord(i)!Next]_<<TokenStatus(i), Renewing(i)>>
    BY <1>2, TokensCallback
  <1>3. ASSUME NEW r \in Requests, NEW j \in issued, Begin(r, j)
        PROVE  [TokenRecord(i)!Next]_<<TokenStatus(i), Renewing(i)>>
    <2>1. tokens' = tokens /\ cpc' = cpc
      BY <1>3 DEF Begin, stores, callback
    <2>2. \A q \in Requests \ {r} : sid'[q] = sid[q] /\ rpc'[q] = rpc[q]
      BY <1>3 DEF Begin, Goto, AInv, TypeOK
    <2>3. rpc[r] = "idle" /\ rpc'[r] \in Begins
      BY <1>3 DEF Begin, Goto, AInv, TypeOK
    <2>4. Renewing(i)' = Renewing(i)
      BY <2>2, <2>3 DEF Renewing, Begins
    <2> QED
      BY <2>1, <2>4, TokensFewer
  <1>4. ASSUME NEW r \in Requests, AccessToken(r)
        PROVE  [TokenRecord(i)!Next]_<<TokenStatus(i), Renewing(i)>>
    BY <1>4, TokensAccess
  <1>5. ASSUME NEW r \in Requests, Me(r) \/ Logout(r)
        PROVE  [TokenRecord(i)!Next]_<<TokenStatus(i), Renewing(i)>>
    <2>0. UNCHANGED <<cpc, sid>> /\ TypeOK
      BY <1>5 DEF Me, Logout, callback, AInv
    <2>1. tokens' \subseteq tokens
      BY <1>5 DEF Me, Logout, LogoutLoad, LogoutTokens, LogoutSession, LogoutCache, Failed, stores
    <2>2. \A q \in Requests \ {r} : rpc'[q] = rpc[q]
      BY <1>5, <2>0 DEF Me, MeCache, MeFill, Logout, LogoutLoad, LogoutTokens, LogoutSession,
                        LogoutCache, Goto, Answer, TypeOK
    <2>3. rpc[r] \notin {"renewed", "storeSet"} /\ rpc'[r] \notin {"renewed", "storeSet"}
      BY <1>5, <2>0 DEF Me, MeCache, MeFill, Logout, LogoutLoad, LogoutTokens, LogoutSession,
                        LogoutCache, Goto, Answer, TypeOK
    <2>4. Renewing(i)' = Renewing(i)
      BY <2>0, <2>2, <2>3, RenewingSame
    <2> QED
      BY <2>0, <2>1, <2>4, TokensFewer
  <1>6. ASSUME NEW r \in Requests, Lookup(r)
        PROVE  [TokenRecord(i)!Next]_<<TokenStatus(i), Renewing(i)>>
    <2>0. UNCHANGED <<tokens, cpc, sid>> /\ TypeOK
      BY <1>6 DEF Lookup, GetSession, Touch, stores, callback, AInv
    <2>1. rpc[r] \in Lookups /\ \A q \in Requests \ {r} : rpc'[q] = rpc[q]
      BY <1>6, <2>0, AfterLookup
      DEF Lookup, GetSession, Touch, GetFails, Goto, Answer, TypeOK, AInv, IssuedInv
    <2>2. rpc'[r] \in {rpc[r], After[rpc[r]], "dropSet", "idle"}
      BY <1>6, <2>0 DEF Lookup, GetSession, Touch, GetFails, Goto, Answer, TypeOK
    <2>3. CASE rpc[r] = "renewed" /\ rpc'[r] \in {"dropSet", "idle"} /\ sid[r] = i
      <3>1. r \in Renewing(i) /\ Renewing(i)' = Renewing(i) \ {r}
        <4>1. r \in Renewing(i)
          BY <2>3 DEF Renewing
        <4>2. Renewing(i)' = Renewing(i) \ {r}
          BY <2>0, <2>1, <2>3, RenewingSame
        <4> QED
          BY <4>1, <4>2
      <3>2. TokenStatus(i)' = TokenStatus(i)
        BY <2>0 DEF TokenStatus
      <3> QED
        BY <3>1, <3>2 DEF TokenRecord!Next, TokenRecord!Discard
    <2>4. CASE ~(rpc[r] = "renewed" /\ rpc'[r] \in {"dropSet", "idle"} /\ sid[r] = i)
      <3>1. sid[r] # i \/ (rpc[r] \in {"renewed", "storeSet"} <=> rpc'[r] \in {"renewed", "storeSet"})
        BY <2>1, <2>2, <2>4, AfterLookup DEF Lookups
      <3>2. Renewing(i)' = Renewing(i)
        BY <2>0, <2>1, <3>1, RenewingSame
      <3> QED
        BY <2>0, <3>2, TokensFewer
    <2> QED
      BY <2>3, <2>4
  <1> QED
    BY <1>1, <1>2, <1>3, <1>4, <1>5, <1>6 DEF Next

\* Callback, logout, me, the protected routes and AccessToken use the session store and
\* the token store as RecordContract says, for any number of logins and handlers and
\* with failing calls.
THEOREM ContractKept == Spec => RecordsKept
  <1> DEFINE Started == \A i \in Callbacks : SessionRecord(i)!Init /\ TokenRecord(i)!Init
             Kept == \A i \in Callbacks :
                       /\ [SessionRecord(i)!Next]_<<SessionStatus(i), Touching(i)>>
                       /\ [TokenRecord(i)!Next]_<<TokenStatus(i), Renewing(i)>>
  <1>1. Init => Started /\ UnstoredInv
    BY DEF Init, SessionRecord!Init, TokenRecord!Init, SessionStatus, TokenStatus, Touching, Renewing,
           UnstoredInv
  <1>2. AInv /\ UnstoredInv /\ [Next]_vars => UnstoredInv'
    BY UnstoredStep
  <1>3. AInv /\ UnstoredInv /\ [Next]_vars => [Kept]_vars
    BY SessionStep, TokensStep
  <1>4. RecordsKept <=> Started /\ [][Kept]_vars
    BY DEF RecordsKept
  <1> QED
    BY <1>1, <1>2, <1>3, <1>4, AuthInvariant, PTL DEF Spec
=============================================================================
