---------------------------- MODULE TokenManager ----------------------------
(***************************************************************************)
(* Access-token refresh for one session: token.StoreManager.AccessToken     *)
(* called by several requests, on one replica (MemoryLocker) or on many     *)
(* (the Redis RefreshLocker), against an identity provider that rotates     *)
(* refresh tokens, while the user may log out and the session may expire.   *)
(*                                                                         *)
(* Every store call, lock call and IdP call is a step of its own.  A        *)
(* refresh token is the number of its rotation; the IdP accepts only the    *)
(* newest.  Access tokens are abstracted to whether needsRefresh holds.     *)
(*                                                                         *)
(* The session store is session.LifecycleStore: a Get may write the record   *)
(* it read back to the store (LifecycleStore models that in full).  Here a   *)
(* Get is a read and, when LastSeen is due, a second step that writes.       *)
(***************************************************************************)
EXTENDS Naturals

CONSTANTS
    Callers,        \* concurrent calls of AccessToken
    LockExpires,    \* TRUE: Redis, the lock has a TTL; FALSE: MemoryLocker and stores
    Faults,         \* TRUE: a call to Redis may fail, its write applied or not
    IdPFaults,      \* TRUE: a refresh may fail at, or on the way to or from, the IdP
    MaxRotations,   \* bound: a token set of this rotation does not grow stale
    None,           \* no token set stored
    Free,           \* the lock is not taken
    Forgotten,      \* the lock is taken under a value nobody remembers
    Elsewhere       \* the requests on this session that are none of Callers

ASSUME TokenAssumption ==
    /\ LockExpires \in BOOLEAN
    /\ Faults \in BOOLEAN
    /\ IdPFaults \in BOOLEAN
    /\ Faults => LockExpires
    /\ MaxRotations \in Nat
    /\ None \notin [refresh : Nat, stale : BOOLEAN]
    /\ Free \notin Callers
    /\ Forgotten \notin Callers
    /\ Free # Forgotten
    /\ Elsewhere \notin Callers

VARIABLES
    tokens,     \* the stored token set, or None; refresh 0: no refresh token
    sess,       \* the session: "live", "gone" (deleted), or "over" its absolute expiry
    held,       \* a Get of another request holds a copy of the session to write back
    lock,       \* the owner of the refresh lock
    idp,        \* the refresh token the IdP accepts
    pc,         \* where each caller is in AccessToken
    cur,        \* the caller's refresh token: current.RefreshToken, then refreshed's
    err,        \* the result the caller is about to return
    ret,        \* what the caller's last AccessToken returned
    logout,     \* where Service.Logout is
    spent,      \* history: the IdP was shown a refresh token it had replaced
    straddled,  \* history: a refresh was under way when logout deleted the tokens
    lateTouch   \* history: a Get held a copy when the session was deleted

stores == <<tokens, sess, held>>
local == <<pc, cur, err, ret>>
history == <<spent, straddled, lateTouch>>
vars == <<tokens, sess, held, lock, idp, pc, cur, err, ret, logout,
          spent, straddled, lateTouch>>

\* The steps of AccessToken between Lock and the deferred unlock.
Critical == {"locked", "refreshing", "refreshed", "touching", "persisting",
             "dropTokens", "dropSession", "unlocking"}

\* The steps between the second Store.Get and the return of Store.Put.
Renewing == {"refreshing", "refreshed", "touching", "persisting"}

Stale(set) == set # None /\ set.stale

\* The state the callback leaves: a session and its token set, with or without a
\* refresh token, already in the refresh window or not.
Init ==
    /\ tokens \in [refresh : {0, 1}, stale : BOOLEAN]
    /\ sess = "live"
    /\ held = FALSE
    /\ lock = Free
    /\ idp = 1
    /\ pc = [c \in Callers |-> "idle"]
    /\ cur = [c \in Callers |-> 0]
    /\ err = [c \in Callers |-> "none"]
    /\ ret = [c \in Callers |-> "none"]
    /\ logout = "idle"
    /\ spent = FALSE
    /\ straddled = FALSE
    /\ lateTouch = FALSE
-----------------------------------------------------------------------------
Goto(c, label) == pc' = [pc EXCEPT ![c] = label]

\* AccessToken returns without having taken the lock.
Return(c, r) ==
    /\ Goto(c, "idle")
    /\ ret' = [ret EXCEPT ![c] = r]
    /\ cur' = [cur EXCEPT ![c] = 0]
    /\ UNCHANGED err

\* AccessToken is about to return r, and the deferred unlock runs.
Finish(c, r) ==
    /\ Goto(c, "unlocking")
    /\ err' = [err EXCEPT ![c] = r]

\* The first Store.Get: only a token set in the refresh window needs the lock.
Read(c) ==
    /\ pc[c] = "idle"
    /\ \/ tokens = None /\ Return(c, "error")
       \/ Faults /\ Return(c, "error")
       \/ tokens # None /\ ~Stale(tokens) /\ Return(c, "token")
       \/ Stale(tokens) /\ tokens.refresh = 0 /\ Return(c, "error")
       \/ /\ Stale(tokens) /\ tokens.refresh # 0
          /\ Goto(c, "waiting")
          /\ cur' = [cur EXCEPT ![c] = tokens.refresh]
          /\ ret' = [ret EXCEPT ![c] = "none"]
          /\ UNCHANGED err
    /\ UNCHANGED <<stores, lock, idp, logout, history>>

\* Locker.Lock succeeds: the semaphore is received, or SET NX creates the key.
Lock(c) ==
    /\ pc[c] = "waiting"
    /\ lock = Free
    /\ lock' = c
    /\ Goto(c, "locked")
    /\ UNCHANGED <<stores, idp, cur, err, ret, logout, history>>

\* Locker.Lock fails: the request's context ends, or a Redis error; the SET NX
\* whose reply was lost may have taken the lock.
LockFails(c) ==
    /\ pc[c] = "waiting"
    /\ Return(c, "error")
    /\ lock' \in {lock} \cup (IF Faults /\ lock = Free THEN {Forgotten} ELSE {})
    /\ UNCHANGED <<stores, idp, logout, history>>

\* A mutant: the token set read before the lock is used.
NoReread(c) ==
    /\ pc[c] = "locked"
    /\ Goto(c, "refreshing")
    /\ UNCHANGED <<stores, lock, idp, cur, err, ret, logout, history>>

\* The second Store.Get, under the lock.
Reread(c) ==
    /\ pc[c] = "locked"
    /\ \/ /\ \/ tokens = None /\ Finish(c, "error")
             \/ Faults /\ Finish(c, "error")
             \/ tokens # None /\ ~Stale(tokens) /\ Finish(c, "token")
             \/ Stale(tokens) /\ tokens.refresh = 0 /\ Finish(c, "error")
          /\ UNCHANGED cur
       \/ /\ Stale(tokens) /\ tokens.refresh # 0
          /\ Goto(c, "refreshing")
          /\ cur' = [cur EXCEPT ![c] = tokens.refresh]
          /\ UNCHANGED err
    /\ UNCHANGED <<stores, lock, idp, ret, logout, history>>

\* The IdP handles Refresher.RefreshTokens: with the newest refresh token it answers
\* and may rotate it.  Any other token is refused.  A failure may come after the
\* rotation.  Without a new refresh token the current one is kept.
RefreshTokens(c) ==
    /\ pc[c] = "refreshing"
    /\ \/ /\ cur[c] = idp
          /\ idp' \in {idp, idp + 1}
          /\ cur' = [cur EXCEPT ![c] = idp']
          /\ Goto(c, "refreshed")
          /\ UNCHANGED <<err, spent>>
       \/ /\ cur[c] = idp
          /\ IdPFaults
          /\ idp' \in {idp, idp + 1}
          /\ Goto(c, "dropTokens")
          /\ err' = [err EXCEPT ![c] = "refresh_failed"]
          /\ UNCHANGED <<cur, spent>>
       \/ /\ cur[c] # idp
          /\ spent' = TRUE
          /\ Goto(c, "dropTokens")
          /\ err' = [err EXCEPT ![c] = "refresh_failed"]
          /\ UNCHANGED <<idp, cur>>
    /\ UNCHANGED <<stores, lock, ret, logout, straddled, lateTouch>>

\* What a write of, and what a delete from, the session store leaves: a session past
\* its absolute expiry is never found again.
Written == IF sess = "over" THEN "over" ELSE "live"
Deleted == IF sess = "over" THEN "over" ELSE "gone"

\* sessionExpiry's Sessions.Get: it may have to touch the session.  Without the
\* session, or its store, everything is invalidated.
SessionExpiry(c) ==
    /\ pc[c] = "refreshed"
    /\ \/ /\ sess = "live"
          /\ Goto(c, "touching") \/ Goto(c, "persisting")
          /\ UNCHANGED err
       \/ /\ sess # "live" \/ Faults
          /\ Goto(c, "dropTokens")
          /\ err' = [err EXCEPT ![c] = "error"]
    /\ UNCHANGED <<stores, lock, idp, cur, ret, logout, history>>

\* The touch of that Get, which only the Redis store refuses for an expired session.
TouchSession(c) ==
    /\ pc[c] = "touching"
    /\ \/ /\ sess = "over" => ~LockExpires
          /\ sess' = Written
          /\ Goto(c, "persisting")
          /\ UNCHANGED err
       \/ /\ Faults \/ (sess = "over" /\ LockExpires)
          /\ sess' \in {sess, Written}
          /\ Goto(c, "dropTokens")
          /\ err' = [err EXCEPT ![c] = "error"]
    /\ UNCHANGED <<tokens, held, lock, idp, cur, ret, logout, history>>

\* Store.Put of the refreshed set, which may itself be inside the refresh window; an
\* error leaves the session and the store as they are.  The set shares the session's
\* absolute expiry: past it the Redis store refuses it and MemoryStore forgets it.
Persist(c) ==
    /\ pc[c] = "persisting"
    /\ \E stale \in BOOLEAN :
          LET refreshed == [refresh |-> cur[c], stale |-> stale]
              stored == IF sess = "over" THEN None ELSE refreshed
          IN  /\ stale => cur[c] < MaxRotations
              /\ \/ /\ sess = "over" => ~LockExpires
                    /\ tokens' = stored
                    /\ Finish(c, "token")
                 \/ /\ Faults \/ (sess = "over" /\ LockExpires)
                    /\ tokens' \in {tokens, stored}
                    /\ Finish(c, "error")
    /\ UNCHANGED <<sess, held, lock, idp, cur, ret, logout, history>>

\* A mutant: only the token set is invalidated.
InvalidateTokensOnly(c) ==
    /\ pc[c] = "dropTokens"
    /\ tokens' = None
    /\ Goto(c, "unlocking")
    /\ UNCHANGED <<sess, held, lock, idp, cur, err, ret, logout, history>>

\* invalidate, first call; its error is ignored.
InvalidateTokens(c) ==
    /\ pc[c] = "dropTokens"
    /\ tokens' \in {None} \cup (IF Faults THEN {tokens} ELSE {})
    /\ Goto(c, "dropSession")
    /\ UNCHANGED <<sess, held, lock, idp, cur, err, ret, logout, history>>

\* Some Get that read the session has yet to write it back.
Copied == held \/ \E c \in Callers : pc[c] = "touching"

\* invalidate, second call; its error is ignored.
InvalidateSession(c) ==
    /\ pc[c] = "dropSession"
    /\ sess' \in {Deleted} \cup (IF Faults THEN {sess} ELSE {})
    /\ lateTouch' = (lateTouch \/ Copied)
    /\ Goto(c, "unlocking")
    /\ UNCHANGED <<tokens, held, lock, idp, cur, err, ret, logout, spent, straddled>>

\* A mutant: the lock is deleted without the ownership check.
FreedBlindly(c) == {Free}

\* A mutant: the lock is not released.
NotFreed(c) == {lock}

\* What unlock leaves of the lock: only its owner's is removed, and when Redis does
\* not execute the script the value is forgotten.
Freed(c) ==
    IF lock # c THEN {lock} ELSE {Free} \cup (IF Faults THEN {Forgotten} ELSE {})

\* The deferred unlock, its error ignored, and the return of AccessToken.
Unlock(c) ==
    /\ pc[c] = "unlocking"
    /\ lock' \in Freed(c)
    /\ Goto(c, "idle")
    /\ ret' = [ret EXCEPT ![c] = err[c]]
    /\ cur' = [cur EXCEPT ![c] = 0]
    /\ err' = [err EXCEPT ![c] = "none"]
    /\ UNCHANGED <<stores, idp, logout, history>>

\* The replica dies in the middle of AccessToken; its lock stays.
Crash(c) ==
    /\ LockExpires
    /\ pc[c] # "idle"
    /\ Goto(c, "idle")
    /\ lock' = IF lock = c THEN Forgotten ELSE lock
    /\ cur' = [cur EXCEPT ![c] = 0]
    /\ err' = [err EXCEPT ![c] = "none"]
    /\ UNCHANGED <<stores, idp, ret, logout, history>>

\* A mutant: SET NX without a time to live.
LockLasts ==
    /\ lock # Free
    /\ UNCHANGED vars

\* Redis removes the lock's key when its TTL is over.
LockExpire ==
    /\ LockExpires
    /\ lock # Free
    /\ lock' = Free
    /\ UNCHANGED <<stores, idp, local, logout, history>>
-----------------------------------------------------------------------------
\* Service.Logout deletes the tokens, then the session; an error ends the request,
\* and the user may try again.
LogoutTokens ==
    /\ logout = "idle"
    /\ \/ /\ tokens' = None
          /\ straddled' = (\E c \in Callers : pc[c] \in Renewing)
          /\ logout' = "session"
       \/ /\ Faults
          /\ tokens' \in {tokens, None}
          /\ UNCHANGED <<logout, straddled>>
    /\ UNCHANGED <<sess, held, lock, idp, local, spent, lateTouch>>

LogoutSession ==
    /\ logout = "session"
    /\ \/ /\ sess' = Deleted
          /\ logout' = "done"
       \/ /\ Faults
          /\ sess' \in {sess, Deleted}
          /\ logout' = "idle"
    /\ lateTouch' = (lateTouch \/ Copied)
    /\ UNCHANGED <<tokens, held, lock, idp, local, spent, straddled>>

\* A Get of some other request on this session, and its touch.
GetElsewhere ==
    /\ sess = "live"
    /\ held' = TRUE
    /\ UNCHANGED <<tokens, sess, lock, idp, local, logout, history>>

TouchElsewhere ==
    /\ held
    /\ held' = FALSE
    /\ sess' \in {Written} \cup (IF Faults THEN {sess} ELSE {})
    /\ UNCHANGED <<tokens, lock, idp, local, logout, history>>

\* The session is idle for too long, which leaves the tokens; or it reaches its
\* absolute expiry, which the tokens share.
SessionIdles ==
    /\ sess = "live"
    /\ sess' = "gone"
    /\ UNCHANGED <<tokens, held, lock, idp, local, logout, history>>

SessionExpires ==
    /\ sess # "over"
    /\ sess' = "over"
    /\ tokens' = None
    /\ UNCHANGED <<held, lock, idp, local, logout, history>>

\* needsRefresh: the access token comes within RefreshBefore of its expiry.
Age ==
    /\ tokens # None
    /\ tokens.refresh < MaxRotations
    /\ ~tokens.stale
    /\ tokens' = [tokens EXCEPT !.stale = TRUE]
    /\ UNCHANGED <<sess, held, lock, idp, local, logout, history>>

\* The steps AccessToken takes by itself, the wait for the lock left out.
Step(c) ==
    \/ Reread(c) \/ RefreshTokens(c) \/ SessionExpiry(c) \/ TouchSession(c) \/ Persist(c)
    \/ InvalidateTokens(c) \/ InvalidateSession(c) \/ Unlock(c)

AccessToken(c) == Read(c) \/ Lock(c) \/ LockFails(c) \/ Step(c)

Next ==
    \/ \E c \in Callers : AccessToken(c) \/ Crash(c)
    \/ LockExpire
    \/ LogoutTokens \/ LogoutSession
    \/ GetElsewhere \/ TouchElsewhere
    \/ SessionIdles \/ SessionExpires
    \/ Age

Spec == Init /\ [][Next]_vars

\* Handlers run to their end, a waiter on the semaphore is served (Go serves a
\* channel's receivers in order), and Redis expires keys.  Nothing obliges a client
\* to call, a user to log out or a context to end.
FairSpec ==
    /\ Spec
    /\ \A c \in Callers : WF_vars(Step(c)) /\ SF_vars(Lock(c))
    /\ WF_vars(LockExpire)
-----------------------------------------------------------------------------
\* What AccessToken returned: a token, ErrRefreshFailed or any other error.
Results == {"none", "token", "error", "refresh_failed"}

\* The type invariant.
TypeOK ==
    /\ tokens \in [refresh : Nat, stale : BOOLEAN] \cup {None}
    /\ sess \in {"live", "gone", "over"}
    /\ held \in BOOLEAN
    /\ lock \in Callers \cup {Free, Forgotten}
    /\ idp \in Nat \ {0}
    /\ pc \in [Callers -> {"idle", "waiting"} \cup Critical]
    /\ cur \in [Callers -> Nat]
    /\ err \in [Callers -> Results]
    /\ ret \in [Callers -> Results]
    /\ logout \in {"idle", "session", "done"}
    /\ spent \in BOOLEAN
    /\ straddled \in BOOLEAN
    /\ lateTouch \in BOOLEAN

\* docs/TOKEN_LIFECYCLE.md:50 "Re-reading token state after acquiring the lock
\* prevents multiple BFF replicas from refreshing the same refresh token
\* concurrently": no two calls of AccessToken are at the IdP with one refresh token.
OneRefreshPerToken ==
    \A c, d \in Callers :
        pc[c] = "refreshing" /\ pc[d] = "refreshing" /\ cur[c] = cur[d] => c = d

\* A rotated refresh token is never presented again, so that no user loses the
\* session to the gateway's own concurrency (manager.go:63 re-reads under the lock).
NeverSpent == ~spent

\* docs/TOKEN_LIFECYCLE.md:54-57 "rebff fails closed: token state is deleted, BFF
\* session is deleted": once a caller was told that the refresh failed, the token set
\* is gone for good, and so is the session, unless a Get that read it before it was
\* deleted wrote it back (LifecycleStore).
FailsClosed ==
    \A c \in Callers :
        ret[c] = "refresh_failed" => tokens = None /\ (sess = "live" => lateTouch)

\* Service.Logout leaves no token set behind, now or later, unless a refresh had read
\* the set before logout deleted it: waiting callers find it gone when they re-read.
LogoutRemovesTokens == logout = "done" /\ ~straddled => tokens = None

\* The ownership-checked delete of refresh_lock.go:42: whoever loses the lock has
\* finished or crashed, or the lock's own TTL is over.  A caller whose lock expired
\* never frees the next caller's.
LockNotStolen ==
    [][\A c \in Callers :
          lock = c /\ lock' # c => pc'[c] = "idle" \/ LockExpire]_vars

\* With the TTL, no failed release, lost reply or crashed replica keeps the refresh
\* lock of the session taken for good.
LockComesFree == []<>(lock = Free)

\* With the in-process lock every AccessToken returns: the lock is released on every
\* path out of AccessToken.
CallsReturn == \A c \in Callers : pc[c] # "idle" ~> pc[c] = "idle"

\* The steps a caller has ahead of it once it has the lock.
Ahead == [idle |-> 0, waiting |-> 0, unlocking |-> 1, dropSession |-> 2, dropTokens |-> 3,
          persisting |-> 4, touching |-> 5, refreshed |-> 6, refreshing |-> 7, locked |-> 8]

\* Why every call returns with the in-process lock: the lock is free or its owner is
\* inside AccessToken, on its way to the deferred unlock, which every step brings nearer
\* and no step of anyone else moves away (manager.go:61).
LockHandedOn ==
    /\ [](lock = Free \/ \E c \in Callers : lock = c /\ pc[c] \in Critical)
    /\ [][\A c \in Callers : pc[c] \in Critical =>
            /\ Ahead[pc'[c]] <= Ahead[pc[c]]
            /\ Step(c) => Ahead[pc'[c]] < Ahead[pc[c]]]_vars

\* The session as RecordContract sees it, and the Gets that will write it back ...
SessionStatus == IF sess = "live" THEN "live" ELSE "ended"
SessionCopies == {c \in Callers : pc[c] = "touching"} \cup (IF held THEN {Elsewhere} ELSE {})

\* ... and the token set, with the refreshes that will replace it.
TokenStatus == IF tokens = None THEN "ended" ELSE "live"
TokenCopies == {c \in Callers : pc[c] \in Renewing}

SessionRecord == INSTANCE RecordContract WITH
    Clients <- Callers \cup {Elsewhere}, status <- SessionStatus, copies <- SessionCopies

TokenRecord == INSTANCE RecordContract WITH
    Clients <- Callers, status <- TokenStatus, copies <- TokenCopies

\* AccessToken keeps RecordContract for the session and for the token set, with either
\* lock, also when the lock is lost, a store call fails or a replica dies: a refresh
\* stores tokens only in place of a set it read under the lock, so none that was waiting
\* when logout or a failed refresh deleted them brings tokens back.
RefreshKeepsRecords ==
    [][/\ [SessionRecord!Next]_<<SessionStatus, SessionCopies>>
       /\ [TokenRecord!Next]_<<TokenStatus, TokenCopies>>]_vars
=============================================================================
