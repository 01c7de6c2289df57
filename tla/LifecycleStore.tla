--------------------------- MODULE LifecycleStore ---------------------------
(***************************************************************************)
(* One session under concurrent use: session.LifecycleStore on top of the   *)
(* in-memory store or of the Redis store.  Sessions are independent keys,   *)
(* so the model follows one.  Readers are the requests, on any replica,     *)
(* that look the session up; Get is several steps because it reads, decides  *)
(* and then deletes or rewrites the record in a second store call.          *)
(*                                                                         *)
(* Time is a counter.  The zero time.Time is Zero, and the clock starts     *)
(* after it.                                                               *)
(***************************************************************************)
EXTENDS Integers

CONSTANTS
    Readers,
    Redis,          \* TRUE: the Redis store, FALSE: MemoryStore
    Faults,         \* TRUE: a call to the Redis store may fail
    MaxLifetime,    \* LifecycleStore.MaxLifetime
    IdleTimeout,    \* LifecycleStore.IdleTimeout; 0 or less: no idle timeout
    TouchInterval,  \* LifecycleStore.TouchInterval; 0 or less: one minute
    Minute,         \* clock ticks in a minute
    SessionTTL,     \* auth.Service.SessionTTL
    MaxTime,        \* bound on the clock
    NoSession

Zero == 0
Session == [created : Nat, expires : Nat, lastSeen : Nat]

ASSUME LifecycleAssumption ==
    /\ Redis \in BOOLEAN
    /\ Faults \in BOOLEAN
    /\ Faults => Redis
    /\ MaxLifetime \in Nat \ {0}
    /\ IdleTimeout \in Int
    /\ TouchInterval \in Int
    /\ Minute \in Nat \ {0}
    /\ SessionTTL \in Nat \ {0}
    /\ MaxTime \in Nat
    /\ NoSession \notin Session

VARIABLES
    now,        \* the clock
    store,      \* the stored record, or NoSession
    pc,         \* where each reader is in LifecycleStore.Get
    snap,       \* the reader's local copy v
    ans,        \* what the reader's last Get returned
    at,         \* the time at which the reader's Get judged the record alive
    login,      \* history: when the session was created, Zero before
    lastUse,    \* history: the last time a Get judged the session alive
    loggedOut,  \* history: a Delete for logout has returned without an error
    overlapped  \* history: a Get was holding a copy when logout deleted the record

local == <<pc, snap, ans, at>>
history == <<login, lastUse, loggedOut, overlapped>>
vars == <<now, store, pc, snap, ans, at, login, lastUse, loggedOut, overlapped>>

Touch == IF TouchInterval <= 0 THEN Minute ELSE TouchInterval

Init ==
    /\ now = 1
    /\ store = NoSession
    /\ pc = [r \in Readers |-> "idle"]
    /\ snap = [r \in Readers |-> NoSession]
    /\ ans = [r \in Readers |-> "none"]
    /\ at = [r \in Readers |-> Zero]
    /\ login = Zero
    /\ lastUse = Zero
    /\ loggedOut = FALSE
    /\ overlapped = FALSE
-----------------------------------------------------------------------------
\* What LifecycleStore.Put stores for v: missing times default to now, and the
\* expiry is capped at CreatedAt + MaxLifetime.
Normalize(v) ==
    LET created == IF v.created = Zero THEN now ELSE v.created
        absolute == created + MaxLifetime
    IN  [created  |-> created,
         lastSeen |-> IF v.lastSeen = Zero THEN now ELSE v.lastSeen,
         expires  |-> IF v.expires = Zero \/ v.expires > absolute THEN absolute ELSE v.expires]

\* A mutant: a later callback reuses the session ID.
PutAgain ==
    /\ store = NoSession
    /\ now + MaxLifetime < MaxTime
    /\ store' = Normalize([created |-> now, expires |-> now + SessionTTL, lastSeen |-> now])
    /\ login' = now
    /\ lastUse' = now
    /\ UNCHANGED <<now, local, loggedOut, overlapped>>

\* The callback creates the session through LifecycleStore.Put.  (Bound: the whole
\* lifetime of the session fits before MaxTime.)
Put ==
    /\ login = Zero
    /\ now + MaxLifetime < MaxTime
    /\ store' = Normalize([created |-> now, expires |-> now + SessionTTL, lastSeen |-> now])
    /\ login' = now
    /\ lastUse' = now
    /\ UNCHANGED <<now, local, loggedOut, overlapped>>

\* Reader r returns from Get with answer a.
Return(r, a) ==
    /\ pc' = [pc EXCEPT ![r] = "idle"]
    /\ ans' = [ans EXCEPT ![r] = a]
    /\ snap' = [snap EXCEPT ![r] = NoSession]

\* Next.Get reads the record (under the read lock, or one Redis GET).
GetRead(r) ==
    /\ pc[r] = "idle"
    /\ \/ /\ store # NoSession
          /\ snap' = [snap EXCEPT ![r] = store]
          /\ pc' = [pc EXCEPT ![r] = "read"]
          /\ ans' = [ans EXCEPT ![r] = "none"]
       \/ /\ store = NoSession
          /\ Return(r, "notfound")
       \/ /\ Faults
          /\ Return(r, "error")
    /\ UNCHANGED <<now, store, at, history>>

\* Next.Get compares ExpiresAt with the time; an expired record is to be deleted.
GetExpiry(r) ==
    /\ pc[r] = "read"
    /\ pc' = [pc EXCEPT ![r] = IF snap[r].expires <= now THEN "dropping" ELSE "checking"]
    /\ UNCHANGED <<now, store, snap, ans, at, history>>

\* A mutant: the absolute lifetime is not looked at.
OverdueNoCap(v) == IdleTimeout > 0 /\ v.lastSeen + IdleTimeout <= now

\* A mutant: idleness is not looked at.
OverdueNoIdle(v) == v.created + MaxLifetime <= now

\* LifecycleStore.Get: too old, or idle for too long.
Overdue(v) ==
    \/ v.created # Zero /\ v.created + MaxLifetime <= now
    \/ IdleTimeout > 0 /\ v.lastSeen # Zero /\ v.lastSeen + IdleTimeout <= now

\* LifecycleStore.Get: LastSeen is old enough to be written again.
TouchDue(v) == IdleTimeout > 0 /\ (v.lastSeen = Zero \/ now - v.lastSeen >= Touch)

\* The rest of LifecycleStore.Get after Next.Get returned a record.
GetCheck(r) ==
    /\ pc[r] = "checking"
    /\ \/ /\ Overdue(snap[r])
          /\ pc' = [pc EXCEPT ![r] = "dropping"]
          /\ UNCHANGED <<snap, ans, at, lastUse>>
       \/ /\ ~Overdue(snap[r])
          /\ at' = [at EXCEPT ![r] = now]
          /\ lastUse' = now
          /\ \/ /\ TouchDue(snap[r])
                /\ snap' = [snap EXCEPT ![r].lastSeen = now]
                /\ pc' = [pc EXCEPT ![r] = "touching"]
                /\ UNCHANGED ans
             \/ /\ ~TouchDue(snap[r])
                /\ Return(r, "found")
    /\ UNCHANGED <<now, store, login, loggedOut, overlapped>>

\* The ignored Delete of an expired or idle record, then ErrNotFound.
GetDrop(r) ==
    /\ pc[r] = "dropping"
    /\ \/ store' = NoSession
       \/ Faults /\ UNCHANGED store
    /\ Return(r, "notfound")
    /\ UNCHANGED <<now, at, history>>

\* A mutant: the Redis store writes a record whose time to live is over.
GetTouchLate(r) ==
    /\ pc[r] = "touching"
    /\ store' = snap[r]
    /\ Return(r, "found")
    /\ UNCHANGED <<now, at, history>>

\* The touch: Next.Put of the whole copy.  The Redis store refuses a record whose
\* time to live is over; a failed Redis call may or may not have been applied.
GetTouch(r) ==
    /\ pc[r] = "touching"
    /\ \/ /\ Redis => snap[r].expires > now
          /\ store' = snap[r]
          /\ Return(r, "found")
       \/ /\ Redis
          /\ snap[r].expires <= now
          /\ UNCHANGED store
          /\ Return(r, "notfound")
       \/ /\ Faults
          /\ snap[r].expires > now
          /\ store' \in {store, snap[r]}
          /\ Return(r, "error")
    /\ UNCHANGED <<now, at, history>>

Get(r) == GetRead(r) \/ GetExpiry(r) \/ GetCheck(r) \/ GetDrop(r) \/ GetTouch(r)

\* Logout calls Delete; only a Delete without an error counts as a logout.
Delete ==
    /\ login # Zero
    /\ ~loggedOut
    /\ \/ /\ store' = NoSession
          /\ loggedOut' = TRUE
          /\ overlapped' = (\E r \in Readers : snap[r] # NoSession)
       \/ /\ Faults
          /\ store' \in {store, NoSession}
          /\ UNCHANGED <<loggedOut, overlapped>>
    /\ UNCHANGED <<now, local, login, lastUse>>

\* A mutant: the record is written without a time to live.
NoEvict ==
    /\ Redis /\ store # NoSession /\ store.expires < Zero
    /\ UNCHANGED vars

\* Redis removes the key some time after the time to live that Put gave it.
Evict ==
    /\ Redis
    /\ store # NoSession
    /\ store.expires <= now
    /\ store' = NoSession
    /\ UNCHANGED <<now, local, history>>

Tick ==
    /\ now < MaxTime
    /\ now' = now + 1
    /\ UNCHANGED <<store, local, history>>

Next == Put \/ Delete \/ Evict \/ Tick \/ \E r \in Readers : Get(r)

Spec == Init /\ [][Next]_vars

\* Time passes and Redis expires keys; nothing obliges a client to call.
FairSpec == Spec /\ WF_vars(Tick) /\ WF_vars(Evict)
-----------------------------------------------------------------------------
MaybeSession == Session \cup {NoSession}

\* The type invariant of the store, the clock and the readers' local state.
TypeOK ==
    /\ now \in Nat \ {0}
    /\ store \in MaybeSession
    /\ pc \in [Readers -> {"idle", "read", "checking", "dropping", "touching"}]
    /\ snap \in [Readers -> MaybeSession]
    /\ ans \in [Readers -> {"none", "found", "notfound", "error"}]
    /\ at \in [Readers -> Nat]
    /\ login \in Nat
    /\ lastUse \in Nat
    /\ loggedOut \in BOOLEAN
    /\ overlapped \in BOOLEAN

\* docs/TOKEN_LIFECYCLE.md, "an absolute cap": whatever touches, failed writes and
\* late rewrites do to the record, LifecycleStore.Get never judges a session alive at
\* or after its login time plus MaxLifetime, and no copy expires later than that.
NeverOutlivesLogin ==
    /\ \A r \in Readers : at[r] # Zero => at[r] < login + MaxLifetime
    /\ \A v \in {store} \cup {snap[r] : r \in Readers} :
          v # NoSession => v.expires <= login + MaxLifetime

\* A Get accepts the session only within IdleTimeout of an earlier accepted use (or
\* of the login), even though the LastSeen it reads may be an old copy's.
IdleBound ==
    [][(lastUse' # lastUse /\ login # Zero /\ IdleTimeout > 0)
          => lastUse' < lastUse + IdleTimeout]_vars

\* A logout that no Get straddled is final: the record is gone and stays gone.
QuietLogoutFinal == loggedOut /\ ~overlapped => store = NoSession

\* With the Redis store nobody can bring a session back once its lifetime is over: a
\* Get that stalled with a copy, before the touch or before the delete, finds that the
\* copy's time to live is over as well (SessionStore.Put).  A session whose key Redis
\* has removed by then is gone for good.
ForgottenForGood ==
    [][Redis /\ login # Zero /\ now >= login + MaxLifetime /\ store = NoSession
          => store' = NoSession]_vars

\* With the Redis store a session does not stay behind: once its lifetime is over
\* the key is gone for good, whatever rewrites were in flight.
EventuallyForgotten == <>[](store = NoSession)

Status ==
    IF login = Zero THEN "none" ELSE IF store # NoSession THEN "live" ELSE "ended"

Holding == {r \in Readers : snap[r] # NoSession}

Contract == INSTANCE RecordContract WITH
    Clients <- Readers, status <- Status, copies <- Holding

\* LifecycleStore over either store implements RecordContract: only a Get that read
\* the record before it was deleted can make an ended session live again.
ImplementsContract == Contract!Spec

\* docs/INTEGRATION.md:65 "logout through replica B invalidates the shared session":
\* after Delete has returned, the record is not there again.
EndedForGood == [][loggedOut /\ store = NoSession => store' = NoSession]_vars
=============================================================================
