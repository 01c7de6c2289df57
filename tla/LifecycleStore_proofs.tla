------------------------ MODULE LifecycleStore_proofs ------------------------
(***************************************************************************)
(* For any number of readers and any timeouts: the absolute lifetime is a  *)
(* cap, the idle timeout is honoured, a logout that no Get straddles is     *)
(* final, nothing returns after the lifetime, and the store implements     *)
(* RecordContract.                                                         *)
(***************************************************************************)
EXTENDS LifecycleStore, TLAPS

\* A record written at login or copied from such a record: only LastSeen differs.
GoodCopy(v) ==
    v # NoSession => /\ v.created = login
                     /\ login # Zero
                     /\ v.expires <= login + MaxLifetime
                     /\ v.lastSeen # Zero
                     /\ v.lastSeen <= lastUse

\* The inductive invariant: every copy of the record, in the store or in a reader's
\* hands, is a good copy; readers hold a copy exactly while they are inside Get.
CopyInv ==
    /\ GoodCopy(store)
    /\ \A r \in Readers : GoodCopy(snap[r])
    /\ \A r \in Readers : pc[r] = "idle" <=> snap[r] = NoSession
    /\ \A r \in Readers : at[r] # Zero => login # Zero /\ at[r] < login + MaxLifetime
    /\ login <= now
    /\ lastUse <= now
    /\ loggedOut => login # Zero
    /\ loggedOut /\ ~overlapped => /\ store = NoSession
                                   /\ \A r \in Readers : snap[r] = NoSession

LInv == TypeOK /\ CopyInv

\* What one step of Get does to a reader that stops.
LEMMA ReturnType ==
    ASSUME TypeOK, NEW r \in Readers, NEW a \in {"found", "notfound", "error"}, Return(r, a)
    PROVE  /\ pc' \in [Readers -> {"idle", "read", "checking", "dropping", "touching"}]
           /\ snap' \in [Readers -> MaybeSession]
           /\ ans' \in [Readers -> {"none", "found", "notfound", "error"}]
           /\ pc'[r] = "idle" /\ snap'[r] = NoSession
           /\ \A q \in Readers \ {r} : pc'[q] = pc[q] /\ snap'[q] = snap[q]
  BY DEF TypeOK, Return, MaybeSession

LEMMA InitInv == Init => LInv
  <1> SUFFICES ASSUME Init
               PROVE  LInv
    OBVIOUS
  <1>1. TypeOK
    <2>1. now \in Nat \ {0} /\ login \in Nat /\ lastUse \in Nat /\ at \in [Readers -> Nat]
      BY DEF Init, Zero
    <2>2. loggedOut \in BOOLEAN /\ overlapped \in BOOLEAN
      BY DEF Init
    <2>3. store \in MaybeSession /\ snap \in [Readers -> MaybeSession]
      BY DEF Init, MaybeSession
    <2> QED
      BY <2>1, <2>2, <2>3 DEF Init, TypeOK
  <1>2. CopyInv
    BY DEF Init, CopyInv, GoodCopy, Zero
  <1> QED
    BY <1>1, <1>2 DEF LInv

\* Put creates the first good copy.
LEMMA PutStep == LInv /\ Put => LInv'
  <1> SUFFICES ASSUME LInv, Put
               PROVE  LInv'
    OBVIOUS
  <1> USE LifecycleAssumption DEF LInv, Zero
  <1>1. /\ store' = [created |-> now, lastSeen |-> now,
                     expires |-> IF SessionTTL > MaxLifetime THEN now + MaxLifetime
                                                             ELSE now + SessionTTL]
        /\ now \in Nat \ {0}
    BY DEF Put, Normalize, TypeOK
  <1>2. store' \in Session /\ store' # NoSession
    BY <1>1 DEF Session
  <1>3. TypeOK'
    BY <1>2 DEF Put, TypeOK, MaybeSession, local
  <1>4. \A r \in Readers : snap[r] = NoSession
    BY DEF Put, CopyInv, GoodCopy
  <1>5. GoodCopy(store)'
    BY <1>1 DEF Put, GoodCopy
  <1>6. ~loggedOut
    BY DEF Put, CopyInv
  <1>7. CopyInv'
    BY <1>3, <1>4, <1>5, <1>6 DEF Put, CopyInv, GoodCopy, local, TypeOK
  <1> QED
    BY <1>3, <1>7

\* Each step of Get keeps the invariant.
LEMMA GetStep ==
    ASSUME LInv, NEW r \in Readers, Get(r)
    PROVE  LInv'
  <1> USE LifecycleAssumption DEF LInv, Zero
  <1>1. CASE GetRead(r)
    <2>1. CASE store # NoSession /\ snap' = [snap EXCEPT ![r] = store]
               /\ pc' = [pc EXCEPT ![r] = "read"] /\ ans' = [ans EXCEPT ![r] = "none"]
      <3>1. TypeOK'
        BY <1>1, <2>1 DEF GetRead, TypeOK, history, MaybeSession
      <3>2. CopyInv'
        BY <1>1, <2>1 DEF GetRead, CopyInv, GoodCopy, TypeOK, history
      <3> QED
        BY <3>1, <3>2
    <2>2. ASSUME NEW a \in {"notfound", "error"}, Return(r, a)
          PROVE  LInv'
      <3>1. TypeOK'
        BY <1>1, <2>2, ReturnType DEF GetRead, TypeOK, history
      <3>2. CopyInv'
        BY <1>1, <2>2, ReturnType DEF GetRead, CopyInv, GoodCopy, TypeOK, history
      <3> QED
        BY <3>1, <3>2
    <2> QED
      BY <1>1, <2>1, <2>2 DEF GetRead
  <1>2. CASE GetExpiry(r)
    <2>1. TypeOK'
      BY <1>2 DEF GetExpiry, TypeOK, history
    <2>2. CopyInv'
      BY <1>2 DEF GetExpiry, CopyInv, GoodCopy, TypeOK, history
    <2> QED
      BY <2>1, <2>2
  <1>3. CASE GetCheck(r)
    <2>1. snap[r] \in Session /\ GoodCopy(snap[r]) /\ snap[r] # NoSession
      BY <1>3 DEF GetCheck, TypeOK, CopyInv, MaybeSession
    <2>2. CASE Overdue(snap[r]) /\ pc' = [pc EXCEPT ![r] = "dropping"]
               /\ UNCHANGED <<snap, ans, at, lastUse>>
      <3>1. TypeOK'
        BY <1>3, <2>2 DEF GetCheck, TypeOK
      <3>2. CopyInv'
        BY <1>3, <2>2 DEF GetCheck, CopyInv, GoodCopy, TypeOK
      <3> QED
        BY <3>1, <3>2
    <2>3. ASSUME ~Overdue(snap[r]), at' = [at EXCEPT ![r] = now], lastUse' = now
          PROVE  /\ at' \in [Readers -> Nat]
                 /\ \A q \in Readers : at'[q] # Zero => login # Zero /\ at'[q] < login + MaxLifetime
                 /\ \A v \in MaybeSession : GoodCopy(v) => GoodCopy(v)'
      <3>1. now < login + MaxLifetime /\ login # Zero
        BY <2>1, <2>3 DEF Overdue, GoodCopy, Session, TypeOK
      <3>2. \A v \in MaybeSession : GoodCopy(v) => GoodCopy(v)'
        <4> SUFFICES ASSUME NEW v \in Session, v.lastSeen <= lastUse
                     PROVE  v.lastSeen <= lastUse'
          BY <1>3 DEF GoodCopy, GetCheck, MaybeSession
        <4> QED
          BY <2>3 DEF Session, TypeOK, CopyInv
      <3> QED
        BY <2>3, <3>1, <3>2 DEF TypeOK, CopyInv
    <2>4. CASE ~Overdue(snap[r]) /\ at' = [at EXCEPT ![r] = now] /\ lastUse' = now
               /\ snap' = [snap EXCEPT ![r].lastSeen = now]
               /\ pc' = [pc EXCEPT ![r] = "touching"] /\ UNCHANGED ans
      <3>1. snap'[r] = [snap[r] EXCEPT !.lastSeen = now] /\ snap'[r] \in Session
        BY <2>1, <2>4 DEF TypeOK, Session
      <3>2. snap' \in [Readers -> MaybeSession]
        BY <2>4, <3>1 DEF TypeOK, MaybeSession
      <3>3. TypeOK'
        BY <1>3, <2>3, <2>4, <3>2 DEF GetCheck, TypeOK
      <3>4. GoodCopy(snap[r])'
        BY <1>3, <2>1, <2>4, <3>1 DEF GetCheck, GoodCopy, Session, TypeOK
      <3>5. \A q \in Readers : GoodCopy(snap[q])'
        BY <2>3, <2>4, <3>4 DEF CopyInv, TypeOK
      <3>6. GoodCopy(store)'
        BY <1>3, <2>3, <2>4 DEF GetCheck, CopyInv, TypeOK
      <3>7. ~(loggedOut /\ ~overlapped)
        BY <2>1 DEF CopyInv
      <3>8. \A q \in Readers : pc'[q] = "idle" <=> snap'[q] = NoSession
        BY <2>1, <2>4, <3>1 DEF CopyInv, TypeOK
      <3>9. CopyInv'
        BY <1>3, <2>3, <2>4, <3>5, <3>6, <3>7, <3>8 DEF GetCheck, CopyInv, TypeOK
      <3> QED
        BY <3>3, <3>9
    <2>5. CASE ~Overdue(snap[r]) /\ at' = [at EXCEPT ![r] = now] /\ lastUse' = now
               /\ Return(r, "found")
      <3>1. TypeOK'
        BY <1>3, <2>3, <2>5, ReturnType DEF GetCheck, TypeOK
      <3>2. \A q \in Readers : GoodCopy(snap[q])'
        BY <2>3, <2>5, ReturnType DEF CopyInv, TypeOK, GoodCopy
      <3>3. GoodCopy(store)'
        BY <1>3, <2>3, <2>5 DEF GetCheck, CopyInv, TypeOK
      <3>4. ~(loggedOut /\ ~overlapped)
        BY <2>1 DEF CopyInv
      <3>5. \A q \in Readers : pc'[q] = "idle" <=> snap'[q] = NoSession
        BY <2>5, ReturnType DEF CopyInv
      <3>6. CopyInv'
        BY <1>3, <2>3, <2>5, <3>2, <3>3, <3>4, <3>5 DEF GetCheck, CopyInv, TypeOK
      <3> QED
        BY <3>1, <3>6
    <2> QED
      BY <1>3, <2>2, <2>4, <2>5 DEF GetCheck
  <1>4. CASE GetDrop(r)
    <2>1. store' \in {store, NoSession} /\ Return(r, "notfound")
      BY <1>4 DEF GetDrop
    <2>2. TypeOK'
      BY <1>4, <2>1, ReturnType DEF GetDrop, TypeOK, history, MaybeSession
    <2>3. CopyInv'
      BY <1>4, <2>1, ReturnType DEF GetDrop, CopyInv, GoodCopy, TypeOK, history
    <2> QED
      BY <2>2, <2>3
  <1>5. CASE GetTouch(r)
    <2>1. store' \in {store, snap[r]}
      BY <1>5 DEF GetTouch
    <2>2. PICK a \in {"found", "notfound", "error"} : Return(r, a)
      BY <1>5 DEF GetTouch
    <2>3. snap[r] # NoSession
      BY <1>5 DEF GetTouch, CopyInv
    <2>4. TypeOK'
      BY <1>5, <2>1, <2>2, ReturnType DEF GetTouch, TypeOK, history
    <2>5. CopyInv'
      BY <1>5, <2>1, <2>2, <2>3, ReturnType DEF GetTouch, CopyInv, GoodCopy, TypeOK, history
    <2> QED
      BY <2>4, <2>5
  <1> QED
    BY <1>1, <1>2, <1>3, <1>4, <1>5 DEF Get

\* Every step keeps the invariant.
LEMMA NextStep == LInv /\ [Next]_vars => LInv'
  <1> SUFFICES ASSUME LInv, [Next]_vars
               PROVE  LInv'
    OBVIOUS
  <1> USE LifecycleAssumption DEF LInv, Zero
  <1>1. CASE Put
    BY <1>1, PutStep
  <1>2. ASSUME NEW r \in Readers, Get(r)
        PROVE  LInv'
    BY <1>2, GetStep
  <1>3. CASE Delete
    <2>1. store' \in {store, NoSession} /\ UNCHANGED <<now, pc, snap, ans, at, login, lastUse>>
      BY <1>3 DEF Delete, local
    <2>2. loggedOut' \in BOOLEAN /\ overlapped' \in BOOLEAN
      BY <1>3 DEF Delete, TypeOK
    <2>3. TypeOK'
      BY <2>1, <2>2 DEF TypeOK, MaybeSession
    <2>4. loggedOut' /\ ~overlapped' => store' = NoSession /\ \A r \in Readers : snap'[r] = NoSession
      BY <1>3, <2>1 DEF Delete
    <2>5. loggedOut' => login' # Zero
      BY <1>3, <2>1 DEF Delete
    <2>6. CopyInv'
      BY <2>1, <2>4, <2>5 DEF CopyInv, GoodCopy, TypeOK
    <2> QED
      BY <2>3, <2>6
  <1>4. CASE Evict
    <2>1. store' = NoSession /\ UNCHANGED <<now, pc, snap, ans, at, login, lastUse, loggedOut, overlapped>>
      BY <1>4 DEF Evict, local, history
    <2>2. TypeOK'
      BY <2>1 DEF TypeOK, MaybeSession
    <2>3. CopyInv'
      BY <2>1 DEF CopyInv, GoodCopy, TypeOK
    <2> QED
      BY <2>2, <2>3
  <1>5. CASE Tick
    <2>1. now' = now + 1 /\ UNCHANGED <<store, pc, snap, ans, at, login, lastUse, loggedOut, overlapped>>
      BY <1>5 DEF Tick, local, history
    <2>2. TypeOK'
      BY <2>1 DEF TypeOK
    <2>3. CopyInv'
      BY <2>1 DEF CopyInv, GoodCopy, TypeOK
    <2> QED
      BY <2>2, <2>3
  <1>6. CASE UNCHANGED vars
    BY <1>6 DEF vars, TypeOK, CopyInv, GoodCopy
  <1> QED
    BY <1>1, <1>2, <1>3, <1>4, <1>5, <1>6 DEF Next

LEMMA LifecycleInvariant == Spec => []LInv
  BY InitInv, NextStep, PTL DEF Spec

\* The store, the clock and every reader stay well-typed.
THEOREM TypeCorrect == Spec => []TypeOK
  BY LifecycleInvariant, PTL DEF LInv

\* No Get accepts a session at or past login + MaxLifetime, whatever was rewritten.
THEOREM AbsoluteLifetime == Spec => []NeverOutlivesLogin
  <1>1. LInv => NeverOutlivesLogin
    BY DEF LInv, CopyInv, GoodCopy, NeverOutlivesLogin
  <1> QED
    BY <1>1, LifecycleInvariant, PTL

\* A logout no Get straddles leaves nothing behind.
THEOREM QuietLogout == Spec => []QuietLogoutFinal
  <1>1. LInv => QuietLogoutFinal
    BY DEF LInv, CopyInv, QuietLogoutFinal
  <1> QED
    BY <1>1, LifecycleInvariant, PTL

\* Accepted uses of the session are less than IdleTimeout apart.
THEOREM IdleTimeoutHonoured == Spec => IdleBound
  <1>1. ASSUME LInv, [Next]_vars, lastUse' # lastUse, login # Zero, IdleTimeout > 0
        PROVE  lastUse' < lastUse + IdleTimeout
    <2>1. PICK r \in Readers : GetCheck(r) /\ lastUse' = now /\ ~Overdue(snap[r])
      BY <1>1 DEF Next, Put, Delete, Evict, Tick, Get, GetRead, GetExpiry, GetCheck, GetDrop,
                  GetTouch, history, vars
    <2>2. snap[r] \in Session /\ GoodCopy(snap[r]) /\ snap[r] # NoSession
      BY <1>1, <2>1 DEF GetCheck, LInv, TypeOK, CopyInv, MaybeSession
    <2> QED
      BY <1>1, <2>1, <2>2, LifecycleAssumption DEF Overdue, GoodCopy, Session, LInv, TypeOK
  <1>2. LInv /\ [Next]_vars =>
          [(lastUse' # lastUse /\ login # Zero /\ IdleTimeout > 0)
             => lastUse' < lastUse + IdleTimeout]_vars
    BY <1>1
  <1> QED
    BY <1>2, LifecycleInvariant, PTL DEF Spec, IdleBound

\* With the Redis store a session that is gone when its lifetime is over stays gone:
\* every copy expires by then, and SessionStore.Put refuses an expired copy.
THEOREM NoLateReturn == Spec => ForgottenForGood
  <1>1. ASSUME LInv, [Next]_vars, Redis, login # Zero, now >= login + MaxLifetime, store = NoSession
        PROVE  store' = NoSession
    <2>1. ASSUME NEW r \in Readers, Get(r) PROVE store' = NoSession
      <3>1. CASE GetTouch(r)
        <4>1. snap[r] \in Session /\ GoodCopy(snap[r]) /\ snap[r] # NoSession
          BY <1>1, <3>1 DEF GetTouch, LInv, TypeOK, CopyInv, MaybeSession
        <4>2. ~(snap[r].expires > now)
          BY <1>1, <4>1, LifecycleAssumption DEF GoodCopy, Session, LInv, TypeOK
        <4>3. store' = store
          BY <1>1, <3>1, <4>2 DEF GetTouch
        <4> QED
          BY <1>1, <4>3
      <3>2. CASE ~GetTouch(r)
        BY <1>1, <2>1, <3>2 DEF Get, GetRead, GetExpiry, GetCheck, GetDrop
      <3> QED
        BY <3>1, <3>2
    <2>2. CASE Put \/ Delete \/ Evict \/ Tick \/ UNCHANGED vars
      BY <1>1, <2>2 DEF Put, Delete, Evict, Tick, vars
    <2> QED
      BY <1>1, <2>1, <2>2 DEF Next
  <1>2. LInv /\ [Next]_vars =>
          [Redis /\ login # Zero /\ now >= login + MaxLifetime /\ store = NoSession
             => store' = NoSession]_vars
    BY <1>1
  <1> QED
    BY <1>2, LifecycleInvariant, PTL DEF Spec, ForgottenForGood

\* A reader that returns gives up its copy, and the others keep theirs.
LEMMA ReturnDiscards ==
    ASSUME LInv, NEW r \in Readers, NEW a \in {"found", "notfound", "error"}, Return(r, a)
    PROVE  Holding' = Holding \ {r}
  BY ReturnType DEF LInv, Holding

\* Every step of a Get is a step of the contract, or changes nothing it speaks of.
LEMMA GetContract ==
    ASSUME LInv, NEW r \in Readers, Get(r)
    PROVE  \/ Contract!Fetch(r) \/ Contract!Discard(r) \/ Contract!WriteBack(r)
           \/ UNCHANGED <<Status, Holding>>
  <1> USE DEF LInv
  <1>1. login' = login
    BY DEF Get, GetRead, GetExpiry, GetCheck, GetDrop, GetTouch, history
  <1>2. r \in Holding <=> pc[r] # "idle"
    BY DEF CopyInv, Holding
  <1>3. store # NoSession => login # Zero
    BY DEF CopyInv, GoodCopy
  <1>4. r \in Holding => login # Zero
    BY DEF CopyInv, GoodCopy, Holding
  <1>5. store' = store => Status' = Status
    BY <1>1 DEF Status
  <1>6. CASE GetRead(r)
    <2>1. CASE store # NoSession /\ snap' = [snap EXCEPT ![r] = store]
      <3>1. Holding' = Holding \cup {r}
        BY <2>1 DEF Holding, TypeOK
      <3>2. Status = "live"
        BY <2>1, <1>3 DEF Status
      <3> QED
        BY <3>1, <3>2, <1>5, <1>6 DEF GetRead, Contract!Fetch
    <2>2. CASE Return(r, "notfound") \/ Return(r, "error")
      <3>1. Holding' = Holding \ {r}
        BY <2>2, ReturnDiscards
      <3> QED
        BY <3>1, <1>2, <1>5, <1>6 DEF GetRead
    <2> QED
      BY <1>6, <2>1, <2>2 DEF GetRead
  <1>7. CASE GetExpiry(r)
    BY <1>7, <1>5 DEF GetExpiry, Holding
  <1>8. CASE GetCheck(r)
    <2>1. store' = store /\ r \in Holding
      BY <1>8, <1>2 DEF GetCheck
    <2>2. CASE snap' = snap
      BY <2>1, <2>2, <1>5 DEF Holding
    <2>3. CASE snap' = [snap EXCEPT ![r].lastSeen = now]
      <3>1. snap[r] \in Session
        BY <2>1 DEF Holding, TypeOK, MaybeSession
      <3>2. snap'[r] \in Session /\ \A q \in Readers \ {r} : snap'[q] = snap[q]
        BY <2>3, <3>1 DEF TypeOK, Session
      <3>3. Holding' = Holding
        BY <3>2, <2>1, LifecycleAssumption DEF Holding
      <3> QED
        BY <3>3, <2>1, <1>5
    <2>4. CASE Return(r, "found")
      <3>1. Holding' = Holding \ {r}
        BY <2>4, ReturnDiscards
      <3> QED
        BY <3>1, <2>1, <1>5 DEF Contract!Discard
    <2> QED
      BY <1>8, <2>2, <2>3, <2>4 DEF GetCheck
  <1>9. CASE GetDrop(r)
    <2>1. Holding' = Holding \ {r} /\ r \in Holding
      BY <1>9, <1>2, ReturnDiscards DEF GetDrop
    <2>2. Status' = Status \/ (Status = "live" /\ Status' = "ended")
      BY <1>9, <1>1, <1>3 DEF GetDrop, Status
    <2> QED
      BY <2>1, <2>2 DEF Contract!Discard
  <1>10. CASE GetTouch(r)
    <2>1. Holding' = Holding \ {r} /\ r \in Holding
      BY <1>10, <1>2, ReturnDiscards DEF GetTouch
    <2>2. store' = store \/ store' = snap[r]
      BY <1>10 DEF GetTouch
    <2>3. store' = snap[r] => Status' = "live"
      BY <2>1, <1>1, <1>4 DEF Status, Holding
    <2> QED
      BY <2>1, <2>2, <2>3, <1>5 DEF Contract!Discard, Contract!WriteBack
  <1> QED
    BY <1>6, <1>7, <1>8, <1>9, <1>10 DEF Get

\* LifecycleStore implements RecordContract for any readers and timeouts, over both
\* stores, with failing calls: only a Get in flight can revive an ended session.
THEOREM ContractImplemented == Spec => ImplementsContract
  <1>1. Init => Status = "none" /\ Holding = {}
    BY DEF Init, Status, Holding
  <1>2. LInv /\ [Next]_vars => [Contract!Next]_<<Status, Holding>>
    <2> SUFFICES ASSUME LInv, [Next]_vars
                 PROVE  Contract!Next \/ UNCHANGED <<Status, Holding>>
      OBVIOUS
    <2>1. CASE Put
      <3>1. store' \in Session /\ login' = now /\ now # Zero /\ login = Zero
        BY <2>1, LifecycleAssumption DEF Put, Normalize, Session, LInv, TypeOK, Zero
      <3>2. Status = "none" /\ Status' = "live"
        BY <3>1, LifecycleAssumption DEF Status
      <3>3. Holding' = Holding
        BY <2>1 DEF Put, local, Holding
      <3> QED
        BY <3>2, <3>3 DEF Contract!Next, Contract!Create
    <2>2. ASSUME NEW r \in Readers, Get(r)
          PROVE  Contract!Next \/ UNCHANGED <<Status, Holding>>
      BY <2>2, GetContract DEF Contract!Next
    <2>3. CASE Delete \/ Evict \/ Tick \/ UNCHANGED vars
      <3>1. login' = login /\ snap' = snap /\ store' \in {store, NoSession}
        BY <2>3 DEF Delete, Evict, Tick, vars, local, history
      <3>2. Status' = Status \/ (Status = "live" /\ Status' = "ended")
        BY <3>1 DEF Status
      <3>3. Holding' = Holding
        BY <3>1 DEF Holding
      <3> QED
        BY <3>2, <3>3 DEF Contract!Next, Contract!End
    <2> QED
      BY <2>1, <2>2, <2>3 DEF Next
  <1>3. ImplementsContract <=> (Status = "none" /\ Holding = {} /\ [][Contract!Next]_<<Status, Holding>>)
    BY DEF ImplementsContract, Contract!Spec, Contract!Init
  <1> QED
    BY <1>1, <1>2, <1>3, LifecycleInvariant, PTL DEF Spec
=============================================================================
