------------------------- MODULE TokenManager_proofs -------------------------
(***************************************************************************)
(* What AccessToken guarantees for any number of callers and rotations.     *)
(* The properties of the refresh itself hold for a lock that does not       *)
(* expire under its holder (MemoryLocker); the ownership of the lock and     *)
(* RecordContract hold with the Redis TTL, failing calls and crashes too.   *)
(***************************************************************************)
EXTENDS TokenManager, TLAPS

\* Whoever is between Lock and unlock owns the lock.
LockInv == \A c \in Callers : pc[c] \in Critical => lock = c

\* Callers that have been to the IdP and not yet replaced or dropped the stored set.
Replacing == {"refreshed", "touching", "persisting", "dropTokens"}

\* The stored refresh token is the newest unless its replacement is on the way, and a
\* caller on its way to or from the IdP holds the newest.
CurrentInv ==
    /\ ~spent
    /\ \A c \in Callers : pc[c] \in Renewing => cur[c] = idp
    /\ tokens = None \/ tokens.refresh \in {0, idp} \/ \E c \in Callers : pc[c] \in Replacing

\* Nothing is stored and nobody is about to store.
Drained == tokens = None /\ \A c \in Callers : pc[c] \notin Renewing

\* A caller that has, or is about to return, ErrRefreshFailed.
Failing(c) == ret[c] = "refresh_failed" \/ (pc[c] = "unlocking" /\ err[c] = "refresh_failed")

ClosedInv ==
    /\ \A c \in Callers : pc[c] = "dropSession" => Drained
    /\ \A c \in Callers : Failing(c) => Drained /\ (sess = "live" \/ held => lateTouch)
    /\ logout # "idle" /\ ~straddled => Drained

-----------------------------------------------------------------------------
\* The type invariant holds initially.
LEMMA InitType == Init => TypeOK
  <1>1. SUFFICES ASSUME Init PROVE TypeOK
    OBVIOUS
  <1>2. tokens \in [refresh : Nat, stale : BOOLEAN] /\ idp \in Nat \ {0}
    BY <1>1, SMT DEF Init
  <1>3. held \in BOOLEAN /\ spent \in BOOLEAN /\ straddled \in BOOLEAN /\ lateTouch \in BOOLEAN
    BY <1>1, Zenon DEF Init
  <1>4. /\ lock \in Callers \cup {Free, Forgotten}
        /\ pc \in [Callers -> {"idle", "waiting"} \cup Critical]
        /\ cur \in [Callers -> Nat]
        /\ sess \in {"live", "gone", "over"}
        /\ err \in [Callers -> Results] /\ ret \in [Callers -> Results]
        /\ logout \in {"idle", "session", "done"}
    BY <1>1, SMT DEF Init, Results
  <1> QED
    BY <1>2, <1>3, <1>4, Zenon DEF TypeOK

\* Every step preserves the type invariant.
LEMMA TypeStep == TypeOK /\ [Next]_vars => TypeOK'
  <1> SUFFICES ASSUME TypeOK, [Next]_vars PROVE TypeOK'
    OBVIOUS
  <1> USE TokenAssumption DEF TypeOK
  <1>1. ASSUME NEW c \in Callers, Read(c) PROVE TypeOK'
    BY <1>1 DEF Read, Return, Goto, Stale, Results, stores, history
  <1>2. ASSUME NEW c \in Callers, Lock(c) PROVE TypeOK'
    BY <1>2 DEF Lock, Goto, Critical, stores, history
  <1>3. ASSUME NEW c \in Callers, LockFails(c) PROVE TypeOK'
    BY <1>3 DEF LockFails, Return, Goto, Results, stores, history
  <1>4. ASSUME NEW c \in Callers, Reread(c) PROVE TypeOK'
    BY <1>4 DEF Reread, Finish, Goto, Stale, Critical, Results, stores, history
  <1>5. ASSUME NEW c \in Callers, RefreshTokens(c) PROVE TypeOK'
    <2>1. idp' \in Nat \ {0} /\ cur' \in [Callers -> Nat]
      BY <1>5 DEF RefreshTokens
    <2>2. /\ pc' \in [Callers -> {"idle", "waiting"} \cup Critical]
          /\ err' \in [Callers -> Results]
      BY <1>5 DEF RefreshTokens, Goto, Critical, Results
    <2>3. spent' \in BOOLEAN
      BY <1>5 DEF RefreshTokens
    <2> QED
      BY <1>5, <2>1, <2>2, <2>3 DEF RefreshTokens, stores
  <1>6. ASSUME NEW c \in Callers, SessionExpiry(c) PROVE TypeOK'
    BY <1>6 DEF SessionExpiry, Goto, Critical, Results, stores, history
  <1>7. ASSUME NEW c \in Callers, Persist(c) PROVE TypeOK'
    BY <1>7 DEF Persist, Finish, Goto, Critical, Results, history
  <1>8. ASSUME NEW c \in Callers, InvalidateTokens(c) PROVE TypeOK'
    BY <1>8 DEF InvalidateTokens, Goto, Critical, history
  <1>9. ASSUME NEW c \in Callers, InvalidateSession(c) PROVE TypeOK'
    BY <1>9 DEF InvalidateSession, Deleted, Copied, Goto, Critical
  <1>10. ASSUME NEW c \in Callers, Unlock(c) PROVE TypeOK'
    BY <1>10 DEF Unlock, Freed, Goto, Results, stores, history
  <1>11. ASSUME NEW c \in Callers, Crash(c) PROVE TypeOK'
    BY <1>11 DEF Crash, Goto, Results, stores, history
  <1>12. CASE LockExpire
    BY <1>12 DEF LockExpire, stores, local, history
  <1>13. CASE LogoutTokens
    BY <1>13 DEF LogoutTokens, local
  <1>14. CASE LogoutSession
    BY <1>14 DEF LogoutSession, Deleted, Copied, local
  <1>15. CASE Age
    BY <1>15 DEF Age, local, history
  <1>16. CASE UNCHANGED vars
    BY <1>16 DEF vars
  <1>17. ASSUME NEW c \in Callers, TouchSession(c) PROVE TypeOK'
    BY <1>17 DEF TouchSession, Written, Goto, Critical, Results, history
  <1>18. CASE GetElsewhere
    BY <1>18 DEF GetElsewhere, local, history
  <1>19. CASE TouchElsewhere
    BY <1>19 DEF TouchElsewhere, Written, local, history
  <1>20. CASE SessionIdles
    BY <1>20 DEF SessionIdles, local, history
  <1>21. CASE SessionExpires
    BY <1>21 DEF SessionExpires, local, history
  <1> QED
    BY <1>1, <1>2, <1>3, <1>4, <1>5, <1>6, <1>7, <1>8, <1>9, <1>10, <1>11, <1>12,
       <1>13, <1>14, <1>15, <1>16, <1>17, <1>18, <1>19, <1>20, <1>21 DEF Next, AccessToken, Step

\* Type correctness of AccessToken, the lock and the stores, for every lock, fault
\* setting and number of callers.
THEOREM TypeCorrect == Spec => []TypeOK
  <1> QED
    BY InitType, TypeStep, PTL DEF Spec

-----------------------------------------------------------------------------
\* Mutual exclusion: a lock that does not expire has one caller between Lock and
\* unlock.
LEMMA LockStep ==
    ASSUME LockExpires = FALSE, TypeOK, LockInv, [Next]_vars
    PROVE  LockInv'
  <1> USE TokenAssumption DEF TypeOK, LockInv, Critical
  <1>1. ASSUME NEW c \in Callers, Read(c) PROVE LockInv'
    BY <1>1 DEF Read, Return, Goto
  <1>2. ASSUME NEW c \in Callers, Lock(c) PROVE LockInv'
    BY <1>2 DEF Lock, Goto
  <1>3. ASSUME NEW c \in Callers, LockFails(c) PROVE LockInv'
    BY <1>3 DEF LockFails, Return, Goto
  <1>4. ASSUME NEW c \in Callers, Reread(c) PROVE LockInv'
    BY <1>4 DEF Reread, Finish, Goto
  <1>5. ASSUME NEW c \in Callers, RefreshTokens(c) PROVE LockInv'
    BY <1>5 DEF RefreshTokens, Goto
  <1>6. ASSUME NEW c \in Callers, SessionExpiry(c) PROVE LockInv'
    BY <1>6 DEF SessionExpiry, Goto
  <1>7. ASSUME NEW c \in Callers, Persist(c) PROVE LockInv'
    BY <1>7 DEF Persist, Finish, Goto
  <1>8. ASSUME NEW c \in Callers, InvalidateTokens(c) \/ InvalidateSession(c) PROVE LockInv'
    BY <1>8 DEF InvalidateTokens, InvalidateSession, Goto
  <1>9. ASSUME NEW c \in Callers, Unlock(c) PROVE LockInv'
    BY <1>9 DEF Unlock, Freed, Goto
  <1>10. ASSUME NEW c \in Callers, Crash(c) PROVE LockInv'
    BY <1>10 DEF Crash
  <1>11. CASE LockExpire
    BY <1>11 DEF LockExpire
  <1>12. CASE LogoutTokens \/ LogoutSession \/ Age
    BY <1>12 DEF LogoutTokens, LogoutSession, Age, local
  <1>13. CASE UNCHANGED vars
    BY <1>13 DEF vars
  <1>14. ASSUME NEW c \in Callers, TouchSession(c) PROVE LockInv'
    BY <1>14 DEF TouchSession, Goto
  <1>15. CASE GetElsewhere
    BY <1>15 DEF GetElsewhere, local
  <1>16. CASE TouchElsewhere
    BY <1>16 DEF TouchElsewhere, local
  <1>17. CASE SessionIdles
    BY <1>17 DEF SessionIdles, local
  <1>18. CASE SessionExpires
    BY <1>18 DEF SessionExpires, local
  <1> QED
    BY <1>1, <1>2, <1>3, <1>4, <1>5, <1>6, <1>7, <1>8, <1>9, <1>10, <1>11, <1>12, <1>13,
       <1>14, <1>15, <1>16, <1>17, <1>18
    DEF Next, AccessToken, Step

\* Under mutual exclusion the stored refresh token is never an old one.
LEMMA CurrentStep ==
    ASSUME LockExpires = FALSE, TypeOK, LockInv, CurrentInv, [Next]_vars
    PROVE  CurrentInv'
  <1> USE TokenAssumption DEF TypeOK, CurrentInv, Renewing, Replacing
  <1>0. \A c, d \in Callers : pc[c] \in Critical /\ pc[d] \in Critical => c = d
    BY DEF LockInv
  <1>1. ASSUME NEW c \in Callers, Read(c) PROVE CurrentInv'
    BY <1>1 DEF Read, Return, Goto, stores, history
  <1>2. ASSUME NEW c \in Callers, Lock(c) PROVE CurrentInv'
    BY <1>2 DEF Lock, Goto, stores, history
  <1>3. ASSUME NEW c \in Callers, LockFails(c) PROVE CurrentInv'
    BY <1>3 DEF LockFails, Return, Goto, stores, history
  <1>4. ASSUME NEW c \in Callers, Reread(c) PROVE CurrentInv'
    BY <1>0, <1>4 DEF Reread, Finish, Goto, Stale, Critical, stores, history
  <1>5. ASSUME NEW c \in Callers, RefreshTokens(c) PROVE CurrentInv'
    BY <1>0, <1>5 DEF RefreshTokens, Goto, Critical, stores
  <1>6. ASSUME NEW c \in Callers, SessionExpiry(c) PROVE CurrentInv'
    BY <1>6 DEF SessionExpiry, Goto, stores, history
  <1>7. ASSUME NEW c \in Callers, Persist(c) PROVE CurrentInv'
    BY <1>0, <1>7 DEF Persist, Finish, Goto, Critical, history
  <1>8. ASSUME NEW c \in Callers, InvalidateTokens(c) PROVE CurrentInv'
    BY <1>8 DEF InvalidateTokens, Goto, history
  <1>9. ASSUME NEW c \in Callers, InvalidateSession(c) PROVE CurrentInv'
    BY <1>9 DEF InvalidateSession, Deleted, Copied, Goto, Critical
  <1>10. ASSUME NEW c \in Callers, Unlock(c) PROVE CurrentInv'
    BY <1>10 DEF Unlock, Goto, stores, history
  <1>11. ASSUME NEW c \in Callers, Crash(c) PROVE CurrentInv'
    BY <1>11 DEF Crash
  <1>12. CASE LockExpire
    BY <1>12 DEF LockExpire
  <1>13. CASE LogoutTokens
    BY <1>13 DEF LogoutTokens, local
  <1>14. CASE LogoutSession
    BY <1>14 DEF LogoutSession, Deleted, Copied, local
  <1>15. CASE Age
    BY <1>15 DEF Age, local, history
  <1>16. CASE UNCHANGED vars
    BY <1>16 DEF vars
  <1>17. ASSUME NEW c \in Callers, TouchSession(c) PROVE CurrentInv'
    BY <1>17 DEF TouchSession, Goto, history
  <1>18. CASE GetElsewhere
    BY <1>18 DEF GetElsewhere, local, history
  <1>19. CASE TouchElsewhere
    BY <1>19 DEF TouchElsewhere, local, history
  <1>20. CASE SessionIdles
    BY <1>20 DEF SessionIdles, local, history
  <1>21. CASE SessionExpires
    BY <1>21 DEF SessionExpires, local, history
  <1> QED
    BY <1>1, <1>2, <1>3, <1>4, <1>5, <1>6, <1>7, <1>8, <1>9, <1>10, <1>11, <1>12,
       <1>13, <1>14, <1>15, <1>16, <1>17, <1>18, <1>19, <1>20, <1>21 DEF Next, AccessToken, Step

\* Under mutual exclusion, what invalidate and Logout removed stays removed: a caller
\* that waited for the lock re-reads and finds nothing.
LEMMA ClosedStep ==
    ASSUME LockExpires = FALSE, TypeOK, LockInv, ClosedInv, [Next]_vars
    PROVE  ClosedInv'
  <1> USE TokenAssumption DEF TypeOK, ClosedInv, Failing, Drained, Renewing
  <1>0. \A c, d \in Callers : pc[c] \in Critical /\ pc[d] \in Critical => c = d
    BY DEF LockInv
  <1>1. ASSUME NEW c \in Callers, Read(c) PROVE ClosedInv'
    BY <1>1 DEF Read, Return, Goto, stores, history
  <1>2. ASSUME NEW c \in Callers, Lock(c) PROVE ClosedInv'
    BY <1>2 DEF Lock, Goto, stores, history
  <1>3. ASSUME NEW c \in Callers, LockFails(c) PROVE ClosedInv'
    BY <1>3 DEF LockFails, Return, Goto, stores, history
  <1>4. ASSUME NEW c \in Callers, Reread(c) PROVE ClosedInv'
    BY <1>4 DEF Reread, Finish, Goto, Stale, stores, history
  <1>5. ASSUME NEW c \in Callers, RefreshTokens(c) PROVE ClosedInv'
    BY <1>5 DEF RefreshTokens, Goto, stores
  <1>6. ASSUME NEW c \in Callers, SessionExpiry(c) PROVE ClosedInv'
    BY <1>6 DEF SessionExpiry, Goto, stores, history
  <1>7. ASSUME NEW c \in Callers, Persist(c) PROVE ClosedInv'
    BY <1>7 DEF Persist, Finish, Goto, history
  <1>8. ASSUME NEW c \in Callers, InvalidateTokens(c) PROVE ClosedInv'
    BY <1>0, <1>8 DEF InvalidateTokens, Goto, Critical, history
  <1>9. ASSUME NEW c \in Callers, InvalidateSession(c) PROVE ClosedInv'
    BY <1>9 DEF InvalidateSession, Deleted, Copied, Goto, Critical
  <1>10. ASSUME NEW c \in Callers, Unlock(c) PROVE ClosedInv'
    BY <1>10 DEF Unlock, Goto, stores, history
  <1>11. ASSUME NEW c \in Callers, Crash(c) PROVE ClosedInv'
    BY <1>11 DEF Crash
  <1>12. CASE LockExpire
    BY <1>12 DEF LockExpire
  <1>13. CASE LogoutTokens
    BY <1>13 DEF LogoutTokens, local
  <1>14. CASE LogoutSession
    BY <1>14 DEF LogoutSession, Deleted, Copied, local
  <1>15. CASE Age
    BY <1>15 DEF Age, local, history
  <1>16. CASE UNCHANGED vars
    BY <1>16 DEF vars
  <1>17. ASSUME NEW c \in Callers, TouchSession(c) PROVE ClosedInv'
    BY <1>17 DEF TouchSession, Written, Goto, history
  <1>18. CASE GetElsewhere
    BY <1>18 DEF GetElsewhere, local, history
  <1>19. CASE TouchElsewhere
    BY <1>19 DEF TouchElsewhere, Written, local, history
  <1>20. CASE SessionIdles
    BY <1>20 DEF SessionIdles, local, history
  <1>21. CASE SessionExpires
    BY <1>21 DEF SessionExpires, local, history
  <1> QED
    BY <1>1, <1>2, <1>3, <1>4, <1>5, <1>6, <1>7, <1>8, <1>9, <1>10, <1>11, <1>12,
       <1>13, <1>14, <1>15, <1>16, <1>17, <1>18, <1>19, <1>20, <1>21 DEF Next, AccessToken, Step

\* The three invariants together, for the lock that does not expire.
LEMMA ExclusiveInvariant ==
    ASSUME LockExpires = FALSE
    PROVE  Spec => [](TypeOK /\ LockInv /\ CurrentInv /\ ClosedInv)
  <1>1. Init => LockInv /\ CurrentInv /\ ClosedInv
    BY TokenAssumption
    DEF Init, LockInv, CurrentInv, ClosedInv, Critical, Renewing, Replacing, Failing, Drained
  <1>2. TypeOK /\ LockInv /\ CurrentInv /\ ClosedInv /\ [Next]_vars
          => (TypeOK /\ LockInv /\ CurrentInv /\ ClosedInv)'
    BY TypeStep, LockStep, CurrentStep, ClosedStep
  <1> QED
    BY InitType, <1>1, <1>2, PTL DEF Spec

\* With a lock that does not expire, no two calls are at the IdP with one refresh
\* token: what docs/TOKEN_LIFECYCLE.md:50 says of the re-read under the lock.
THEOREM RefreshCollapsed ==
    ASSUME LockExpires = FALSE
    PROVE  Spec => []OneRefreshPerToken
  <1>1. LockInv => OneRefreshPerToken
    BY DEF LockInv, OneRefreshPerToken, Critical
  <1> QED
    BY ExclusiveInvariant, <1>1, PTL

\* With a lock that does not expire, AccessToken never presents a rotated token,
\* whatever the IdP, logouts and session expiry do.
THEOREM RotationSafe ==
    ASSUME LockExpires = FALSE
    PROVE  Spec => []NeverSpent
  <1>1. CurrentInv => NeverSpent
    BY DEF CurrentInv, NeverSpent
  <1> QED
    BY ExclusiveInvariant, <1>1, PTL

\* With the in-process lock and stores a failed refresh fails closed for good.
THEOREM RefreshFailsClosed ==
    ASSUME LockExpires = FALSE
    PROVE  Spec => []FailsClosed
  <1>1. ClosedInv => FailsClosed
    BY DEF ClosedInv, FailsClosed, Failing, Drained
  <1> QED
    BY ExclusiveInvariant, <1>1, PTL

\* With the in-process lock and stores no token set outlives a logout that no refresh
\* straddles.
THEOREM LogoutTokensGone ==
    ASSUME LockExpires = FALSE
    PROVE  Spec => []LogoutRemovesTokens
  <1>1. ClosedInv => LogoutRemovesTokens
    BY DEF ClosedInv, LogoutRemovesTokens, Drained
  <1> QED
    BY ExclusiveInvariant, <1>1, PTL

\* For every lock, with failing calls and crashes: unlock never takes another
\* caller's lock (the ownership-checked delete of refresh_lock.go:42).
THEOREM LockOwnership == Spec => LockNotStolen
  <1>1. TypeOK /\ [Next]_vars =>
          [\A c \in Callers : lock = c /\ lock' # c => pc'[c] = "idle" \/ LockExpire]_vars
    <2> SUFFICES ASSUME TypeOK, [Next]_vars, NEW c \in Callers, lock = c, lock' # c
                 PROVE  pc'[c] = "idle" \/ LockExpire
      OBVIOUS
    <2> USE TokenAssumption DEF TypeOK
    <2>1. ASSUME NEW d \in Callers, Lock(d) \/ LockFails(d) PROVE FALSE
      BY <2>1 DEF Lock, LockFails
    <2>2. ASSUME NEW d \in Callers, Unlock(d) PROVE pc'[c] = "idle"
      BY <2>2 DEF Unlock, Freed, Goto
    <2>3. ASSUME NEW d \in Callers, Crash(d) PROVE pc'[c] = "idle"
      BY <2>3 DEF Crash, Goto
    <2> QED
      BY <2>1, <2>2, <2>3
      DEF Next, AccessToken, Step, Read, Reread, RefreshTokens, SessionExpiry, Persist,
          InvalidateTokens, InvalidateSession, LogoutTokens, LogoutSession, Age, vars,
          TouchSession, GetElsewhere, TouchElsewhere, SessionIdles, SessionExpires
  <1> QED
    BY TypeCorrect, <1>1, PTL DEF Spec, LockNotStolen

-----------------------------------------------------------------------------
(* The session and the token set follow RecordContract *)

\* A step of one caller gives it a copy or takes its copy.
LEMMA CopiesMove ==
    ASSUME NEW c \in Callers, held' = held, \A d \in Callers \ {c} : pc'[d] = pc[d]
    PROVE  /\ pc'[c] = "touching" => SessionCopies' = SessionCopies \cup {c}
           /\ pc'[c] # "touching" => SessionCopies' = SessionCopies \ {c}
           /\ pc[c] # "touching" /\ pc'[c] # "touching" => SessionCopies' = SessionCopies
           /\ pc[c] = "touching" => c \in SessionCopies
           /\ pc'[c] \in Renewing => TokenCopies' = TokenCopies \cup {c}
           /\ pc'[c] \notin Renewing => TokenCopies' = TokenCopies \ {c}
           /\ pc[c] \notin Renewing /\ pc'[c] \notin Renewing => TokenCopies' = TokenCopies
           /\ pc[c] \in Renewing => c \in TokenCopies
  <1>1. c # Elsewhere
    BY TokenAssumption
  <1>2. /\ pc'[c] = "touching" => SessionCopies' = SessionCopies \cup {c}
        /\ pc'[c] # "touching" => SessionCopies' = SessionCopies \ {c}
        /\ pc[c] # "touching" /\ pc'[c] # "touching" => SessionCopies' = SessionCopies
        /\ pc[c] = "touching" => c \in SessionCopies
    BY <1>1 DEF SessionCopies
  <1>3. /\ pc'[c] \in Renewing => TokenCopies' = TokenCopies \cup {c}
        /\ pc'[c] \notin Renewing => TokenCopies' = TokenCopies \ {c}
        /\ pc[c] \notin Renewing /\ pc'[c] \notin Renewing => TokenCopies' = TokenCopies
        /\ pc[c] \in Renewing => c \in TokenCopies
    BY DEF TokenCopies
  <1> QED
    BY <1>2, <1>3

\* Where a caller goes, and that the others stay.
LEMMA CallerMoves ==
    ASSUME TypeOK, NEW c \in Callers, AccessToken(c) \/ Crash(c)
    PROVE  /\ held' = held
           /\ \A d \in Callers \ {c} : pc'[d] = pc[d]
  <1>1. held' = held
    BY DEF AccessToken, Step, Read, Lock, LockFails, Reread, RefreshTokens, SessionExpiry,
           TouchSession, Persist, InvalidateTokens, InvalidateSession, Unlock, Crash, stores
  <1>2. \E label : Goto(c, label)
    BY DEF AccessToken, Step, Read, Lock, LockFails, Reread, RefreshTokens, SessionExpiry,
           TouchSession, Persist, InvalidateTokens, InvalidateSession, Unlock, Crash, Return, Finish
  <1> QED
    BY <1>1, <1>2 DEF Goto, TypeOK

\* The session under a step of AccessToken.
LEMMA SessionCaller ==
    ASSUME TypeOK, NEW c \in Callers, AccessToken(c) \/ Crash(c)
    PROVE  [SessionRecord!Next]_<<SessionStatus, SessionCopies>>
  <1>0. held' = held /\ \A d \in Callers \ {c} : pc'[d] = pc[d]
    BY CallerMoves
  <1>1. CASE SessionExpiry(c)
    <2>1. pc[c] = "refreshed" /\ sess' = sess /\ (pc'[c] = "touching" => sess = "live")
      BY <1>1 DEF SessionExpiry, Goto, stores, TypeOK
    <2>2. SessionStatus' = SessionStatus
      BY <2>1 DEF SessionStatus
    <2>3. CASE pc'[c] = "touching"
      <3>1. SessionCopies' = SessionCopies \cup {c}
        BY <1>0, <2>3, CopiesMove
      <3>2. SessionStatus = "live"
        BY <2>1, <2>3 DEF SessionStatus
      <3> QED
        BY <2>2, <3>1, <3>2 DEF SessionRecord!Next, SessionRecord!Fetch
    <2>4. CASE pc'[c] # "touching"
      <3>1. SessionCopies' = SessionCopies
        BY <1>0, <2>1, <2>4, CopiesMove
      <3> QED
        BY <2>2, <3>1
    <2> QED
      BY <2>3, <2>4
  <1>2. CASE pc[c] = "touching" /\ (TouchSession(c) \/ Crash(c))
    <2>1. pc'[c] # "touching"
      BY <1>2 DEF TouchSession, Crash, Goto, TypeOK
    <2>2. sess' \in {sess, Written}
      BY <1>2 DEF TouchSession, Crash, stores
    <2>3. c \in SessionCopies /\ SessionCopies' = SessionCopies \ {c}
      BY <1>0, <1>2, <2>1, CopiesMove
    <2>4. SessionStatus' = SessionStatus \/ SessionStatus' = "live"
      BY <2>2 DEF SessionStatus, Written
    <2> QED
      BY <2>3, <2>4 DEF SessionRecord!Next, SessionRecord!Discard, SessionRecord!WriteBack
  <1>3. CASE pc[c] # "touching" /\ ~SessionExpiry(c)
    <2>1. pc'[c] # "touching"
      BY <1>3 DEF AccessToken, Step, Read, Lock, LockFails, Reread, RefreshTokens, TouchSession, Persist,
                  InvalidateTokens, InvalidateSession, Unlock, Crash, Return, Finish, Goto, TypeOK
    <2>2. sess' \in {sess, Deleted}
      BY <1>3 DEF AccessToken, Step, Read, Lock, LockFails, Reread, RefreshTokens, TouchSession, Persist,
                  InvalidateTokens, InvalidateSession, Unlock, Crash, stores
    <2>3. SessionCopies' = SessionCopies
      BY <1>0, <1>3, <2>1, CopiesMove
    <2>4. SessionStatus' = SessionStatus \/ (SessionStatus = "live" /\ SessionStatus' = "ended")
      BY <2>2 DEF SessionStatus, Deleted
    <2> QED
      BY <2>3, <2>4 DEF SessionRecord!Next, SessionRecord!End
  <1>4. pc[c] = "touching" => TouchSession(c) \/ Crash(c)
    BY DEF AccessToken, Step, Read, Lock, LockFails, Reread, RefreshTokens, SessionExpiry, Persist,
           InvalidateTokens, InvalidateSession, Unlock
  <1> QED
    BY <1>1, <1>2, <1>3, <1>4

\* The token set under a step of AccessToken.
LEMMA TokensCaller ==
    ASSUME TypeOK, NEW c \in Callers, AccessToken(c) \/ Crash(c)
    PROVE  [TokenRecord!Next]_<<TokenStatus, TokenCopies>>
  <1>0. held' = held /\ \A d \in Callers \ {c} : pc'[d] = pc[d]
    BY CallerMoves
  <1>1. CASE Reread(c)
    <2>1. /\ pc[c] = "locked" /\ tokens' = tokens /\ pc'[c] \in {"unlocking", "refreshing"}
          /\ pc'[c] = "refreshing" => tokens # None
      BY <1>1 DEF Reread, Finish, Stale, Goto, stores, TypeOK
    <2>2. TokenStatus' = TokenStatus
      BY <2>1 DEF TokenStatus
    <2>3. CASE pc'[c] = "refreshing"
      <3>1. TokenCopies' = TokenCopies \cup {c}
        BY <1>0, <2>3, CopiesMove DEF Renewing
      <3>2. TokenStatus = "live"
        BY <2>1, <2>3 DEF TokenStatus
      <3> QED
        BY <2>2, <3>1, <3>2 DEF TokenRecord!Next, TokenRecord!Fetch
    <2>4. CASE pc'[c] = "unlocking"
      <3>1. TokenCopies' = TokenCopies
        BY <1>0, <2>1, <2>4, CopiesMove DEF Renewing
      <3> QED
        BY <2>2, <3>1
    <2> QED
      BY <2>1, <2>3, <2>4
  <1>2. CASE Persist(c)
    <2>1. pc[c] = "persisting" /\ pc'[c] = "unlocking"
      BY <1>2 DEF Persist, Finish, Goto, TypeOK
    <2>2. c \in TokenCopies /\ TokenCopies' = TokenCopies \ {c}
      BY <1>0, <2>1, CopiesMove DEF Renewing
    <2>3. TokenStatus' \in {"live", "ended"} /\ TokenStatus \in {"live", "ended"}
      BY DEF TokenStatus
    <2> QED
      BY <2>2, <2>3 DEF TokenRecord!Next, TokenRecord!Discard, TokenRecord!WriteBack
  <1>3. CASE RefreshTokens(c) \/ SessionExpiry(c) \/ TouchSession(c)
    <2>1. /\ pc[c] \in {"refreshing", "refreshed", "touching"} /\ tokens' = tokens
          /\ pc'[c] \in {"refreshed", "touching", "persisting", "dropTokens"}
      BY <1>3 DEF RefreshTokens, SessionExpiry, TouchSession, Goto, stores, TypeOK
    <2>2. TokenStatus' = TokenStatus
      BY <2>1 DEF TokenStatus
    <2>3. c \in TokenCopies /\ TokenCopies' \in {TokenCopies, TokenCopies \ {c}}
      <3>1. pc[c] \in Renewing
        BY <2>1 DEF Renewing
      <3>2. c \in TokenCopies
        BY <1>0, <3>1, CopiesMove
      <3>3. TokenCopies' \in {TokenCopies \cup {c}, TokenCopies \ {c}}
        BY <1>0, CopiesMove
      <3> QED
        BY <3>2, <3>3
    <2> QED
      BY <2>2, <2>3 DEF TokenRecord!Next, TokenRecord!Discard
  <1>4. CASE Crash(c)
    <2>1. pc'[c] = "idle" /\ tokens' = tokens
      BY <1>4 DEF Crash, Goto, stores, TypeOK
    <2>2. TokenStatus' = TokenStatus
      BY <2>1 DEF TokenStatus
    <2>3. TokenCopies' = TokenCopies \ {c}
      BY <1>0, <2>1, CopiesMove DEF Renewing
    <2>4. CASE c \in TokenCopies
      BY <2>2, <2>3, <2>4 DEF TokenRecord!Next, TokenRecord!Discard
    <2>5. CASE c \notin TokenCopies
      BY <2>2, <2>3, <2>5
    <2> QED
      BY <2>4, <2>5
  <1>5. CASE \/ Read(c) \/ Lock(c) \/ LockFails(c)
             \/ InvalidateTokens(c) \/ InvalidateSession(c) \/ Unlock(c)
    <2>1. pc[c] \notin Renewing /\ pc'[c] \notin Renewing
      BY <1>5 DEF Read, Lock, LockFails, InvalidateTokens, InvalidateSession, Unlock, Return, Goto,
                  TypeOK, Renewing
    <2>2. tokens' \in {tokens, None}
      BY <1>5 DEF Read, Lock, LockFails, InvalidateTokens, InvalidateSession, Unlock, stores
    <2>3. TokenCopies' = TokenCopies
      BY <1>0, <2>1, CopiesMove
    <2>4. TokenStatus' = TokenStatus \/ (TokenStatus = "live" /\ TokenStatus' = "ended")
      BY <2>2 DEF TokenStatus
    <2> QED
      BY <2>3, <2>4 DEF TokenRecord!Next, TokenRecord!End
  <1> QED
    BY <1>1, <1>2, <1>3, <1>4, <1>5 DEF AccessToken, Step

\* Logout, other requests and the end of the session, which move no caller.
LEMMA RecordsEnvironment ==
    ASSUME \/ LockExpire \/ LogoutTokens \/ LogoutSession \/ GetElsewhere \/ TouchElsewhere
           \/ SessionIdles \/ SessionExpires \/ Age \/ UNCHANGED vars,
           TypeOK
    PROVE  /\ [SessionRecord!Next]_<<SessionStatus, SessionCopies>>
           /\ [TokenRecord!Next]_<<TokenStatus, TokenCopies>>
  <1>1. pc' = pc
    BY DEF LockExpire, LogoutTokens, LogoutSession, GetElsewhere, TouchElsewhere, SessionIdles,
           SessionExpires, Age, vars, local
  <1>2. [TokenRecord!Next]_<<TokenStatus, TokenCopies>>
    <2>1. tokens' = None \/ (tokens' # None /\ tokens # None) \/ tokens' = tokens
      <3>1. CASE Age
        <4>1. tokens \in [refresh : Nat, stale : BOOLEAN]
          BY <3>1 DEF Age, TypeOK
        <4>2. tokens' \in [refresh : Nat, stale : BOOLEAN]
          BY <3>1, <4>1 DEF Age
        <4> QED
          BY <4>1, <4>2, TokenAssumption
      <3>2. CASE ~Age
        BY <3>2 DEF LockExpire, LogoutTokens, LogoutSession, GetElsewhere, TouchElsewhere,
                    SessionIdles, SessionExpires, vars, stores
      <3> QED
        BY <3>1, <3>2
    <2>2. TokenStatus' = TokenStatus \/ (TokenStatus = "live" /\ TokenStatus' = "ended")
      BY <2>1 DEF TokenStatus
    <2>3. TokenCopies' = TokenCopies
      BY <1>1 DEF TokenCopies
    <2> QED
      BY <2>2, <2>3 DEF TokenRecord!Next, TokenRecord!End
  <1>3. [SessionRecord!Next]_<<SessionStatus, SessionCopies>>
    <2>1. CASE GetElsewhere
      <3>1. SessionStatus = "live" /\ SessionStatus' = SessionStatus
        BY <2>1 DEF GetElsewhere, SessionStatus
      <3>2. SessionCopies' = SessionCopies \cup {Elsewhere}
        BY <1>1, <2>1 DEF GetElsewhere, SessionCopies
      <3> QED
        BY <3>1, <3>2 DEF SessionRecord!Next, SessionRecord!Fetch
    <2>2. CASE TouchElsewhere
      <3>1. sess' \in {sess, Written}
        BY <2>2 DEF TouchElsewhere
      <3>2. SessionStatus' = SessionStatus \/ SessionStatus' = "live"
        BY <3>1 DEF SessionStatus, Written
      <3>3. Elsewhere \in SessionCopies /\ SessionCopies' = SessionCopies \ {Elsewhere}
        BY <1>1, <2>2, TokenAssumption DEF TouchElsewhere, SessionCopies
      <3> QED
        BY <3>2, <3>3 DEF SessionRecord!Next, SessionRecord!Discard, SessionRecord!WriteBack
    <2>3. CASE ~GetElsewhere /\ ~TouchElsewhere
      <3>1. held' = held /\ (sess' = sess \/ sess' # "live")
        BY <2>3 DEF LockExpire, LogoutTokens, LogoutSession, SessionIdles, SessionExpires, Age, vars,
                    stores, Deleted
      <3>2. SessionStatus' = SessionStatus \/ (SessionStatus = "live" /\ SessionStatus' = "ended")
        BY <3>1 DEF SessionStatus
      <3>3. SessionCopies' = SessionCopies
        BY <1>1, <3>1 DEF SessionCopies
      <3> QED
        BY <3>2, <3>3 DEF SessionRecord!Next, SessionRecord!End
    <2> QED
      BY <2>1, <2>2, <2>3
  <1> QED
    BY <1>2, <1>3

\* For every lock, with failing calls and crashes: a session or a token set comes back
\* only from a copy that was read before it ended (AccessToken, Logout, Get).
THEOREM RecordsFollowContract == Spec => RefreshKeepsRecords
  <1> DEFINE Kept == /\ [SessionRecord!Next]_<<SessionStatus, SessionCopies>>
                     /\ [TokenRecord!Next]_<<TokenStatus, TokenCopies>>
  <1>1. TypeOK /\ [Next]_vars => [Kept]_vars
    BY SessionCaller, TokensCaller, RecordsEnvironment DEF Next
  <1> QED
    BY <1>1, TypeCorrect, PTL DEF Spec, RefreshKeepsRecords
-----------------------------------------------------------------------------
(* The way to the unlock *)

\* The lock is free, or its owner is between Lock and unlock.
OwnerInv == lock = Free \/ \E c \in Callers : lock = c /\ pc[c] \in Critical

\* The owner of the in-process lock keeps it until it unlocks.
LEMMA OwnerStep ==
    ASSUME LockExpires = FALSE, TypeOK, LockInv, OwnerInv, [Next]_vars
    PROVE  OwnerInv'
  <1>0. ~Faults
    BY TokenAssumption
  <1>1. ASSUME NEW c \in Callers, Lock(c) PROVE OwnerInv'
    <2>1. lock' = c /\ pc'[c] = "locked"
      BY <1>1 DEF Lock, Goto, TypeOK
    <2> QED
      BY <2>1 DEF OwnerInv, Critical
  <1>2. ASSUME NEW c \in Callers, Unlock(c) PROVE OwnerInv'
    <2>1. lock = c
      BY <1>2 DEF Unlock, LockInv, Critical
    <2>2. lock' = Free
      BY <1>0, <1>2, <2>1 DEF Unlock, Freed
    <2> QED
      BY <2>2 DEF OwnerInv
  <1>3. ASSUME NEW c \in Callers, Step(c), ~Unlock(c) PROVE OwnerInv'
    <2>1. pc[c] \in Critical /\ pc'[c] \in Critical /\ lock' = lock
      BY <1>3 DEF Step, Reread, RefreshTokens, SessionExpiry, TouchSession, Persist, InvalidateTokens,
                  InvalidateSession, Finish, Goto, TypeOK, Critical
    <2>2. lock' = c
      BY <2>1 DEF LockInv
    <2> QED
      BY <2>1, <2>2 DEF OwnerInv
  <1>4. ASSUME NEW c \in Callers, Read(c) \/ LockFails(c) PROVE OwnerInv'
    <2>1. lock' = lock /\ pc[c] \notin Critical
      BY <1>0, <1>4 DEF Read, LockFails, Critical
    <2>2. \A d \in Callers \ {c} : pc'[d] = pc[d]
      BY <1>4 DEF Read, LockFails, Return, Goto, TypeOK
    <2> QED
      BY <2>1, <2>2 DEF OwnerInv
  <1>5. CASE \/ LockExpire \/ LogoutTokens \/ LogoutSession \/ GetElsewhere \/ TouchElsewhere
             \/ SessionIdles \/ SessionExpires \/ Age \/ UNCHANGED vars
    <2>1. UNCHANGED <<lock, pc>>
      BY <1>5 DEF LockExpire, LogoutTokens, LogoutSession, GetElsewhere, TouchElsewhere,
                  SessionIdles, SessionExpires, Age, vars, local
    <2> QED
      BY <2>1 DEF OwnerInv
  <1>6. \A c \in Callers : ~Crash(c)
    BY DEF Crash
  <1> QED
    BY <1>1, <1>2, <1>3, <1>4, <1>5, <1>6 DEF Next, AccessToken

\* The moves between Lock and unlock.
LEMMA CriticalMoves ==
    ASSUME TypeOK, NEW c \in Callers, Step(c)
    PROVE  <<pc[c], pc'[c]>> \in
             {<<"locked", "unlocking">>, <<"locked", "refreshing">>,
              <<"refreshing", "refreshed">>, <<"refreshing", "dropTokens">>,
              <<"refreshed", "touching">>, <<"refreshed", "persisting">>, <<"refreshed", "dropTokens">>,
              <<"touching", "persisting">>, <<"touching", "dropTokens">>,
              <<"persisting", "unlocking">>, <<"dropTokens", "dropSession">>,
              <<"dropSession", "unlocking">>, <<"unlocking", "idle">>}
  <1>0. \A label : Goto(c, label) => pc'[c] = label
    BY DEF Goto, TypeOK
  <1>1. CASE Reread(c) \/ RefreshTokens(c)
    BY <1>0, <1>1 DEF Reread, RefreshTokens, Finish
  <1>2. CASE SessionExpiry(c) \/ TouchSession(c)
    BY <1>0, <1>2 DEF SessionExpiry, TouchSession
  <1>3. CASE Persist(c) \/ InvalidateTokens(c) \/ InvalidateSession(c) \/ Unlock(c)
    BY <1>0, <1>3 DEF Persist, InvalidateTokens, InvalidateSession, Unlock, Finish
  <1> QED
    BY <1>1, <1>2, <1>3 DEF Step

\* With the in-process lock its owner is inside AccessToken and every step brings the
\* unlock nearer, for any number of callers (manager.go:61).
THEOREM UnlockAhead ==
    ASSUME LockExpires = FALSE
    PROVE  Spec => LockHandedOn
  <1> DEFINE Nearer == \A c \in Callers : pc[c] \in Critical =>
                         /\ Ahead[pc'[c]] <= Ahead[pc[c]]
                         /\ Step(c) => Ahead[pc'[c]] < Ahead[pc[c]]
  <1>1. Init => OwnerInv
    BY DEF Init, OwnerInv
  <1>2. TypeOK /\ LockInv /\ OwnerInv /\ [Next]_vars => OwnerInv'
    BY OwnerStep
  <1>3. TypeOK /\ [Next]_vars => [Nearer]_vars
    <2> SUFFICES ASSUME TypeOK, Next, NEW c \in Callers, pc[c] \in Critical
                 PROVE  /\ Ahead[pc'[c]] <= Ahead[pc[c]]
                        /\ Step(c) => Ahead[pc'[c]] < Ahead[pc[c]]
      OBVIOUS
    <2>0. /\ Ahead["idle"] = 0 /\ Ahead["unlocking"] = 1 /\ Ahead["dropSession"] = 2
          /\ Ahead["dropTokens"] = 3 /\ Ahead["persisting"] = 4 /\ Ahead["touching"] = 5
          /\ Ahead["refreshed"] = 6 /\ Ahead["refreshing"] = 7 /\ Ahead["locked"] = 8
      BY DEF Ahead
    <2>1. ASSUME Step(c) PROVE Ahead[pc'[c]] < Ahead[pc[c]]
      BY <2>0, <2>1, CriticalMoves
    <2>2. ASSUME ~Step(c) PROVE pc'[c] = pc[c]
      <3>1. ASSUME NEW d \in Callers, AccessToken(d) \/ Crash(d) PROVE pc'[c] = pc[c]
        <4>1. d # c
          BY <2>2, <3>1 DEF AccessToken, Read, Lock, LockFails, Crash, Critical
        <4> QED
          BY <3>1, <4>1, CallerMoves
      <3>2. CASE \/ LockExpire \/ LogoutTokens \/ LogoutSession \/ GetElsewhere \/ TouchElsewhere
                 \/ SessionIdles \/ SessionExpires \/ Age
        BY <3>2 DEF LockExpire, LogoutTokens, LogoutSession, GetElsewhere, TouchElsewhere,
                    SessionIdles, SessionExpires, Age, local
      <3> QED
        BY <3>1, <3>2 DEF Next
    <2>3. Ahead[pc[c]] \in Nat
      BY <2>0 DEF Critical
    <2>4. Ahead[pc'[c]] \in Nat
      <3>1. Step(c) => pc'[c] \in Critical \cup {"idle"}
        BY CriticalMoves DEF Critical
      <3> QED
        BY <2>0, <2>2, <2>3, <3>1 DEF Critical
    <2> QED
      BY <2>1, <2>2, <2>3, <2>4
  <1>4. LockHandedOn <=> []OwnerInv /\ [][Nearer]_vars
    BY DEF LockHandedOn, OwnerInv
  <1> QED
    BY <1>1, <1>2, <1>3, <1>4, ExclusiveInvariant, PTL DEF Spec
=============================================================================
