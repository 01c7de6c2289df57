-------------------------- MODULE RateLimit_proofs --------------------------
(***************************************************************************)
(* The limiter for any number of clients, proxies and requests: its memory is *)
(* bounded, a request is charged to its sender, no bucket admits more than     *)
(* burst plus refill, and a drained bucket recovers.                          *)
(***************************************************************************)
EXTENDS RateLimit, FiniteSetTheorems, TLAPS

Tracked == DOMAIN buckets \cap Clients

\* The map holds at most MaxEntries clients, and besides them only the overflow key.
BoundInv ==
    /\ DOMAIN buckets \subseteq Keys
    /\ Cardinality(Tracked) <= MaxEntries

\* Adding an element adds at most one.
LEMMA AddOne ==
    ASSUME NEW S, NEW x, IsFiniteSet(S)
    PROVE  /\ IsFiniteSet(S \cup {x})
           /\ Cardinality(S \cup {x}) \in Nat
           /\ Cardinality(S \cup {x}) <= Cardinality(S) + 1
  <1>1. IsFiniteSet(S \cup {x})
    BY FS_AddElement
  <1>2. Cardinality(S \cup {x}) \in Nat /\ Cardinality(S) \in Nat
    BY <1>1, FS_CardinalityType
  <1>3. CASE x \in S
    <2>1. S \cup {x} = S
      BY <1>3
    <2> QED
      BY <1>1, <1>2, <2>1
  <1>4. CASE x \notin S
    <2>1. Cardinality(S \cup {x}) = Cardinality(S) + 1
      BY <1>4, FS_AddElement, Zenon
    <2> QED
      BY <1>1, <1>2, <2>1
  <1> QED
    BY <1>3, <1>4

\* Sets of keys are finite, and have one element more than their clients at most.
LEMMA KeySets ==
    ASSUME NEW S, S \subseteq Keys
    PROVE  /\ IsFiniteSet(S) /\ IsFiniteSet(S \cap Clients)
           /\ Cardinality(S) \in Nat /\ Cardinality(S \cap Clients) \in Nat
           /\ Cardinality(S \cap Clients) <= Cardinality(S)
           /\ Cardinality(S) <= Cardinality(S \cap Clients) + 1
  <1>1. IsFiniteSet(S) /\ IsFiniteSet(S \cap Clients)
    <2>1. IsFiniteSet(Keys)
      BY RateAssumption, FS_AddElement DEF Keys
    <2> QED
      BY <2>1, FS_Subset
  <1>2. Cardinality(S \cap Clients) <= Cardinality(S)
    BY <1>1, FS_Subset
  <1>3. Cardinality(S) \in Nat /\ Cardinality(S \cap Clients) \in Nat
    BY <1>1, FS_CardinalityType
  <1>4. Cardinality(S) <= Cardinality(S \cap Clients) + 1
    <2>1. Cardinality((S \cap Clients) \cup {Overflow}) <= Cardinality(S \cap Clients) + 1
      BY <1>1, AddOne
    <2>2. /\ S \subseteq (S \cap Clients) \cup {Overflow}
          /\ IsFiniteSet((S \cap Clients) \cup {Overflow})
      BY <1>1, FS_AddElement DEF Keys
    <2>3. Cardinality(S) <= Cardinality((S \cap Clients) \cup {Overflow})
      BY <2>2, FS_Subset
    <2>4. Cardinality((S \cap Clients) \cup {Overflow}) \in Nat
      BY <2>2, FS_CardinalityType
    <2> QED
      BY <1>3, <2>1, <2>3, <2>4
  <1> QED
    BY <1>1, <1>2, <1>3, <1>4

\* The critical section: a new client enters only below the limit.
LEMMA HandleStep ==
    ASSUME BoundInv, NEW r \in Requests, who[r] \in Clients, Handle(r)
    PROVE  BoundInv'
  <1> DEFINE k == Key(who[r])
             kept == Swept(at[r])
  <1>1. kept \subseteq DOMAIN buckets
    BY DEF Swept
  <1>2. DOMAIN buckets' = kept \cup {k}
    BY DEF Handle
  <1>3. k \in Keys
    BY DEF Key, Keys
  <1>4. DOMAIN buckets' \subseteq Keys
    BY <1>1, <1>2, <1>3 DEF BoundInv
  <1>5. /\ IsFiniteSet(Tracked) /\ Cardinality(Tracked) \in Nat
        /\ IsFiniteSet(Tracked') /\ Cardinality(Tracked') \in Nat
        /\ Cardinality(Tracked) <= Cardinality(DOMAIN buckets)
        /\ Cardinality(DOMAIN buckets) \in Nat
    BY <1>4, KeySets DEF BoundInv, Tracked
  <1> HIDE DEF kept, k
  <1>6. CASE k \in DOMAIN buckets \/ k = Overflow
    <2>1. Tracked' \subseteq Tracked
      BY <1>1, <1>2, <1>6, RateAssumption DEF Tracked
    <2>2. Cardinality(Tracked') <= Cardinality(Tracked)
      BY <1>5, <2>1, FS_Subset
    <2> QED
      BY <1>4, <1>5, <2>2, RateAssumption DEF BoundInv
  <1>7. CASE k \notin DOMAIN buckets /\ k # Overflow
    <2>1. Cardinality(DOMAIN buckets) < MaxEntries
      BY <1>5, <1>7, RateAssumption DEF Key, k
    <2>2. Tracked' \subseteq Tracked \cup {k}
      BY <1>1, <1>2 DEF Tracked
    <2>3. /\ IsFiniteSet(Tracked \cup {k})
          /\ Cardinality(Tracked \cup {k}) <= Cardinality(Tracked) + 1
          /\ Cardinality(Tracked \cup {k}) \in Nat
      BY <1>5, AddOne
    <2>4. Cardinality(Tracked') <= Cardinality(Tracked \cup {k})
      BY <2>2, <2>3, FS_Subset
    <2> QED
      BY <1>4, <1>5, <2>1, <2>3, <2>4, RateAssumption DEF BoundInv
  <1> QED
    BY <1>6, <1>7

\* A proper prefix, and what is appended to a sequence.
LEMMA PrefixOf ==
    ASSUME NEW S, NEW s \in Seq(S), NEW n \in Nat, n < Len(s)
    PROVE  SubSeq(s, 1, n) \in Seq(S) /\ Len(SubSeq(s, 1, n)) = n
  OBVIOUS

LEMMA Joined ==
    ASSUME NEW S, NEW P, P \subseteq S, NEW s \in Seq(S), NEW f \in Seq(P)
    PROVE  /\ s \o f \in Seq(S) /\ Len(s \o f) = Len(s) + Len(f)
           /\ \A i \in 1..Len(s) : (s \o f)[i] = s[i]
           /\ \A i \in (Len(s) + 1)..Len(s \o f) : (s \o f)[i] \in P
  <1>1. f \in Seq(S)
    OBVIOUS
  <1>2. s \o f \in Seq(S) /\ Len(s \o f) = Len(s) + Len(f)
    BY <1>1
  <1>3. \A i \in 1..Len(s) : (s \o f)[i] = s[i]
    BY <1>1
  <1>4. ASSUME NEW i \in (Len(s) + 1)..Len(s \o f) PROVE (s \o f)[i] \in P
    <2>1. (s \o f)[i] = f[i - Len(s)]
      BY <1>1, <1>2
    <2> QED
      BY <1>2, <2>1
  <1> QED
    BY <1>2, <1>3, <1>4

\* ClientIdentity undoes what the proxies did to the header: the rightmost address
\* that is not a proxy's is the one the first proxy appended.
LEMMA IdentityIsSender ==
    ASSUME NEW c \in Clients, NEW h \in Words(Entries, MaxForged),
           NEW chain \in Words(Proxies, MaxHops)
    PROVE  ClientIdentity(Forwarded(c, h, chain).peer, Forwarded(c, h, chain).xff) = c
  <1>1. h \in Seq(Entries) /\ chain \in Seq(Proxies)
    BY AddressAssumption DEF Words
  <1>2. CASE chain = <<>>
    BY <1>2, AddressAssumption DEF Forwarded, ClientIdentity, isTrusted
  <1>3. CASE chain # <<>>
    <2> DEFINE n == Len(h) + 1
               xff == Append(h, c) \o SubSeq(chain, 1, Len(chain) - 1)
               usable == {i \in DOMAIN xff : xff[i] # Junk /\ ~isTrusted(xff[i])}
    <2>1. Len(chain) \in Nat \ {0} /\ Len(h) \in Nat
      BY <1>1, <1>3
    <2>2. chain[Len(chain)] \in Proxies
      BY <1>1, <2>1
    <2> DEFINE sent == Append(h, c)
               front == SubSeq(chain, 1, Len(chain) - 1)
    <2>3. sent \in Seq(Entries) /\ Len(sent) = n /\ sent[n] = c
      BY <1>1 DEF Entries
    <2>4. front \in Seq(Proxies) /\ Len(front) = Len(chain) - 1
      <3>1. Len(chain) - 1 \in Nat /\ Len(chain) - 1 < Len(chain)
        BY <2>1
      <3> QED
        BY <1>1, <3>1, PrefixOf
    <2> HIDE DEF sent, front
    <2>5. /\ xff \in Seq(Entries)
          /\ xff[n] = c
          /\ n \in 1..Len(xff)
          /\ \A i \in (n + 1)..Len(xff) : xff[i] \in Proxies
      <3>1. xff = sent \o front /\ Proxies \subseteq Entries
        BY DEF sent, front, Entries
      <3> HIDE DEF xff
      <3>2. LET x == sent \o front
            IN  /\ x \in Seq(Entries) /\ Len(x) = Len(sent) + Len(front)
                /\ \A i \in 1..Len(sent) : x[i] = sent[i]
                /\ \A i \in (Len(sent) + 1)..Len(x) : x[i] \in Proxies
        BY <2>3, <2>4, <3>1, Joined, Zenon
      <3>3. /\ xff \in Seq(Entries) /\ Len(xff) = Len(sent) + Len(front)
            /\ \A i \in 1..Len(sent) : xff[i] = sent[i]
            /\ \A i \in (Len(sent) + 1)..Len(xff) : xff[i] \in Proxies
        BY <3>1, <3>2, Zenon
      <3> QED
        BY <2>1, <2>3, <2>4, <3>3
    <2>6. DOMAIN xff = 1..Len(xff)
      BY <2>5
    <2> HIDE DEF xff
    <2>7. n \in usable /\ \A i \in usable : i \in Int /\ i <= n
      BY <2>1, <2>5, <2>6, AddressAssumption DEF isTrusted
    <2>8. Max(usable) = n
      <3> HIDE DEF usable
      <3>1. Max(usable) \in usable /\ \A i \in usable : Max(usable) >= i
        BY <2>1, <2>7 DEF Max
      <3> QED
        BY <2>1, <2>7, <3>1
    <2>9. Forwarded(c, h, chain) = [peer |-> chain[Len(chain)], xff |-> xff]
      BY <1>3 DEF Forwarded, xff
    <2>10. ClientIdentity(chain[Len(chain)], xff) = xff[Max(usable)]
      BY <2>2, <2>7 DEF ClientIdentity, isTrusted
    <2> QED
      BY <2>5, <2>8, <2>9, <2>10
  <1> QED
    BY <1>2, <1>3

\* The address derived for a request is its sender's.
LEMMA DerivedIsSender ==
    ASSUME NEW q \in Arrivals
    PROVE  q.client = q.from /\ q.from \in Clients
  BY IdentityIsSender DEF Arrivals

\* docs/OPERATIONAL_SECURITY.md:41: for every header and every chain of trusted
\* proxies the bucket charged is the sender's.
THEOREM SenderCharged == Spec => []ChargedToSender
  <1> DEFINE Inv == /\ who \in [Requests -> Clients]
                    /\ sender = who
  <1>1. Init => Inv
    BY DEF Init
  <1>2. Inv /\ [Next]_vars => Inv'
    <2> SUFFICES ASSUME Inv, [Next]_vars PROVE Inv'
      OBVIOUS
    <2>1. ASSUME NEW r \in Requests, Arrive(r) PROVE Inv'
      BY <2>1, DerivedIsSender DEF Arrive
    <2>2. ASSUME NEW r \in Requests, Handle(r) PROVE Inv'
      BY <2>2 DEF Handle
    <2>3. CASE Tick \/ UNCHANGED vars
      BY <2>3 DEF Tick, vars
    <2> QED
      BY <2>1, <2>2, <2>3 DEF Next
  <1>3. Inv => ChargedToSender
    BY DEF ChargedToSender
  <1> QED
    BY <1>1, <1>2, <1>3, PTL DEF Spec

\* docs/OPERATIONAL_SECURITY.md:45: the number of buckets is bounded for every number
\* of clients, requests in flight, limit and clock reading.
THEOREM MemoryBounded == Spec => []BoundedBuckets
  <1> DEFINE WhoOK == who \in [Requests -> Clients]
             Inv == BoundInv /\ WhoOK
  <1>1. Init => Inv
    <2> SUFFICES ASSUME Init PROVE Inv
      OBVIOUS
    <2>1. DOMAIN buckets = {}
      BY DEF Init
    <2>2. Tracked = {} /\ Cardinality({}) = 0
      BY <2>1, FS_EmptySet DEF Tracked
    <2> QED
      BY <2>1, <2>2, RateAssumption DEF Init, BoundInv
  <1>2. Inv /\ [Next]_vars => Inv'
    <2> SUFFICES ASSUME Inv, [Next]_vars PROVE Inv'
      OBVIOUS
    <2>1. ASSUME NEW r \in Requests, Handle(r) PROVE Inv'
      BY <2>1, HandleStep DEF Handle
    <2>2. ASSUME NEW r \in Requests, Arrive(r) PROVE Inv'
      BY <2>2, DerivedIsSender DEF Arrive, BoundInv, Tracked
    <2>3. CASE Tick \/ UNCHANGED vars
      BY <2>3 DEF Tick, BoundInv, Tracked, vars
    <2> QED
      BY <2>1, <2>2, <2>3 DEF Next
  <1>3. Inv => BoundedBuckets
    BY KeySets, RateAssumption DEF BoundInv, BoundedBuckets, Tracked
  <1> HIDE DEF Inv
  <1> QED
    BY <1>1, <1>2, <1>3, PTL DEF Spec
-----------------------------------------------------------------------------
\* A full bucket, and enough idle time to refill one.
Full == Burst * Token
Enough == (IdleTTL - 2 * MaxStall) * Rate >= Full

\* The clock readings of requests waiting for the mutex are at most MaxStall old.
ClockInv ==
    /\ now \in 1..MaxTime
    /\ pc \in [Requests -> {"idle", "locking"}]
    /\ at \in [Requests -> Nat]
    /\ \A r \in Requests : pc[r] = "locking" => at[r] \in 1..now /\ now - MaxStall <= at[r]
    /\ since \in [1..(MaxTime + 1) -> Nat]

\* The watched bucket never goes further below zero than the longest stall explains.
DebtInv ==
    watched \in DOMAIN buckets =>
        /\ buckets[watched].level \in Int
        /\ buckets[watched].last \in 1..now
        /\ 0 - MaxStall * Rate <= buckets[watched].level
        /\ buckets[watched].last * Rate - now * Rate <= buckets[watched].level

\* What was admitted from a on is paid for: by the level that is left, while the bucket
\* is in the map, and by the time since a once a sweep has removed it.
PaidByTime(a) == since[a] * Token <= now * Rate - MaxStall * Rate - a * Rate
PaidByLevel(a) == since[a] * Token + buckets[watched].level
                     <= Full - a * Rate + buckets[watched].last * Rate

PaidInv ==
    \A a \in 1..MaxTime : since[a] > 0 =>
        IF watched \in DOMAIN buckets THEN PaidByLevel(a) ELSE PaidByTime(a)

\* The bound on every window, those that reach beyond the present included.
Windows ==
    \A a \in 1..MaxTime : \A b \in a..MaxTime :
        (since[a] - since[b + 1]) * Token <= Full + b * Rate - a * Rate

\* The constants as numbers, and the products the invariants are made of.
LEMMA Numbers ==
    /\ Token \in Nat \ {0} /\ Rate \in Nat \ {0} /\ Burst \in Nat \ {0}
    /\ IdleTTL \in Nat \ {0} /\ MaxStall \in Nat /\ MaxTime \in Nat \ {0}
    /\ Full \in Int /\ Full >= Token
    /\ MaxStall * Rate \in Nat /\ IdleTTL * Rate \in Nat
    /\ Enough => IdleTTL * Rate - 2 * (MaxStall * Rate) >= Full
  <1>1. /\ Token \in Nat \ {0} /\ Rate \in Nat \ {0} /\ Burst \in Nat \ {0}
        /\ IdleTTL \in Nat \ {0} /\ MaxStall \in Nat /\ MaxTime \in Nat \ {0}
    BY RateAssumption
  <1>2. Full \in Int /\ Full >= Token
    BY <1>1 DEF Full
  <1>3. MaxStall * Rate \in Nat /\ IdleTTL * Rate \in Nat
    BY <1>1
  <1>4. (IdleTTL - 2 * MaxStall) * Rate = IdleTTL * Rate - 2 * (MaxStall * Rate)
    BY <1>1
  <1> QED
    BY <1>1, <1>2, <1>3, <1>4 DEF Enough

LEMMA Products ==
    ASSUME NEW x \in Int, NEW y \in Int
    PROVE  /\ x * Rate \in Int /\ y * Rate \in Int
           /\ (x - y) * Rate = x * Rate - y * Rate
           /\ x <= y => x * Rate <= y * Rate
  <1>1. Rate \in Nat
    BY Numbers
  <1>2. /\ x * Rate \in Int /\ y * Rate \in Int
        /\ (x - y) * Rate = x * Rate - y * Rate
    BY <1>1
  <1>3. ASSUME x <= y PROVE x * Rate <= y * Rate
    <2>1. (y - x) * Rate >= 0
      BY <1>1, <1>3
    <2>2. (y - x) * Rate = y * Rate - x * Rate
      BY <1>1
    <2> QED
      BY <1>2, <2>1, <2>2
  <1> QED
    BY <1>2, <1>3

LEMMA TokenProducts ==
    ASSUME NEW x \in Int, NEW y \in Int
    PROVE  /\ x * Token \in Int /\ y * Token \in Int
           /\ (x + 1) * Token = x * Token + Token
           /\ x <= y => x * Token <= y * Token
  <1>1. Token \in Nat
    BY Numbers
  <1>2. /\ x * Token \in Int /\ y * Token \in Int
        /\ (x + 1) * Token = x * Token + Token
    BY <1>1
  <1>3. ASSUME x <= y PROVE x * Token <= y * Token
    <2>1. (y - x) * Token >= 0
      BY <1>1, <1>3
    <2>2. (y - x) * Token = y * Token - x * Token
      BY <1>1
    <2> QED
      BY <1>2, <2>1, <2>2
  <1> QED
    BY <1>2, <1>3

\* What was admitted by a bucket that a sweep removes is paid for by the time since.
LEMMA SweptIsPaid ==
    ASSUME ClockInv, DebtInv, PaidInv, Enough,
           NEW t \in 1..now, watched \notin Swept(t), NEW a \in 1..MaxTime, since[a] > 0
    PROVE  PaidByTime(a)
  <1>1. CASE watched \notin DOMAIN buckets
    BY <1>1 DEF PaidInv
  <1>2. CASE watched \in DOMAIN buckets
    <2> DEFINE level == buckets[watched].level
               last == buckets[watched].last
    <2>1. /\ level \in Int /\ last \in Int /\ t \in Int /\ now \in Int /\ t <= now
          /\ a \in Int /\ since[a] \in Int
      BY <1>2, Numbers DEF ClockInv, DebtInv
    <2>2. t - last >= IdleTTL
      BY <1>2, <2>1, Numbers DEF Swept
    <2>3. 0 - MaxStall * Rate <= level
      BY <1>2 DEF DebtInv
    <2>4. since[a] * Token + level <= Full - a * Rate + last * Rate
      BY <1>2 DEF PaidInv, PaidByLevel
    <2> HIDE DEF level, last
    <2>5. /\ IdleTTL * Rate <= t * Rate - last * Rate
          /\ t * Rate <= now * Rate
      BY <2>1, <2>2, Products, Numbers
    <2>6. /\ t * Rate \in Int /\ last * Rate \in Int /\ now * Rate \in Int /\ a * Rate \in Int
          /\ since[a] * Token \in Int
      BY <2>1, Products, TokenProducts
    <2> QED
      BY <2>1, <2>3, <2>4, <2>5, <2>6, Numbers DEF PaidByTime
  <1> QED
    BY <1>1, <1>2

\* What the critical section does to the watched bucket when it charges another one.
LEMMA OtherCharged ==
    ASSUME NEW r \in Requests, Handle(r), Key(who[r]) # watched
    PROVE  /\ since' = since /\ watched' = watched /\ now' = now
           /\ watched \in DOMAIN buckets' <=> watched \in Swept(at[r])
           /\ watched \in DOMAIN buckets' =>
                 watched \in DOMAIN buckets /\ buckets'[watched] = buckets[watched]
  BY DEF Handle, Swept

\* And when it charges the watched one: the level L it finds is at most what was left
\* plus the refill, and a token is taken exactly when there is one.
LEMMA WatchedCharged ==
    ASSUME ClockInv, DebtInv, NEW r \in Requests, Handle(r), Key(who[r]) = watched
    PROVE  LET t == at[r]
               L == Level(watched, Swept(t), t)
           IN  /\ t \in 1..now /\ now - MaxStall <= t
               /\ L \in Int /\ L <= Full /\ t * Rate - now * Rate <= L
               /\ watched' = watched /\ now' = now
               /\ watched \in DOMAIN buckets'
               /\ buckets'[watched] =
                     [level |-> IF L >= Token THEN L - Token ELSE L, last |-> t]
               /\ since' = IF L >= Token
                           THEN [u \in DOMAIN since |-> IF u <= t THEN since[u] + 1 ELSE since[u]]
                           ELSE since
               /\ watched \in Swept(t) =>
                     L <= buckets[watched].level + t * Rate - buckets[watched].last * Rate
               /\ watched \notin Swept(t) => L = Full
               /\ watched \in Swept(t) => watched \in DOMAIN buckets
  <1> DEFINE t == at[r]
             L == Level(watched, Swept(t), t)
  <1>1. t \in 1..now /\ now - MaxStall <= t
    BY DEF ClockInv, Handle
  <1>2. t * Rate \in Int /\ now * Rate \in Int /\ t * Rate <= now * Rate
    BY <1>1, Products DEF ClockInv
  <1>3. CASE watched \notin Swept(t)
    <2>1. L = Full
      BY <1>3 DEF Level, Full
    <2>2. t * Rate - now * Rate <= Full
      BY <1>2, Numbers
    <2> QED
      BY <1>1, <1>3, <2>1, <2>2, Numbers DEF Handle
  <1>4. CASE watched \in Swept(t)
    <2> DEFINE level == buckets[watched].level
               last == buckets[watched].last
               refilled == level + (t - last) * Rate
    <2>1. watched \in DOMAIN buckets
      BY <1>4 DEF Swept
    <2>2. level \in Int /\ last \in Int /\ last * Rate - now * Rate <= level
      BY <2>1 DEF DebtInv, ClockInv
    <2>3. L = IF refilled > Full THEN Full ELSE refilled
      BY <1>4 DEF Level, Cap, Full
    <2>4. /\ (t - last) * Rate = t * Rate - last * Rate
          /\ last * Rate \in Int
      <3>1. t \in Int
        BY <1>1 DEF ClockInv
      <3> HIDE DEF t, last
      <3> QED
        BY <2>2, <3>1, Products
    <2> HIDE DEF level, last, L
    <2>5. /\ L \in Int /\ L <= Full /\ t * Rate - now * Rate <= L
          /\ L <= level + t * Rate - last * Rate
      BY <1>2, <2>2, <2>3, <2>4, Numbers
    <2> QED
      BY <1>1, <1>4, <2>1, <2>5 DEF Handle, L, level, last
  <1> QED
    BY <1>3, <1>4

\* The critical section keeps the books.
LEMMA HandleClock ==
    ASSUME ClockInv, DebtInv, NEW r \in Requests, Handle(r)
    PROVE  ClockInv' /\ DebtInv'
  <1>1. now' = now /\ now \in 1..MaxTime
    BY DEF Handle, ClockInv
  <1>2. since' \in [1..(MaxTime + 1) -> Nat]
    <2>1. DOMAIN since' = DOMAIN since /\ \A u \in DOMAIN since : since'[u] \in {since[u], since[u] + 1}
      BY DEF Handle
    <2>2. since' = [u \in DOMAIN since' |-> since'[u]]
      BY DEF Handle, ClockInv
    <2> QED
      BY <2>1, <2>2 DEF ClockInv
  <1>3. ClockInv'
    <2>1. /\ pc' = [pc EXCEPT ![r] = "idle"] /\ at' = [at EXCEPT ![r] = 0]
      BY DEF Handle, Zero
    <2> QED
      BY <1>1, <1>2, <2>1 DEF ClockInv
  <1>4. DebtInv'
    <2>1. CASE Key(who[r]) # watched
      BY <1>1, <2>1, OtherCharged DEF DebtInv
    <2>2. CASE Key(who[r]) = watched
      <3> DEFINE t == at[r]
                 L == Level(watched, Swept(t), t)
                 M == IF L >= Token THEN L - Token ELSE L
      <3>1. /\ t \in 1..now /\ now - MaxStall <= t
            /\ L \in Int /\ t * Rate - now * Rate <= L
            /\ watched' = watched
            /\ buckets'[watched] = [level |-> M, last |-> t]
        BY <2>2, WatchedCharged
      <3> HIDE DEF L, t
      <3>2. /\ t * Rate <= now * Rate /\ (now - MaxStall) * Rate <= t * Rate
            /\ (now - MaxStall) * Rate = now * Rate - MaxStall * Rate
            /\ t * Rate \in Int /\ now * Rate \in Int
        <4>1. t \in Int /\ now \in Int /\ MaxStall \in Int /\ now - MaxStall \in Int
          BY <3>1, <1>1, Numbers
        <4>2. t * Rate <= now * Rate /\ t * Rate \in Int /\ now * Rate \in Int
          BY <3>1, <4>1, Products
        <4>3. (now - MaxStall) * Rate <= t * Rate
          <5> DEFINE u == now - MaxStall
          <5> HIDE DEF u
          <5>1. u \in Int /\ u <= t
            BY <3>1, <4>1 DEF u
          <5>2. u * Rate <= t * Rate
            BY <4>1, <5>1, Products
          <5> QED
            BY <5>2 DEF u
        <4>4. (now - MaxStall) * Rate = now * Rate - MaxStall * Rate
          BY <4>1, Products
        <4> QED
          BY <4>2, <4>3, <4>4
      <3>3. M \in Int /\ 0 - MaxStall * Rate <= M /\ t * Rate - now * Rate <= M
        BY <3>1, <3>2, Numbers
      <3> HIDE DEF M
      <3> QED
        BY <1>1, <3>1, <3>3 DEF DebtInv
    <2> QED
      BY <2>1, <2>2
  <1> QED
    BY <1>3, <1>4

LEMMA HandlePaid ==
    ASSUME ClockInv, DebtInv, PaidInv, Enough, NEW r \in Requests, Handle(r)
    PROVE  PaidInv'
  <1> SUFFICES ASSUME NEW a \in 1..MaxTime, since'[a] > 0
               PROVE  IF watched' \in DOMAIN buckets' THEN PaidByLevel(a)' ELSE PaidByTime(a)'
    BY DEF PaidInv
  <1> DEFINE t == at[r]
  <1>1. /\ t \in 1..now /\ now - MaxStall <= t /\ now \in 1..MaxTime
        /\ since[a] \in Nat
    <2>1. a \in 1..(MaxTime + 1)
      BY Numbers
    <2>2. t \in 1..now /\ now - MaxStall <= t
      BY DEF ClockInv, Handle
    <2> QED
      BY <2>1, <2>2 DEF ClockInv
  <1>2. CASE Key(who[r]) # watched
    <2>1. CASE watched \in DOMAIN buckets'
      BY <1>2, <2>1, OtherCharged DEF PaidInv, PaidByLevel
    <2>2. CASE watched \notin DOMAIN buckets'
      <3>1. watched \notin Swept(t) /\ since' = since /\ now' = now /\ watched' = watched
        BY <1>2, <2>2, OtherCharged
      <3>2. PaidByTime(a)
        BY <1>1, <3>1, SweptIsPaid
      <3> QED
        BY <2>2, <3>1, <3>2 DEF PaidByTime
    <2> QED
      BY <2>1, <2>2
  <1>3. CASE Key(who[r]) = watched
    <2> DEFINE L == Level(watched, Swept(t), t)
               level == buckets[watched].level
               last == buckets[watched].last
    <2>1. /\ L \in Int /\ L <= Full
          /\ watched' = watched /\ watched \in DOMAIN buckets'
          /\ buckets'[watched] = [level |-> IF L >= Token THEN L - Token ELSE L, last |-> t]
          /\ since' = IF L >= Token
                      THEN [u \in DOMAIN since |-> IF u <= t THEN since[u] + 1 ELSE since[u]]
                      ELSE since
          /\ watched \in Swept(t) => watched \in DOMAIN buckets /\ L <= level + t * Rate - last * Rate
          /\ watched \notin Swept(t) => L = Full
      BY <1>3, WatchedCharged
    <2>2. /\ t * Rate \in Int /\ a * Rate \in Int /\ now * Rate \in Int
          /\ a <= t => a * Rate <= t * Rate
          /\ now * Rate - MaxStall * Rate <= t * Rate
      <3>1. t \in Int /\ a \in Int /\ now \in Int /\ MaxStall \in Int /\ now - MaxStall \in Int
        BY <1>1, Numbers
      <3> HIDE DEF t
      <3> QED
        BY <1>1, <3>1, Products
    <2>3. /\ since[a] * Token \in Int
          /\ (since[a] + 1) * Token = since[a] * Token + Token
          /\ since[a] = 0 => since[a] * Token = 0
      BY <1>1, TokenProducts, Numbers
    <2>4. since'[a] = IF L >= Token /\ a <= t THEN since[a] + 1 ELSE since[a]
      <3>1. a \in DOMAIN since
        BY Numbers DEF ClockInv
      <3> QED
        BY <2>1, <3>1
    <2> HIDE DEF L, t
    <2>5. CASE since[a] > 0 /\ watched \notin Swept(t)
      <3>1. since[a] * Token <= now * Rate - MaxStall * Rate - a * Rate
        BY <1>1, <2>5, SweptIsPaid DEF PaidByTime
      <3>2. L = Full /\ L >= Token
        BY <2>1, <2>5, Numbers
      <3>3. since'[a] * Token <= since[a] * Token + Token
        BY <2>3, <2>4, <3>2, Numbers
      <3>4. since'[a] * Token + (L - Token) <= Full - a * Rate + t * Rate
        <4>1. since'[a] * Token \in Int
          BY <2>3, <2>4, <3>2, Numbers
        <4> QED
          BY <2>2, <2>3, <3>1, <3>2, <3>3, <4>1, Numbers
      <3> QED
        BY <2>1, <3>2, <3>4 DEF PaidByLevel
    <2>6. CASE since[a] > 0 /\ watched \in Swept(t)
      <3>1. since[a] * Token + level <= Full - a * Rate + last * Rate
        BY <2>1, <2>6 DEF PaidInv, PaidByLevel
      <3>2. level \in Int /\ last \in Int /\ last * Rate \in Int
        <4>1. level \in Int /\ last \in Int
          BY <2>1, <2>6 DEF DebtInv
        <4> HIDE DEF last
        <4> QED
          BY <4>1, Products
      <3>3. L <= level + t * Rate - last * Rate
        BY <2>1, <2>6
      <3> HIDE DEF level, last
      <3>4. CASE L >= Token
        <4>1. since'[a] * Token \in Int /\ since'[a] * Token <= since[a] * Token + Token
          BY <2>3, <2>4, Numbers
        <4>2. since'[a] * Token + (L - Token) <= Full - a * Rate + t * Rate
          BY <2>1, <2>2, <2>3, <3>1, <3>2, <3>3, <4>1, Numbers
        <4> QED
          BY <2>1, <3>4, <4>2 DEF PaidByLevel
      <3>5. CASE ~(L >= Token)
        <4>1. since'[a] = since[a]
          BY <2>4, <3>5
        <4>2. since[a] * Token + L <= Full - a * Rate + t * Rate
          BY <2>1, <2>2, <2>3, <3>1, <3>2, <3>3, Numbers
        <4> QED
          BY <2>1, <3>5, <4>1, <4>2 DEF PaidByLevel
      <3> QED
        BY <3>4, <3>5
    <2>7. CASE since[a] = 0
      <3>1. L >= Token /\ a <= t
        BY <2>4, <2>7
      <3>2. since'[a] * Token = Token
        BY <2>4, <2>7, <3>1, Numbers
      <3>3. Token + (L - Token) <= Full - a * Rate + t * Rate
        BY <2>1, <2>2, <3>1, Numbers
      <3> QED
        BY <2>1, <3>1, <3>2, <3>3 DEF PaidByLevel
    <2> QED
      BY <1>1, <2>5, <2>6, <2>7
  <1> QED
    BY <1>2, <1>3

\* A window is only lengthened by an admission inside it, which the bucket paid for.
LEMMA HandleWindows ==
    ASSUME ClockInv, DebtInv, PaidInv, Windows, Enough, NEW r \in Requests, Handle(r)
    PROVE  Windows'
  <1> SUFFICES ASSUME NEW a \in 1..MaxTime, NEW b \in a..MaxTime
               PROVE  (since'[a] - since'[b + 1]) * Token <= Full + b * Rate - a * Rate
    BY DEF Windows
  <1> DEFINE t == at[r]
             L == Level(watched, Swept(t), t)
  <1>1. (since[a] - since[b + 1]) * Token <= Full + b * Rate - a * Rate
    BY DEF Windows
  <1>2. CASE since' = since
    BY <1>1, <1>2
  <1>3. CASE since' # since
    <2>1. Key(who[r]) = watched
      BY <1>3, OtherCharged
    <2>2. /\ L \in Int /\ watched' = watched /\ watched \in DOMAIN buckets' /\ t \in 1..now
          /\ L >= Token /\ buckets'[watched] = [level |-> L - Token, last |-> t]
          /\ since' = [u \in DOMAIN since |-> IF u <= t THEN since[u] + 1 ELSE since[u]]
      BY <1>3, <2>1, WatchedCharged
    <2>3. /\ a \in DOMAIN since /\ b + 1 \in DOMAIN since /\ since[a] \in Nat /\ since[b + 1] \in Nat
          /\ t \in Int /\ a \in Int /\ b \in Int
      <3>1. a \in 1..(MaxTime + 1) /\ b + 1 \in 1..(MaxTime + 1) /\ a \in Int /\ b \in Int
        BY Numbers
      <3>2. t \in Int
        BY <2>2 DEF ClockInv
      <3>3. since \in [1..(MaxTime + 1) -> Nat]
        BY DEF ClockInv
      <3> HIDE DEF t
      <3> QED
        BY <3>1, <3>2, <3>3
    <2>4. /\ since'[a] = IF a <= t THEN since[a] + 1 ELSE since[a]
          /\ since'[b + 1] = IF b + 1 <= t THEN since[b + 1] + 1 ELSE since[b + 1]
      BY <2>2, <2>3
    <2> HIDE DEF t, L
    <2>5. CASE ~(a <= t /\ t <= b)
      <3>1. since'[a] - since'[b + 1] = since[a] - since[b + 1]
        BY <2>3, <2>4, <2>5
      <3> QED
        BY <1>1, <3>1
    <2>6. CASE a <= t /\ t <= b
      <3>1. PaidInv'
        BY HandlePaid
      <3>2. since'[a] * Token + (L - Token) <= Full - a * Rate + t * Rate
        BY <2>2, <2>3, <2>4, <2>6, <3>1 DEF PaidInv, PaidByLevel
      <3>3. /\ t * Rate <= b * Rate /\ t * Rate \in Int /\ b * Rate \in Int
            /\ a * Rate \in Int
        BY <2>3, <2>6, Products
      <3>4. /\ since'[a] \in Int /\ since'[b + 1] \in Nat
            /\ since'[a] - since'[b + 1] \in Int /\ since'[a] - since'[b + 1] <= since'[a]
        BY <2>3, <2>4
      <3>5. /\ (since'[a] - since'[b + 1]) * Token <= since'[a] * Token
            /\ (since'[a] - since'[b + 1]) * Token \in Int /\ since'[a] * Token \in Int
        BY <3>4, TokenProducts
      <3> QED
        BY <2>2, <3>2, <3>3, <3>5, Numbers
    <2> QED
      BY <2>5, <2>6
  <1> QED
    BY <1>2, <1>3

\* The inductive invariant of the limiter.
LimitInv ==
    /\ ClockInv
    /\ DebtInv
    /\ Enough => PaidInv /\ Windows

\* It holds initially: there is no bucket, and nothing was admitted.
LEMMA LimitInit == Init => LimitInv
  <1> SUFFICES ASSUME Init PROVE LimitInv
    OBVIOUS
  <1>1. ClockInv
    BY Numbers DEF Init, ClockInv, Zero
  <1>2. DebtInv
    BY DEF Init, DebtInv
  <1>3. PaidInv
    BY Numbers DEF Init, PaidInv
  <1>4. Windows
    <2> SUFFICES ASSUME NEW a \in 1..MaxTime, NEW b \in a..MaxTime
                 PROVE  (since[a] - since[b + 1]) * Token <= Full + b * Rate - a * Rate
      BY DEF Windows
    <2>1. since[a] = 0 /\ since[b + 1] = 0
      BY Numbers DEF Init
    <2>2. (0 - 0) * Token = 0
      BY Numbers
    <2>3. a * Rate <= b * Rate /\ a * Rate \in Int /\ b * Rate \in Int
      BY Numbers, Products
    <2> QED
      BY <2>1, <2>2, <2>3, Numbers
  <1> QED
    BY <1>1, <1>2, <1>3, <1>4 DEF LimitInv

\* Every step keeps it.
LEMMA LimitStep == LimitInv /\ [Next]_vars => LimitInv'
  <1> SUFFICES ASSUME LimitInv, [Next]_vars PROVE LimitInv'
    OBVIOUS
  <1>1. ASSUME NEW r \in Requests, Handle(r) PROVE LimitInv'
    BY <1>1, HandleClock, HandlePaid, HandleWindows DEF LimitInv, Enough, Full
  <1>2. ASSUME NEW r \in Requests, Arrive(r) PROVE LimitInv'
    <2>1. UNCHANGED <<now, buckets, watched, since>>
      BY <1>2 DEF Arrive
    <2>2. pc' = [pc EXCEPT ![r] = "locking"] /\ at' = [at EXCEPT ![r] = now]
      BY <1>2 DEF Arrive
    <2>3. ClockInv'
      BY <2>1, <2>2, Numbers DEF ClockInv, LimitInv
    <2>4. DebtInv' /\ (Enough => PaidInv' /\ Windows')
      BY <2>1 DEF LimitInv, DebtInv, PaidInv, PaidByLevel, PaidByTime, Windows
    <2> QED
      BY <2>3, <2>4 DEF LimitInv, Enough, Full
  <1>3. CASE Tick
    <2>1. UNCHANGED <<buckets, watched, since, pc, at>> /\ now' = now + 1 /\ now < MaxTime
      BY <1>3 DEF Tick
    <2>2. ClockInv'
      <3>1. \A r \in Requests : pc[r] = "locking" => now < at[r] + MaxStall
        BY <1>3 DEF Tick
      <3> QED
        BY <2>1, <3>1, Numbers DEF ClockInv, LimitInv
    <2>3. now \in Int /\ now * Rate \in Int /\ now' * Rate \in Int /\ now * Rate <= now' * Rate
      <3>1. now \in Int /\ now' \in Int /\ now <= now'
        BY <2>1 DEF ClockInv, LimitInv
      <3> QED
        BY <3>1, Products
    <2>4. DebtInv'
      <3> SUFFICES ASSUME watched \in DOMAIN buckets
                   PROVE  /\ buckets[watched].level \in Int
                          /\ buckets[watched].last \in 1..now'
                          /\ 0 - MaxStall * Rate <= buckets[watched].level
                          /\ buckets[watched].last * Rate - now' * Rate <= buckets[watched].level
        BY <2>1 DEF DebtInv
      <3>1. /\ buckets[watched].level \in Int
            /\ buckets[watched].last \in 1..now
            /\ 0 - MaxStall * Rate <= buckets[watched].level
            /\ buckets[watched].last * Rate - now * Rate <= buckets[watched].level
        BY DEF LimitInv, DebtInv
      <3>2. buckets[watched].last * Rate \in Int
        <4> DEFINE last == buckets[watched].last
        <4>1. last \in Int
          BY <3>1, <2>3
        <4> HIDE DEF last
        <4>2. last * Rate \in Int
          BY <4>1, Products
        <4> QED
          BY <4>2 DEF last
      <3> QED
        BY <2>1, <2>3, <3>1, <3>2
    <2>5. ASSUME Enough PROVE PaidInv'
      <3> SUFFICES ASSUME NEW a \in 1..MaxTime, since[a] > 0
                   PROVE  IF watched \in DOMAIN buckets THEN PaidByLevel(a) ELSE PaidByTime(a)'
        BY <2>1 DEF PaidInv, PaidByLevel
      <3>1. CASE watched \in DOMAIN buckets
        BY <2>5, <3>1 DEF LimitInv, PaidInv
      <3>2. CASE watched \notin DOMAIN buckets
        <4>1. since[a] * Token <= now * Rate - MaxStall * Rate - a * Rate
          BY <2>5, <3>2 DEF LimitInv, PaidInv, PaidByTime
        <4>2. a * Rate \in Int /\ since[a] * Token \in Int
          <5>1. a \in Int /\ since[a] \in Int
            BY Numbers DEF LimitInv, ClockInv
          <5> QED
            BY <5>1, Products, TokenProducts
        <4>3. since[a] * Token <= now' * Rate - MaxStall * Rate - a * Rate
          BY <2>3, <4>1, <4>2, Numbers
        <4> QED
          BY <2>1, <3>2, <4>3 DEF PaidByTime
      <3> QED
        BY <3>1, <3>2
    <2>6. ASSUME Enough PROVE Windows'
      BY <2>1, <2>6 DEF LimitInv, Windows
    <2> QED
      BY <2>2, <2>4, <2>5, <2>6 DEF LimitInv, Enough, Full
  <1>4. CASE UNCHANGED vars
    BY <1>4 DEF vars, LimitInv, ClockInv, DebtInv, PaidInv, PaidByLevel, PaidByTime, Windows,
                Enough, Full
  <1> QED
    BY <1>1, <1>2, <1>3, <1>4 DEF Next

\* The token bucket's promise for every rate, burst, idle time, number of requests and
\* order of their clock readings: a window admits burst plus refill at most, if the idle
\* time of a sweep is enough to refill a bucket.
THEOREM WindowsBounded == Spec => []WindowBound
  <1>1. LimitInv => WindowBound
    <2> SUFFICES ASSUME LimitInv, Enough, NEW a \in 1..now, NEW b \in a..now
                 PROVE  Admissions(a, b) * Token <= Burst * Token + (b - a) * Rate
      BY DEF WindowBound, Enough, Full
    <2>1. a \in 1..MaxTime /\ b \in a..MaxTime /\ a \in Int /\ b \in Int
      BY Numbers DEF LimitInv, ClockInv
    <2>2. (since[a] - since[b + 1]) * Token <= Full + b * Rate - a * Rate
      BY <2>1 DEF LimitInv, Windows
    <2>3. (b - a) * Rate = b * Rate - a * Rate /\ a * Rate \in Int /\ b * Rate \in Int
      BY <2>1, Products
    <2>4. Full + b * Rate - a * Rate = Full + (b - a) * Rate
      BY <2>3, Numbers
    <2> QED
      BY <2>2, <2>4 DEF Admissions, Full
  <1> QED
    BY <1>1, LimitInit, LimitStep, PTL DEF Spec

\* A bucket that late readings drained below zero recovers, for every rate and stall.
THEOREM DrainedRecovers == Spec => PatientAdmitted
  <1> DEFINE Patient(r) ==
               (/\ pc[r] = "locking" /\ pc'[r] = "idle"
                /\ Key(who[r]) = watched
                /\ watched \in DOMAIN buckets
                /\ (at[r] - buckets[watched].last) * Rate >= Token + MaxStall * Rate)
                  => since'[at[r]] > since[at[r]]
  <1>1. LimitInv /\ [Next]_vars => [\A r \in Requests : Patient(r)]_vars
    <2> SUFFICES ASSUME LimitInv, Next, NEW r \in Requests,
                        pc[r] = "locking", pc'[r] = "idle",
                        Key(who[r]) = watched,
                        watched \in DOMAIN buckets,
                        (at[r] - buckets[watched].last) * Rate >= Token + MaxStall * Rate
                 PROVE  since'[at[r]] > since[at[r]]
      BY DEF vars
    <2>1. Handle(r)
      <3>1. pc \in [Requests -> {"idle", "locking"}]
        BY DEF LimitInv, ClockInv
      <3>2. ~Tick
        BY DEF Tick
      <3>3. ASSUME NEW q \in Requests PROVE ~Arrive(q)
        BY <3>1, <3>3 DEF Arrive
      <3>4. ASSUME NEW q \in Requests, Handle(q) PROVE q = r
        BY <3>1, <3>4 DEF Handle
      <3> QED
        BY <3>2, <3>3, <3>4 DEF Next
    <2> DEFINE t == at[r]
               L == Level(watched, Swept(t), t)
               level == buckets[watched].level
               refill == (t - buckets[watched].last) * Rate
    <2>2. /\ t \in 1..now /\ now \in 1..MaxTime
          /\ since' = IF L >= Token
                      THEN [u \in DOMAIN since |-> IF u <= t THEN since[u] + 1 ELSE since[u]]
                      ELSE since
      BY <2>1, WatchedCharged DEF LimitInv, ClockInv
    <2>3. L >= Token
      <3>1. level \in Int /\ 0 - MaxStall * Rate <= level
        BY DEF LimitInv, DebtInv
      <3>2. refill \in Int
        BY <2>2, Numbers DEF LimitInv, DebtInv
      <3>3. L \in {Full, level + refill}
        BY DEF Level, Cap, Full
      <3> HIDE DEF level, refill, L
      <3>4. refill >= Token + MaxStall * Rate
        BY DEF refill
      <3> QED
        BY <3>1, <3>2, <3>3, <3>4, Numbers
    <2>4. t \in DOMAIN since /\ since[t] \in Nat /\ t <= t
      <3>1. t \in 1..(MaxTime + 1) /\ t <= t
        BY <2>2, Numbers
      <3>2. since \in [1..(MaxTime + 1) -> Nat]
        BY DEF LimitInv, ClockInv
      <3> HIDE DEF t
      <3> QED
        BY <3>1, <3>2
    <2> HIDE DEF L, t
    <2>5. since'[t] = since[t] + 1
      BY <2>2, <2>3, <2>4
    <2>6. since'[t] > since[t]
      BY <2>4, <2>5
    <2> QED
      BY <2>6 DEF t
  <1>2. Spec => [][\A r \in Requests : Patient(r)]_vars
    BY <1>1, LimitInit, LimitStep, PTL DEF Spec
  <1> QED
    BY <1>2 DEF PatientAdmitted
=============================================================================
