----------------------------- MODULE RateLimit -----------------------------
(***************************************************************************)
(* middleware.RateLimit: one token bucket per client address, at most        *)
(* MaxEntries of them plus a shared overflow bucket, and a sweep of idle      *)
(* buckets.  A request reads the clock before it takes the mutex, so that     *)
(* requests may be handled out of the order of their clock readings and time  *)
(* goes backwards for the bucket; the rest is one critical section.           *)
(*                                                                         *)
(* Levels are integers: one token is Token units and a tick refills Rate      *)
(* units, which represents every rational RatePerSecond exactly.  Requests on  *)
(* operational paths or outside PathSuffixes never get here.                  *)
(***************************************************************************)
EXTENDS ClientAddress

CONSTANTS
    Requests,    \* handlers at work
    Overflow,    \* the key "__overflow__"
    Token,       \* units in one token
    Rate,        \* RatePerSecond, in units per tick
    Burst,       \* Burst, in tokens
    IdleTTL,     \* IdleTTL, in ticks
    MaxEntries,  \* MaxEntries
    MaxStall,    \* bound: ticks between a request's clock reading and its mutex
    MaxTime      \* bound on the clock

ASSUME RateAssumption ==
    /\ Overflow \notin Clients \cup Proxies
    /\ {Token, Rate, Burst, IdleTTL, MaxEntries} \subseteq Nat \ {0}
    /\ MaxStall \in Nat /\ MaxTime \in Nat \ {0}
    /\ IsFiniteSet(Clients)

Keys == Clients \cup {Overflow}
Zero == 0

VARIABLES
    now,        \* the clock; it starts after the zero time
    buckets,    \* the map: level and last of every key it has
    lastSweep,  \* the time of the last sweep, Zero before the first
    pc,         \* "idle", or "locking" between the clock reading and the mutex
    at,         \* the request's clock reading, Zero while idle
    who,        \* the client address derived from the request
    sender,     \* history: the client that sent it
    watched,    \* history: the key whose admissions are counted
    since       \* history: its admissions with a clock reading of t or later, for each t

vars == <<now, buckets, lastSweep, pc, at, who, sender, watched, since>>

Init ==
    /\ now = 1
    /\ buckets = [k \in {} |-> <<>>]
    /\ lastSweep = Zero
    /\ pc = [r \in Requests |-> "idle"]
    /\ at = [r \in Requests |-> Zero]
    /\ who \in [Requests -> Clients]
    /\ sender = who
    /\ watched \in Keys
    /\ since = [t \in 1..(MaxTime + 1) |-> 0]
-----------------------------------------------------------------------------
\* The request reads the clock and derives its key.
Arrive(r) ==
    /\ pc[r] = "idle"
    /\ pc' = [pc EXCEPT ![r] = "locking"]
    /\ at' = [at EXCEPT ![r] = now]
    /\ \E q \in Arrivals : /\ who' = [who EXCEPT ![r] = q.client]
                          /\ sender' = [sender EXCEPT ![r] = q.from]
    /\ UNCHANGED <<now, buckets, lastSweep, watched, since>>

\* A mutant: off by one at the limit.
KeyLate(c) ==
    IF c \notin DOMAIN buckets /\ Cardinality(DOMAIN buckets) > MaxEntries THEN Overflow ELSE c

\* A client without a bucket shares the overflow bucket when the map is full.
Key(c) ==
    IF c \notin DOMAIN buckets /\ Cardinality(DOMAIN buckets) >= MaxEntries THEN Overflow ELSE c

\* A mutant: every sweep forgets every bucket.
SweptAll(t) == {}

\* The keys that the sweep of a request with clock reading t keeps.
Swept(t) ==
    IF lastSweep = Zero \/ t - lastSweep >= IdleTTL
    THEN {k \in DOMAIN buckets : t - buckets[k].last < IdleTTL}
    ELSE DOMAIN buckets

Cap(level) == IF level > Burst * Token THEN Burst * Token ELSE level

\* A mutant: a known bucket is not refilled.
LevelFixed(k, kept, t) == IF k \in kept THEN buckets[k].level ELSE Burst * Token

\* The level of bucket k at time t: full when new, else refilled for the time since
\* its last use, which is negative when an earlier reading comes late.
Level(k, kept, t) ==
    IF k \in kept THEN Cap(buckets[k].level + (t - buckets[k].last) * Rate)
                  ELSE Burst * Token

\* The critical section.
Handle(r) ==
    LET t == at[r]
        k == Key(who[r])
        kept == Swept(t)
        level == Level(k, kept, t)
        allowed == level >= Token
    IN  /\ pc[r] = "locking"
        /\ lastSweep' = IF lastSweep = Zero \/ t - lastSweep >= IdleTTL THEN t ELSE lastSweep
        /\ buckets' = [q \in kept \cup {k} |->
                          IF q = k
                          THEN [level |-> IF allowed THEN level - Token ELSE level, last |-> t]
                          ELSE buckets[q]]
        /\ since' = IF allowed /\ k = watched
                    THEN [u \in DOMAIN since |-> IF u <= t THEN since[u] + 1 ELSE since[u]]
                    ELSE since
        /\ pc' = [pc EXCEPT ![r] = "idle"]
        /\ at' = [at EXCEPT ![r] = Zero]
        /\ UNCHANGED <<now, who, sender, watched>>

\* Time passes.  A request that has read the clock gets the mutex within MaxStall.
Tick ==
    /\ now < MaxTime
    /\ \A r \in Requests : pc[r] = "locking" => now < at[r] + MaxStall
    /\ now' = now + 1
    /\ UNCHANGED <<buckets, lastSweep, pc, at, who, sender, watched, since>>

Next == Tick \/ \E r \in Requests : Arrive(r) \/ Handle(r)

Spec == Init /\ [][Next]_vars
-----------------------------------------------------------------------------
\* The type invariant.
TypeOK ==
    /\ now \in Nat \ {0}
    /\ DOMAIN buckets \subseteq Keys
    /\ \A k \in DOMAIN buckets : buckets[k] \in [level : Int, last : Nat]
    /\ lastSweep \in Nat
    /\ pc \in [Requests -> {"idle", "locking"}]
    /\ at \in [Requests -> Nat]
    /\ who \in [Requests -> Clients]

\* docs/OPERATIONAL_SECURITY.md:45 "The limiter keeps at most 10,000 source-IP
\* buckets": whatever sweeps and insertions do, at most MaxEntries client buckets
\* and one overflow bucket exist.
BoundedBuckets ==
    /\ Cardinality(DOMAIN buckets \cap Clients) <= MaxEntries
    /\ Cardinality(DOMAIN buckets) <= MaxEntries + 1

\* The admissions of the watched bucket with a clock reading in a..b.
Admissions(a, b) == since[a] - since[b + 1]

\* What a token bucket promises, for each bucket of the map and every interval of
\* clock readings: at most Burst requests plus the refill of the interval.  Late
\* readings do not add to it, nor do sweeps, as long as IdleTTL is enough for a full
\* refill (ten minutes are, for every default limit).
WindowBound ==
    (IdleTTL - 2 * MaxStall) * Rate >= Burst * Token =>
    \A a \in 1..now : \A b \in a..now :
        Admissions(a, b) * Token <= Burst * Token + (b - a) * Rate

\* A bucket drained below zero by late readings recovers: a request whose bucket was
\* last used long enough ago for one token and the longest stall is admitted.
PatientAdmitted ==
    [][\A r \in Requests :
          (/\ pc[r] = "locking" /\ pc'[r] = "idle"
           /\ Key(who[r]) = watched
           /\ watched \in DOMAIN buckets
           /\ (at[r] - buckets[watched].last) * Rate >= Token + MaxStall * Rate)
             => since'[at[r]] > since[at[r]]]_vars

\* docs/OPERATIONAL_SECURITY.md:41 "Client IP is derived only from X-Forwarded-For when
\* the immediate proxy is inside BFF_TRUSTED_PROXY_CIDRS": whatever header a client
\* sends, directly or through any chain of trusted proxies, its request is charged to
\* its own bucket, neither to another client's nor to a proxy's.
ChargedToSender == \A r \in Requests : pc[r] = "locking" => who[r] = sender[r]
=============================================================================
