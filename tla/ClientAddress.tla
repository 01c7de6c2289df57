--------------------------- MODULE ClientAddress ---------------------------
(***************************************************************************)
(* middleware.ClientIdentity: the address a request is charged to.           *)
(*                                                                         *)
(* A client sends its request to the gateway or to the first of a chain of    *)
(* trusted proxies, with any X-Forwarded-For header it likes.  Each proxy      *)
(* appends the address it was called from and calls the next one; the gateway *)
(* sees the last caller as its peer.  The header is one line, as              *)
(* Header.Get reads only the first.                                          *)
(***************************************************************************)
EXTENDS Integers, Sequences, FiniteSetsExt

CONSTANTS
    Clients,    \* addresses outside BFF_TRUSTED_PROXY_CIDRS
    Proxies,    \* addresses inside it
    Junk,       \* a header entry that is not an address
    MaxForged,  \* bound: entries of the header a client sends
    MaxHops     \* bound: proxies between a client and the gateway

ASSUME AddressAssumption ==
    /\ Clients \cap Proxies = {}
    /\ Junk \notin Clients \cup Proxies
    /\ MaxForged \in Nat /\ MaxHops \in Nat

Entries == Clients \cup Proxies \cup {Junk}

isTrusted(a) == a \in Proxies

\* A mutant: the header is read from the left.
ClientIdentityLeft(peer, xff) ==
    LET usable == {i \in DOMAIN xff : xff[i] # Junk /\ ~isTrusted(xff[i])}
    IN  IF ~isTrusted(peer) \/ usable = {} THEN peer ELSE xff[Min(usable)]

\* The rightmost address of the header that is not a proxy's; the peer itself when it
\* is not trusted to set the header, or when the header names no such address.
ClientIdentity(peer, xff) ==
    LET usable == {i \in DOMAIN xff : xff[i] # Junk /\ ~isTrusted(xff[i])}
    IN  IF ~isTrusted(peer) \/ usable = {} THEN peer ELSE xff[Max(usable)]

Words(S, n) == UNION {[1..k -> S] : k \in 0..n}

\* The peer and the header the gateway sees when c sends header h through the chain.
Forwarded(c, h, chain) ==
    IF chain = <<>>
    THEN [peer |-> c, xff |-> h]
    ELSE [peer |-> chain[Len(chain)],
          xff |-> Append(h, c) \o SubSeq(chain, 1, Len(chain) - 1)]

\* Everything that can arrive: who sent it, and the address the gateway derives.
Arrivals ==
    {LET q == Forwarded(c, h, chain) IN [from |-> c, client |-> ClientIdentity(q.peer, q.xff)] :
        c \in Clients, h \in Words(Entries, MaxForged), chain \in Words(Proxies, MaxHops)}
=============================================================================
