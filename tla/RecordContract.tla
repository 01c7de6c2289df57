--------------------------- MODULE RecordContract ---------------------------
(***************************************************************************)
(* What the gateway may rely on a store of sessions or of token sets for.   *)
(* A record is created once and ends: by logout, expiry, idleness or a       *)
(* failed refresh.  While a client that fetched the record still holds a     *)
(* copy, it may write the copy back and the record lives again; once nobody  *)
(* holds a copy, an ended record has ended for good.                         *)
(***************************************************************************)
CONSTANT Clients

VARIABLES
    status,  \* "none", "live" or "ended"
    copies   \* the clients that hold a copy of the record

Init == status = "none" /\ copies = {}

Create ==
    /\ status = "none"
    /\ status' = "live"
    /\ UNCHANGED copies

\* The record ends, or is never created after all.
End ==
    /\ status # "ended"
    /\ status' = "ended"
    /\ UNCHANGED copies

Fetch(c) ==
    /\ status = "live"
    /\ copies' = copies \cup {c}
    /\ UNCHANGED status

\* The client is done with its copy, and may end the record with it.
Discard(c) ==
    /\ c \in copies
    /\ copies' = copies \ {c}
    /\ status' = status \/ (status = "live" /\ status' = "ended")

WriteBack(c) ==
    /\ c \in copies
    /\ copies' = copies \ {c}
    /\ status' = "live"

Next == Create \/ End \/ \E c \in Clients : Fetch(c) \/ Discard(c) \/ WriteBack(c)

Spec == Init /\ [][Next]_<<status, copies>>
=============================================================================
