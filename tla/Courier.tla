------------------------------ MODULE Courier ------------------------------
(***************************************************************************)
(* What inkpipe promises to the person who photographs a page: whatever    *)
(* fails on the way, the page is still on the phone to be sent, or waits   *)
(* on the server, or is in a committed note, or was given up on purpose by *)
(* revoking the phone it came from.  Delivery implements this module.      *)
(***************************************************************************)

CONSTANT Page

VARIABLES
    captured,  \* every page ever photographed
    kept,      \* the pages the phone still means to send
    queued,    \* the pages waiting on the server
    noted,     \* the pages in a committed note
    dropped    \* the pages discarded with a revoked phone

vars == <<captured, kept, queued, noted, dropped>>

Delivered == queued \cup noted \cup dropped

TypeOK ==
    /\ captured \subseteq Page
    /\ kept \subseteq captured
    /\ Delivered \subseteq captured

NothingLost == captured \subseteq kept \cup Delivered

Init ==
    /\ captured = {}
    /\ kept = {}
    /\ queued = {}
    /\ noted = {}
    /\ dropped = {}

Capture(p) ==
    /\ p \notin captured
    /\ captured' = captured \cup {p}
    /\ kept' = kept \cup {p}
    /\ UNCHANGED <<queued, noted, dropped>>

\* The server may be handed a page again, even one that is in a note.
Deposit(p) ==
    /\ p \in captured \ queued
    /\ queued' = queued \cup {p}
    /\ UNCHANGED <<captured, kept, noted, dropped>>

\* The phone stops meaning to send a page only when it has arrived.
Settle(p) ==
    /\ p \in kept \cap Delivered
    /\ kept' = kept \ {p}
    /\ UNCHANGED <<captured, queued, noted, dropped>>

\* A failed second attempt makes the phone mean to send a page again.
Recall(p) ==
    /\ p \in captured
    /\ kept' = kept \cup {p}
    /\ UNCHANGED <<captured, queued, noted, dropped>>

\* A note is made only of pages that were delivered, and is never unmade.
Note(S) ==
    /\ S \subseteq Delivered
    /\ noted' = noted \cup S
    /\ UNCHANGED <<captured, kept, queued, dropped>>

\* The server lets go of a page only once it is in a note...
Release(S) ==
    /\ S \subseteq queued \cap noted
    /\ queued' = queued \ S
    /\ UNCHANGED <<captured, kept, noted, dropped>>

\* ...or when the owner revokes the phone it came from.
Drop(S) ==
    /\ S \subseteq queued
    /\ queued' = queued \ S
    /\ dropped' = dropped \cup S
    /\ UNCHANGED <<captured, kept, noted>>

Next ==
    \/ \E p \in Page : Capture(p) \/ Deposit(p) \/ Settle(p) \/ Recall(p)
    \/ \E S \in SUBSET Page : Note(S) \/ Release(S) \/ Drop(S)

Spec == Init /\ [][Next]_vars
=============================================================================
