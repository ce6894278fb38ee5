------------------------------ MODULE MailBox ------------------------------
(***************************************************************************)
(* What the queue server promises to the phone and to the desktop, with    *)
(* nothing of how it keeps the promise: no tables, no files, no requests.  *)
(* A box holds pages; each page in it belongs to one account and came from *)
(* one device.  BlobQueue is the server as it is written, and implements   *)
(* this module.                                                            *)
(***************************************************************************)

CONSTANTS
    Blob,      \* page identifiers chosen by the phones
    Device,    \* device identifiers
    Account,   \* account identifiers
    Nothing    \* the content of an empty place

VARIABLES
    box,       \* what lies in each place: Nothing, or whose page it is
    old,       \* the pages that have outlived the retention period
    asking     \* the accounts whose desktop is being served

vars == <<box, old, asking>>

Sealed == [account : Account, from : Device]
Held == {b \in Blob : box[b] # Nothing}
HeldFor(a) == {b \in Held : box[b].account = a}

TypeOK ==
    /\ box \in [Blob -> Sealed \cup {Nothing}]
    /\ old \subseteq Blob
    /\ asking \subseteq Account

Init ==
    /\ box = [b \in Blob |-> Nothing]
    /\ old = {}
    /\ asking = {}

Empty(S) ==
    /\ box' = [b \in Blob |-> IF b \in S THEN Nothing ELSE box[b]]
    /\ old' = old \ S
    /\ asking' \subseteq asking

\* A page is put into an empty place and never over another one.
Deposit(b, p) ==
    /\ b \notin Held
    /\ box' = [box EXCEPT ![b] = p]
    /\ old' = old \ {b}
    /\ asking' \subseteq asking

\* The desktop of an account is being served: it takes pages of that account,
\* and of no other.
Take(a, S) ==
    /\ a \in asking
    /\ S \subseteq HeldFor(a)
    /\ Empty(S)

\* Pages that outlived the retention period may be dropped.
Expire(S) ==
    /\ S \subseteq old
    /\ Empty(S)

\* A desktop revokes a device of its account, and every page the device sent that
\* nobody took goes with it.
DropDevice(a, d) ==
    /\ a \in asking
    /\ \A b \in Held : box[b].from = d => box[b].account = a
    /\ Empty({b \in Held : box[b].from = d})

\* A desktop asks for something.
Ask(a) ==
    /\ asking' = asking \cup {a}
    /\ UNCHANGED <<box, old>>

\* Desktops are answered, or time passes: held pages may have become old.
Rest ==
    /\ old \subseteq old'
    /\ old' \subseteq old \cup Held
    /\ asking' \subseteq asking
    /\ UNCHANGED box

Next ==
    \/ \E b \in Blob, p \in Sealed : Deposit(b, p)
    \/ \E a \in Account, S \in SUBSET Blob : Take(a, S)
    \/ \E S \in SUBSET Blob : Expire(S)
    \/ \E a \in Account, d \in Device : DropDevice(a, d)
    \/ \E a \in Account : Ask(a)
    \/ Rest

Spec == Init /\ [][Next]_vars
=============================================================================
