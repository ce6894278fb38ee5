----------------------------- MODULE BlobQueue -----------------------------
(***************************************************************************)
(* The queue server: apps/server/src/server.ts and the Store under it,     *)
(* apps/server/src/db.ts.                                                  *)
(*                                                                         *)
(* Four SQLite tables and a directory of ciphertext files.  The server is  *)
(* one JavaScript thread: a handler runs to its end once it has started,   *)
(* but the preHandler that authenticates a request and the handler itself  *)
(* are two steps, and handlers of other requests may run in between.  The  *)
(* process may die at any statement; what was written to the database and  *)
(* to the directory before that stays.                                     *)
(*                                                                         *)
(* Left out: signatures and their clock skew (a request that fails them    *)
(* changes nothing), the join token (likewise), labels, last_seen_at, and  *)
(* the session and sequence number a row carries for the desktop.          *)
(***************************************************************************)
EXTENDS Integers, FiniteSets, FiniteSetsExt

CONSTANTS
    Account, Device, Key, ContentKey, Token, Blob,
    NoDevice, NoPairing, NoRow, NoFile, NoKey,
    MaxBlobBytes,       \* LIMITS.maxBlobBytes
    MaxBytesPerDevice,  \* LIMITS.maxBytesPerDevice
    Retention,          \* LIMITS.retentionDays, in ticks of the clock
    Ttl,                \* the times to live a desktop may ask a token for
    MaxClock            \* bound of the model: the clock stops there

ASSUME LimitsAssumption ==
    /\ MaxBlobBytes \in Nat \ {0}
    /\ MaxBytesPerDevice \in Nat
    /\ Retention \in Nat
    /\ Ttl \subseteq Nat \ {0}
    /\ MaxClock \in Nat

DeviceRow == [account : Account, role : {"phone", "pc"}, key : Key,
              content : ContentKey \cup {NoKey}]
PairingRow == [account : Account, expires : Nat, used : BOOLEAN]
BlobRow == [account : Account, from : Device, size : 1 .. MaxBlobBytes, created : Nat]
\* A ciphertext is known by who sealed it, how long it is and when it was written.
Ciphertext == [by : Device, size : 1 .. MaxBlobBytes, written : Nat]
\* request.device, as the preHandler left it.
Caller == [id : Device, account : Account, role : {"phone", "pc"}]

ASSUME MarkersAssumption ==
    /\ NoDevice \notin DeviceRow
    /\ NoPairing \notin PairingRow
    /\ NoRow \notin BlobRow \cup [account : Account, from : Device]
    /\ NoFile \notin Ciphertext
    /\ NoKey \notin ContentKey

VARIABLES
    account,   \* table accounts: the ids in it
    device,    \* table devices
    pairing,   \* table pairings
    blob,      \* table blobs
    disk,      \* the directory: disk[b] is the file "<b>.bin"
    authed,    \* requests between their preHandler and their handler
    clock,     \* the server's clock
    retired,   \* history: ids of revoked devices; randomUUID never repeats one
    bought     \* history: bought[t] is the devices that redeeming t created

tables == <<account, device, pairing>>
history == <<retired, bought>>
vars == <<account, device, pairing, blob, disk, authed, clock, retired, bought>>

Live == {d \in Device : device[d] # NoDevice}
Stored == {b \in Blob : blob[b] # NoRow}
Fresh == Device \ (Live \cup retired)

TypeOK ==
    /\ account \subseteq Account
    /\ device \in [Device -> DeviceRow \cup {NoDevice}]
    /\ pairing \in [Token -> PairingRow \cup {NoPairing}]
    /\ blob \in [Blob -> BlobRow \cup {NoRow}]
    /\ disk \in [Blob -> Ciphertext \cup {NoFile}]
    /\ authed \subseteq Caller
    /\ clock \in Nat
    /\ retired \subseteq Device
    /\ bought \in [Token -> SUBSET Device]

Init ==
    /\ account = {}
    /\ device = [d \in Device |-> NoDevice]
    /\ pairing = [t \in Token |-> NoPairing]
    /\ blob = [b \in Blob |-> NoRow]
    /\ disk = [b \in Blob |-> NoFile]
    /\ authed = {}
    /\ clock = 0
    /\ retired = {}
    /\ bought = [t \in Token |-> {}]
-----------------------------------------------------------------------------
(* Authentication *)

\* requireAuth: the device row is read now; the handler uses the copy later.
\* Bound of the model: a device has one request between the two at a time.
Authenticate(d) ==
    /\ d \in Live
    /\ \A r \in authed : r.id # d
    /\ authed' = authed \cup {[id |-> d, account |-> device[d].account, role |-> device[d].role]}
    /\ UNCHANGED <<tables, blob, disk, clock, history>>

Answered(r) == authed' = authed \ {r}

\* Every read-only route and every early return: the request is gone and
\* nothing else has changed.
AnswerOnly(r) ==
    /\ Answered(r)
    /\ UNCHANGED <<tables, blob, disk, clock, history>>

\* The process dies between two handlers and starts again.
Crash ==
    /\ authed # {}
    /\ authed' = {}
    /\ UNCHANGED <<tables, blob, disk, clock, history>>
-----------------------------------------------------------------------------
(* Registration and pairing *)

KeyTaken(k) == \E d \in Live : device[d].key = k

\* POST /pair/register-pc with a key no device has.  With a known key the
\* handler only looks the row up (200, or 409 on another content key).
RegisterPc(k, c, a, d) ==
    /\ ~KeyTaken(k)
    /\ a \notin account
    /\ d \in Fresh
    /\ account' = account \cup {a}
    /\ device' = [device EXCEPT ![d] = [account |-> a, role |-> "pc", key |-> k, content |-> c]]
    /\ UNCHANGED <<pairing, blob, disk, authed, clock, history>>

\* Death between createAccount and insertDevice: an account nobody can reach.
CrashInRegisterPc(k, a) ==
    /\ ~KeyTaken(k)
    /\ a \notin account
    /\ account' = account \cup {a}
    /\ authed' = {}
    /\ UNCHANGED <<device, pairing, blob, disk, clock, history>>

CreatePairing(r, t, ttl) ==
    /\ r.role = "pc"
    /\ pairing[t] = NoPairing
    /\ pairing' = [pairing EXCEPT
                     ![t] = [account |-> r.account, expires |-> clock + ttl, used |-> FALSE]]
    /\ Answered(r)
    /\ UNCHANGED <<account, device, blob, disk, clock, history>>

Redeemable(t) ==
    /\ pairing[t] # NoPairing
    /\ ~pairing[t].used
    /\ clock < pairing[t].expires

\* mutant: the UPDATE that marks the token used is lost
RedeemForgotten(t) == UNCHANGED pairing

Redeem(t) == pairing' = [pairing EXCEPT ![t].used = TRUE]

HasPcContentKey(a) ==
    \E d \in Live : device[d].account = a /\ device[d].role = "pc" /\ device[d].content # NoKey

\* POST /pair/complete.  The token is spent first; when the account has no
\* content key (409), or the key is already registered and the INSERT fails
\* (500), it stays spent and there is no device.
CompletePairing(t, k, d) ==
    LET a == pairing[t].account
        inserted == HasPcContentKey(a) /\ ~KeyTaken(k)
    IN  /\ Redeemable(t)
        /\ d \in Fresh
        /\ Redeem(t)
        /\ device' = IF inserted
                     THEN [device EXCEPT ![d] = [account |-> a, role |-> "phone", key |-> k,
                                                 content |-> NoKey]]
                     ELSE device
        /\ bought' = IF inserted THEN [bought EXCEPT ![t] = @ \cup {d}] ELSE bought
        /\ UNCHANGED <<account, blob, disk, authed, clock, retired>>

\* Death between redeemPairing and insertDevice.
CrashInCompletePairing(t) ==
    /\ Redeemable(t)
    /\ Redeem(t)
    /\ authed' = {}
    /\ UNCHANGED <<account, device, blob, disk, clock, history>>
-----------------------------------------------------------------------------
(* Revocation *)

Pcs(a) == {d \in Live : device[d].account = a /\ device[d].role = "pc"}
SentBy(d) == {b \in Stored : blob[b].from = d}

\* mutant: the self and last-desktop refusals are missing
MayRevokeAny(r, d) == d \in Live /\ device[d].account = r.account

\* The refusals of DELETE /devices/:id: unknown or foreign, self, last desktop.
MayRevoke(r, d) ==
    /\ d \in Live
    /\ device[d].account = r.account
    /\ d # r.id
    /\ device[d].role = "pc" => Cardinality(Pcs(r.account)) > 1

DeleteRows(S) == blob' = [b \in Blob |-> IF b \in S THEN NoRow ELSE blob[b]]
Unlink(S) == disk' = [b \in Blob |-> IF b \in S THEN NoFile ELSE disk[b]]

\* deleteDevice looks for each file at join(blobDir, blobId), a name insertBlob
\* never writes (blobPath adds ".bin"), so existsSync is false for every one.
UnlinkBareNames(S) == UNCHANGED disk

RevokeDevice(r, d) ==
    /\ r.role = "pc"
    /\ MayRevoke(r, d)
    /\ UnlinkBareNames(SentBy(d))
    /\ DeleteRows(SentBy(d))
    /\ device' = [device EXCEPT ![d] = NoDevice]
    /\ retired' = retired \cup {d}
    /\ Answered(r)
    /\ UNCHANGED <<account, pairing, clock, bought>>
-----------------------------------------------------------------------------
(* Blobs *)

BytesUsed(d) == MapThenSumSet(LAMBDA b : blob[b].size, SentBy(d))

\* mutant: the bytes that are arriving are not counted
HasRoomBefore(d, n) == BytesUsed(d) <= MaxBytesPerDevice

\* The checks of POST /blobs, in one synchronous stretch with the insert.
HasRoom(d, n) == BytesUsed(d) + n <= MaxBytesPerDevice

\* mutant: no idempotency check before the file is written
MayStoreAgain(r, b, n) ==
    /\ r.role = "phone"
    /\ n <= MaxBlobBytes
    /\ HasRoom(r.id, n)

\* mutant: the size limit is missing
MayStoreAnySize(r, b, n) == r.role = "phone" /\ b \notin Stored /\ HasRoom(r.id, n)

MayStore(r, b, n) ==
    /\ r.role = "phone"
    /\ n <= MaxBlobBytes
    /\ b \notin Stored
    /\ HasRoom(r.id, n)

WriteFile(r, b, n) == disk' = [disk EXCEPT ![b] = [by |-> r.id, size |-> n, written |-> clock]]

\* mutant: PRAGMA foreign_keys is off
RowFitsAnyDevice(r, b) == b \notin Stored

\* What SQLite enforces on the INSERT: primary key and foreign key; it throws.
RowFits(r, b) == b \notin Stored /\ r.id \in Live

\* insertBlob writes the file, then the row.
PostBlob(r, b, n) ==
    /\ MayStore(r, b, n)
    /\ WriteFile(r, b, n)
    /\ blob' = IF RowFits(r, b)
               THEN [blob EXCEPT ![b] = [account |-> r.account, from |-> r.id,
                                         size |-> n, created |-> clock]]
               ELSE blob
    /\ Answered(r)
    /\ UNCHANGED <<tables, clock, retired, bought>>

\* Death between writeFileSync and the INSERT.
CrashInPostBlob(r, b, n) ==
    /\ MayStore(r, b, n)
    /\ WriteFile(r, b, n)
    /\ authed' = {}
    /\ UNCHANGED <<tables, blob, clock, history>>

\* mutant: the ack is not scoped by account
AckableByAnyone(r, S) == S \cap Stored

\* The rows an ack may delete: WHERE blob_id = ? AND account_id = ?
Ackable(r, S) == {b \in S \cap Stored : blob[b].account = r.account}

\* deleteBlobs: for each id the row, then the file.
AckBlobs(r, S) ==
    /\ r.role = "pc"
    /\ DeleteRows(Ackable(r, S))
    /\ Unlink(Ackable(r, S))
    /\ Answered(r)
    /\ UNCHANGED <<tables, clock, retired, bought>>

\* A loop that deletes row then file dies after the rows of "done"; the file of
\* the last of them may still be there.
TornDelete(done) ==
    /\ DeleteRows(done)
    /\ \/ Unlink(done)
       \/ \E last \in done : Unlink(done \ {last})
    /\ authed' = {}

CrashInAckBlobs(r, S, done) ==
    /\ r.role = "pc"
    /\ done \subseteq Ackable(r, S)
    /\ TornDelete(done)
    /\ UNCHANGED <<tables, clock, retired, bought>>

\* created_at < now - retentionDays
Expired == {b \in Stored : blob[b].created + Retention < clock}

\* Store.pruneExpired: it walks rows, so it sees no file without one.  Nothing
\* schedules it yet (SPEC.md:278); it may run at any time.
PruneExpired ==
    /\ DeleteRows(Expired)
    /\ Unlink(Expired)
    /\ UNCHANGED <<tables, authed, clock, history>>

CrashInPruneExpired(done) ==
    /\ done \subseteq Expired
    /\ TornDelete(done)
    /\ UNCHANGED <<tables, clock, history>>

Tick ==
    /\ clock < MaxClock
    /\ clock' = clock + 1
    /\ UNCHANGED <<tables, blob, disk, authed, history>>
-----------------------------------------------------------------------------
Registry ==
    \/ \E k \in Key, c \in ContentKey, a \in Account, d \in Device : RegisterPc(k, c, a, d)
    \/ \E k \in Key, a \in Account : CrashInRegisterPc(k, a)
    \/ \E r \in authed, t \in Token, ttl \in Ttl : CreatePairing(r, t, ttl)
    \/ \E t \in Token, k \in Key, d \in Device : CompletePairing(t, k, d)
    \/ \E t \in Token : CrashInCompletePairing(t)
    \/ \E r \in authed, d \in Device : RevokeDevice(r, d)

Blobs ==
    \/ \E r \in authed, b \in Blob, n \in 1 .. MaxBlobBytes + 1 : PostBlob(r, b, n)
    \/ \E r \in authed, b \in Blob, n \in 1 .. MaxBlobBytes + 1 : CrashInPostBlob(r, b, n)
    \/ \E r \in authed, S \in SUBSET Blob : AckBlobs(r, S)
    \/ \E r \in authed, S, done \in SUBSET Blob : CrashInAckBlobs(r, S, done)
    \/ PruneExpired
    \/ \E done \in SUBSET Blob : CrashInPruneExpired(done)

Next ==
    \/ \E d \in Device : Authenticate(d)
    \/ \E r \in authed : AnswerOnly(r)
    \/ Crash
    \/ Registry
    \/ Blobs
    \/ Tick

Spec == Init /\ [][Next]_vars
-----------------------------------------------------------------------------
(* Safety *)

\* A row always has its file, and the file is the one that came with the row:
\* the download of a listed page never fails and never serves another upload
\* (db.ts:304, "a row with no file is a broken download").
RowHasItsFile ==
    \A b \in Stored :
        /\ disk[b] # NoFile
        /\ disk[b].by = blob[b].from
        /\ disk[b].size = blob[b].size

\* A row belongs to a live phone of the row's own account, although the handler
\* that wrote it used a copy of the device row read before an await.
RowHasItsDevice ==
    \A b \in Stored :
        /\ blob[b].from \in Live
        /\ device[blob[b].from].account = blob[b].account
        /\ device[blob[b].from].role = "phone"

\* No phone is stranded: while a phone is registered, its account has a desktop
\* whose content key can open what the phone seals (server.ts:256).
PhoneHasItsDesktop ==
    \A p \in Live : device[p].role = "phone" => HasPcContentKey(device[p].account)

\* A pairing token buys at most one device, ever, and only for its account
\* (db.ts:270, "a race cannot redeem it twice").
TokenBuysOneDevice ==
    \A t \in Token :
        /\ Cardinality(bought[t]) <= 1
        /\ \A d \in bought[t] \cap Live :
               pairing[t] # NoPairing /\ device[d].account = pairing[t].account

\* No device ever has more on the server than the quota (server.ts:341).
QuotaHolds == \A d \in Device : BytesUsed(d) <= MaxBytesPerDevice

\* What the registry keeps true behind the promises above.  Ids of revoked devices
\* never return; a desktop has a content key, shares its account with no other
\* desktop and so is never revoked (register-pc always makes a new account,
\* server.ts:185, and the last desktop stays, server.ts:256); a token was made by
\* such a desktop; and a caller is still what its preHandler read, or revoked.
RetiredAreGone == retired \cap Live = {}

DesktopsRuleAlone ==
    \A d \in Live :
        /\ device[d].account \in account
        /\ device[d].role = "pc" =>
             /\ device[d].content # NoKey
             /\ \A e \in Live :
                  device[e].role = "pc" /\ device[e].account = device[d].account => e = d

TokensComeFromDesktops ==
    \A t \in Token : pairing[t] # NoPairing => HasPcContentKey(pairing[t].account)

TokensAreSpent ==
    \A t \in Token : bought[t] # {} =>
        /\ pairing[t] # NoPairing
        /\ pairing[t].used
        /\ \E d \in Live \cup retired : bought[t] = {d}

CallersAreKnown ==
    \A r \in authed :
        /\ r.id \in Live \cup retired
        /\ r.id \in Live => device[r.id].account = r.account /\ device[r.id].role = r.role
        /\ r.role = "pc" => r.id \in Live

RegistryInv ==
    /\ RetiredAreGone
    /\ DesktopsRuleAlone
    /\ PhoneHasItsDesktop
    /\ TokensComeFromDesktops
    /\ TokensAreSpent
    /\ TokenBuysOneDevice
    /\ CallersAreKnown

\* The lawful reasons for a stored page to go.
LawfulExit(b) ==
    /\ blob'[b] = NoRow
    /\ \/ blob[b].created + Retention < clock
       \/ device'[blob[b].from] = NoDevice
       \/ \E r \in authed \ authed' : r.role = "pc" /\ r.account = blob[b].account

\* A stored page is never altered, and it goes only because it outlived the
\* retention period, because its phone was revoked, or while a desktop of its
\* own account is being answered (deleteBlobs, "scoped by account").
PagesLeaveLawfully == [][\A b \in Stored : blob'[b] = blob[b] \/ LawfulExit(b)]_vars

\* db.ts:305 says of a file with no row that it is "merely garbage that pruning
\* will remove": after a prune no such file is older than the retention period.
PruningRemovesGarbage ==
    [][PruneExpired =>
         \A b \in Blob : (blob'[b] = NoRow /\ disk'[b] # NoFile) =>
                            disk'[b].written + Retention >= clock]_vars

\* db.ts:241 says of revocation that "removing the row is only half of it": when
\* a device is gone, so is the ciphertext of every page it had on the server.
RevocationRemovesCiphertext ==
    [][\A b \in Stored : device'[blob[b].from] = NoDevice => disk'[b] = NoFile]_vars

\* The box a state of the server stands for.
BoxNow == [b \in Blob |-> IF b \in Stored
                          THEN [account |-> blob[b].account, from |-> blob[b].from] ELSE NoRow]
Asking == {r.account : r \in {q \in authed : q.role = "pc"}}
Box == INSTANCE MailBox WITH Nothing <- NoRow, box <- BoxNow, old <- Expired, asking <- Asking

\* The server implements the box it promises (MailBox).
ImplementsMailBox == Box!Spec
=============================================================================
