-------------------------- MODULE BlobQueueProofs --------------------------
(***************************************************************************)
(* Theorems about the queue server, for any number of accounts, devices,   *)
(* tokens and pages, any limits, and any number of crashes.                *)
(***************************************************************************)
EXTENDS BlobQueue, InductionLemmas

\* The type invariant is inductive by itself.
THEOREM TypeCorrect == Spec => []TypeOK
<1>1. Init => TypeOK
  BY LimitsAssumption DEF Init, TypeOK
<1>2. TypeOK /\ [Next]_vars => TypeOK'
  <2> SUFFICES ASSUME TypeOK, [Next]_vars PROVE TypeOK'
    OBVIOUS
  <2> USE LimitsAssumption, MarkersAssumption DEF TypeOK, tables, history
  <2>1. ASSUME NEW d \in Device, Authenticate(d) PROVE TypeOK'
    BY <2>1 DEF Authenticate, Live, Caller, DeviceRow
  <2>2. ASSUME NEW r \in authed, AnswerOnly(r) PROVE TypeOK'
    BY <2>2 DEF AnswerOnly, Answered
  <2>3. CASE Crash
    BY <2>3 DEF Crash
  <2>4. ASSUME NEW k \in Key, NEW c \in ContentKey, NEW a \in Account, NEW d \in Device,
               RegisterPc(k, c, a, d)
        PROVE  TypeOK'
    BY <2>4 DEF RegisterPc, DeviceRow
  <2>5. ASSUME NEW k \in Key, NEW a \in Account, CrashInRegisterPc(k, a) PROVE TypeOK'
    BY <2>5 DEF CrashInRegisterPc
  <2>6. ASSUME NEW r \in authed, NEW t \in Token, NEW ttl \in Ttl, CreatePairing(r, t, ttl)
        PROVE  TypeOK'
    BY <2>6 DEF CreatePairing, Answered, PairingRow, Caller
  <2>7. ASSUME NEW t \in Token, NEW k \in Key, NEW d \in Device, CompletePairing(t, k, d)
        PROVE  TypeOK'
    <3>1. pairing[t] \in PairingRow
      BY <2>7 DEF CompletePairing, Redeemable
    <3>2. pairing' \in [Token -> PairingRow \cup {NoPairing}]
      BY <2>7, <3>1 DEF CompletePairing, Redeem, PairingRow
    <3>3. device' \in [Device -> DeviceRow \cup {NoDevice}]
      BY <2>7, <3>1 DEF CompletePairing, PairingRow, DeviceRow
    <3>4. bought' \in [Token -> SUBSET Device]
      BY <2>7 DEF CompletePairing
    <3> QED
      BY <2>7, <3>2, <3>3, <3>4 DEF CompletePairing
  <2>8. ASSUME NEW t \in Token, CrashInCompletePairing(t) PROVE TypeOK'
    BY <2>8 DEF CrashInCompletePairing, Redeemable, Redeem, PairingRow
  <2>9. ASSUME NEW r \in authed, NEW d \in Device, RevokeDevice(r, d) PROVE TypeOK'
    BY <2>9 DEF RevokeDevice, UnlinkBareNames, DeleteRows, Answered
  <2>10. ASSUME NEW r \in authed, NEW b \in Blob, NEW n \in 1 .. MaxBlobBytes + 1, PostBlob(r, b, n)
         PROVE  TypeOK'
    <3>1. n \in 1 .. MaxBlobBytes /\ r.id \in Device /\ r.account \in Account
      BY <2>10 DEF PostBlob, MayStore, Caller
    <3>2. disk' \in [Blob -> Ciphertext \cup {NoFile}]
      BY <2>10, <3>1 DEF PostBlob, WriteFile, Ciphertext
    <3>3. blob' \in [Blob -> BlobRow \cup {NoRow}]
      BY <2>10, <3>1 DEF PostBlob, BlobRow
    <3> QED
      BY <2>10, <3>2, <3>3 DEF PostBlob, Answered
  <2>11. ASSUME NEW r \in authed, NEW b \in Blob, NEW n \in 1 .. MaxBlobBytes + 1,
                CrashInPostBlob(r, b, n)
         PROVE  TypeOK'
    <3>1. n \in 1 .. MaxBlobBytes /\ r.id \in Device
      BY <2>11 DEF CrashInPostBlob, MayStore, Caller
    <3>2. disk' \in [Blob -> Ciphertext \cup {NoFile}]
      BY <2>11, <3>1 DEF CrashInPostBlob, WriteFile, Ciphertext
    <3> QED
      BY <2>11, <3>2 DEF CrashInPostBlob
  <2>12. ASSUME NEW r \in authed, NEW S \in SUBSET Blob, AckBlobs(r, S) PROVE TypeOK'
    BY <2>12 DEF AckBlobs, DeleteRows, Unlink, Answered
  <2>13. ASSUME NEW r \in authed, NEW S \in SUBSET Blob, NEW done \in SUBSET Blob,
                CrashInAckBlobs(r, S, done)
         PROVE  TypeOK'
    BY <2>13 DEF CrashInAckBlobs, TornDelete, DeleteRows, Unlink
  <2>14. CASE PruneExpired
    BY <2>14 DEF PruneExpired, DeleteRows, Unlink
  <2>15. ASSUME NEW done \in SUBSET Blob, CrashInPruneExpired(done) PROVE TypeOK'
    BY <2>15 DEF CrashInPruneExpired, TornDelete, DeleteRows, Unlink
  <2>16. CASE Tick
    BY <2>16 DEF Tick
  <2>17. CASE UNCHANGED vars
    BY <2>17 DEF vars
  <2> QED
    BY <2>1, <2>2, <2>3, <2>4, <2>5, <2>6, <2>7, <2>8, <2>9, <2>10, <2>11, <2>12, <2>13, <2>14,
       <2>15, <2>16, <2>17 DEF Next, Registry, Blobs
<1>3. QED
  BY <1>1, <1>2, PTL DEF Spec
-----------------------------------------------------------------------------
(* The registry: accounts, devices, tokens and the callers that know them. *)

\* A step the registry does not notice: callers may be answered, and an account
\* may be left behind by a registration that died.
Quiet ==
    /\ account \subseteq account'
    /\ authed' \subseteq authed
    /\ UNCHANGED <<device, pairing, retired, bought>>

\* Every step but these six is such a step.
LEMMA RegistrySteps ==
  ASSUME TypeOK, [Next]_vars
  PROVE  \/ Quiet
         \/ \E d \in Device : Authenticate(d)
         \/ \E k \in Key, c \in ContentKey, a \in Account, d \in Device : RegisterPc(k, c, a, d)
         \/ \E r \in authed, t \in Token, ttl \in Ttl : CreatePairing(r, t, ttl)
         \/ \E t \in Token, k \in Key, d \in Device : CompletePairing(t, k, d)
         \/ \E t \in Token : CrashInCompletePairing(t)
         \/ \E r \in authed, d \in Device : RevokeDevice(r, d)
<1> USE DEF Quiet, tables, history, Answered
<1>1. ASSUME NEW r \in authed, AnswerOnly(r) PROVE Quiet
  BY <1>1 DEF AnswerOnly
<1>2. CASE Crash
  BY <1>2 DEF Crash
<1>3. ASSUME NEW k \in Key, NEW a \in Account, CrashInRegisterPc(k, a) PROVE Quiet
  BY <1>3 DEF CrashInRegisterPc
<1>4. ASSUME NEW r \in authed, NEW b \in Blob, NEW n \in 1 .. MaxBlobBytes + 1, PostBlob(r, b, n)
      PROVE  Quiet
  BY <1>4 DEF PostBlob
<1>5. ASSUME NEW r \in authed, NEW b \in Blob, NEW n \in 1 .. MaxBlobBytes + 1,
             CrashInPostBlob(r, b, n)
      PROVE  Quiet
  BY <1>5 DEF CrashInPostBlob
<1>6. ASSUME NEW r \in authed, NEW S \in SUBSET Blob, AckBlobs(r, S) PROVE Quiet
  BY <1>6 DEF AckBlobs
<1>7. ASSUME NEW r \in authed, NEW S \in SUBSET Blob, NEW done \in SUBSET Blob,
             CrashInAckBlobs(r, S, done)
      PROVE  Quiet
  BY <1>7 DEF CrashInAckBlobs, TornDelete
<1>8. CASE PruneExpired
  BY <1>8 DEF PruneExpired
<1>9. ASSUME NEW done \in SUBSET Blob, CrashInPruneExpired(done) PROVE Quiet
  BY <1>9 DEF CrashInPruneExpired, TornDelete
<1>10. CASE Tick
  BY <1>10 DEF Tick
<1>11. CASE UNCHANGED vars
  BY <1>11 DEF vars
<1> QED
  BY <1>1, <1>2, <1>3, <1>4, <1>5, <1>6, <1>7, <1>8, <1>9, <1>10, <1>11 DEF Next, Registry, Blobs

\* What TokensAreSpent says of bought[t] bounds how many devices a token bought.
LEMMA AtMostOne ==
  ASSUME NEW S, NEW e, S = {} \/ S = {e}
  PROVE  IsFiniteSet(S) /\ Cardinality(S) <= 1
<1>1. CASE S = {}
  BY <1>1, FS_EmptySet
<1>2. CASE S = {e}
  <2>1. IsFiniteSet({e}) /\ Cardinality({e}) = 1
    BY FS_Singleton
  <2> QED
    BY <1>2, <2>1
<1> QED
  BY <1>1, <1>2

\* The refusals of a revocation leave every desktop where it is.
LEMMA DesktopsStay ==
  ASSUME TypeOK, RegistryInv, NEW r \in authed, NEW d \in Device, RevokeDevice(r, d)
  PROVE  device[d].role = "phone"
<1>1. d \in Live /\ device[d].account = r.account /\ device[d].role \in {"phone", "pc"}
  BY DEF RevokeDevice, MayRevoke, TypeOK, Live, DeviceRow
<1>2. ASSUME device[d].role = "pc" PROVE FALSE
  <2>1. Pcs(r.account) = {d}
    BY <1>1, <1>2 DEF RegistryInv, DesktopsRuleAlone, Pcs
  <2>2. Cardinality(Pcs(r.account)) = 1
    BY <2>1, FS_Singleton
  <2> QED
    BY <1>2, <2>2 DEF RevokeDevice, MayRevoke
<1> QED
  BY <1>1, <1>2

\* Every step keeps the registry in order.
LEMMA RegistryKept == TypeOK /\ RegistryInv /\ [Next]_vars => RegistryInv'
<1> SUFFICES ASSUME TypeOK, RegistryInv, [Next]_vars PROVE RegistryInv'
  OBVIOUS
<1> USE MarkersAssumption
<1> DEFINE Parts == RetiredAreGone /\ DesktopsRuleAlone /\ PhoneHasItsDesktop
                      /\ TokensComeFromDesktops /\ TokensAreSpent /\ CallersAreKnown
           Owned == \A t \in Token : \A d \in bought[t] \cap Live :
                       pairing[t] # NoPairing /\ device[d].account = pairing[t].account
<1>1. Parts /\ Owned
  BY DEF RegistryInv, TokenBuysOneDevice
<1>2. SUFFICES Parts' /\ Owned'
  <2>1. ASSUME Parts', Owned', NEW t \in Token PROVE Cardinality(bought'[t]) <= 1
    BY <2>1, AtMostOne DEF TokensAreSpent
  <2> QED
    BY <2>1 DEF RegistryInv, TokenBuysOneDevice
<1> USE DEF RetiredAreGone, DesktopsRuleAlone, PhoneHasItsDesktop, TokensComeFromDesktops,
            TokensAreSpent, CallersAreKnown, HasPcContentKey, Live
<1>3. CASE Quiet
  BY <1>1, <1>3 DEF Quiet
<1>4. ASSUME NEW d \in Device, Authenticate(d) PROVE Parts' /\ Owned'
  BY <1>1, <1>4 DEF Authenticate, tables, history, TypeOK, DeviceRow
<1>5. ASSUME NEW k \in Key, NEW c \in ContentKey, NEW a \in Account, NEW d \in Device,
             RegisterPc(k, c, a, d)
      PROVE  Parts' /\ Owned'
  <2>1. /\ d \in Device \ (Live \cup retired)
        /\ device' = [device EXCEPT ![d] = [account |-> a, role |-> "pc", key |-> k,
                                            content |-> c]]
        /\ account' = account \cup {a} /\ a \notin account
        /\ UNCHANGED <<pairing, authed, retired, bought>>
    BY <1>5 DEF RegisterPc, Fresh, history
  <2>2. device'[d] = [account |-> a, role |-> "pc", key |-> k, content |-> c]
        /\ device'[d] # NoDevice /\ c # NoKey
    BY <2>1 DEF TypeOK, DeviceRow
  <2>3. \A e \in Device : e # d => device'[e] = device[e]
    BY <2>1 DEF TypeOK
  <2>4. \A t \in Token : d \notin bought[t]
    BY <1>1, <2>1
  <2>5. Live' = Live \cup {d}
    BY <2>1, <2>2, <2>3
  <2>6. RetiredAreGone' /\ DesktopsRuleAlone' /\ CallersAreKnown'
    BY <1>1, <2>1, <2>2, <2>3, <2>5
  <2>7. PhoneHasItsDesktop' /\ TokensComeFromDesktops'
    BY <1>1, <2>1, <2>2, <2>3, <2>5
  <2>8. TokensAreSpent' /\ Owned'
    BY <1>1, <2>1, <2>2, <2>3, <2>4, <2>5
  <2> QED
    BY <2>6, <2>7, <2>8
<1>6. ASSUME NEW r \in authed, NEW t \in Token, NEW ttl \in Ttl, CreatePairing(r, t, ttl)
      PROVE  Parts' /\ Owned'
  <2>1. /\ r.role = "pc" /\ pairing[t] = NoPairing
        /\ pairing' = [pairing EXCEPT ![t] = [account |-> r.account, expires |-> clock + ttl,
                                              used |-> FALSE]]
        /\ authed' \subseteq authed
        /\ UNCHANGED <<account, device, retired, bought>>
    BY <1>6 DEF CreatePairing, Answered, history
  <2>2. HasPcContentKey(r.account)
    BY <1>1, <2>1
  <2>3. bought[t] = {}
    BY <1>1, <2>1
  <2>4. \A u \in Token : u # t => pairing'[u] = pairing[u]
    BY <2>1 DEF TypeOK
  <2>5. pairing'[t].account = r.account
    BY <2>1 DEF TypeOK
  <2>6. RetiredAreGone' /\ DesktopsRuleAlone' /\ PhoneHasItsDesktop' /\ CallersAreKnown'
    BY <1>1, <2>1
  <2>7. TokensComeFromDesktops'
    BY <1>1, <2>1, <2>2, <2>4, <2>5
  <2>8. TokensAreSpent' /\ Owned'
    BY <1>1, <2>1, <2>3, <2>4
  <2> QED
    BY <2>6, <2>7, <2>8
<1>7. ASSUME NEW t \in Token, Redeemable(t), Redeem(t)
      PROVE  /\ pairing'[t] # NoPairing /\ pairing'[t].used
             /\ pairing'[t].account = pairing[t].account
             /\ bought[t] = {}
             /\ \A u \in Token : u # t => pairing'[u] = pairing[u]
             /\ \A u \in Token : pairing'[u] # NoPairing => pairing[u] # NoPairing
  <2>1. pairing[t] \in PairingRow
    BY <1>7 DEF Redeemable, TypeOK
  <2>2. pairing' = [pairing EXCEPT ![t] = [pairing[t] EXCEPT !.used = TRUE]]
    BY <1>7 DEF Redeem
  <2>3. pairing'[t] = [pairing[t] EXCEPT !.used = TRUE]
    BY <2>2 DEF TypeOK
  <2>4. pairing'[t] \in PairingRow /\ pairing'[t].used /\ pairing'[t].account = pairing[t].account
    BY <2>1, <2>3 DEF PairingRow
  <2>5. bought[t] = {}
    BY <1>1, <1>7 DEF Redeemable
  <2>6. \A u \in Token : u # t => pairing'[u] = pairing[u]
    BY <2>2 DEF TypeOK
  <2> QED
    BY <2>1, <2>4, <2>5, <2>6
<1>8. ASSUME NEW t \in Token, NEW k \in Key, NEW d \in Device, CompletePairing(t, k, d)
      PROVE  Parts' /\ Owned'
  <2> DEFINE a == pairing[t].account
             row == [account |-> a, role |-> "phone", key |-> k, content |-> NoKey]
  <2>1. /\ Redeemable(t) /\ Redeem(t)
        /\ d \in Device \ (Live \cup retired)
        /\ UNCHANGED <<account, authed, retired>>
    BY <1>8 DEF CompletePairing, Fresh
  <2>2. /\ pairing'[t] # NoPairing /\ pairing'[t].used
        /\ pairing'[t].account = pairing[t].account
        /\ bought[t] = {}
        /\ \A u \in Token : u # t => pairing'[u] = pairing[u]
        /\ \A u \in Token : pairing'[u] # NoPairing => pairing[u] # NoPairing
    BY <1>7, <2>1
  <2>3. CASE UNCHANGED <<device, bought>>
    BY <1>1, <2>1, <2>2, <2>3
  <2>4. CASE /\ HasPcContentKey(a)
             /\ device' = [device EXCEPT ![d] = row]
             /\ bought' = [bought EXCEPT ![t] = @ \cup {d}]
    <3>1. device'[d] = row /\ row \in DeviceRow /\ row # NoDevice
      <4>1. a \in Account
        BY <2>1 DEF Redeemable, TypeOK, PairingRow
      <4>2. row \in DeviceRow
        BY <4>1 DEF DeviceRow
      <4> QED
        BY <2>4, <4>2 DEF TypeOK
    <3>2. \A e \in Device : e # d => device'[e] = device[e]
      BY <2>4 DEF TypeOK
    <3>3. bought'[t] = {d} /\ \A u \in Token : u # t => bought'[u] = bought[u]
      BY <2>2, <2>4 DEF TypeOK
    <3>4. Live' = Live \cup {d}
      BY <3>1, <3>2
    <3>5. \A u \in Token : d \notin bought[u]
      BY <1>1, <2>1
    <3>6. device'[d].role = "phone" /\ device'[d].account = a
      BY <3>1
    <3>7. \A b : HasPcContentKey(b) => HasPcContentKey(b)'
      BY <2>1, <3>2, <3>4
    <3>8. RetiredAreGone' /\ DesktopsRuleAlone' /\ CallersAreKnown'
      <4>1. a \in account
        BY <1>1, <2>4
      <4> QED
        BY <1>1, <2>1, <3>2, <3>4, <3>6, <4>1
    <3>9. PhoneHasItsDesktop'
      <4>1. ASSUME NEW p \in Live', NEW b, b = device'[p].account, device'[p].role = "phone"
            PROVE  HasPcContentKey(b)'
        <5>1. CASE p = d
          BY <2>4, <3>6, <3>7, <4>1, <5>1
        <5>2. CASE p # d
          <6>1. p \in Live /\ device'[p] = device[p]
            BY <3>2, <3>4, <4>1, <5>2
          <6>2. HasPcContentKey(b)
            BY <1>1, <4>1, <6>1
          <6> QED
            BY <3>7, <6>2
        <5> QED
          BY <5>1, <5>2
      <4> QED
        BY <4>1
    <3>10. TokensComeFromDesktops'
      <4>1. ASSUME NEW u \in Token, NEW b, b = pairing'[u].account, pairing'[u] # NoPairing
            PROVE  HasPcContentKey(b)'
        <5>1. pairing'[u].account = pairing[u].account /\ pairing[u] # NoPairing
          BY <2>2, <4>1
        <5>2. HasPcContentKey(b)
          BY <1>1, <4>1, <5>1
        <5> QED
          BY <3>7, <5>2
      <4> QED
        BY <4>1
    <3>11. TokensAreSpent' /\ Owned'
      BY <1>1, <2>1, <2>2, <3>2, <3>3, <3>4, <3>5, <3>6
    <3> QED
      BY <3>8, <3>9, <3>10, <3>11
  <2> QED
    BY <1>8, <2>3, <2>4 DEF CompletePairing
<1>9. ASSUME NEW t \in Token, CrashInCompletePairing(t) PROVE Parts' /\ Owned'
  <2>1. Redeemable(t) /\ Redeem(t) /\ authed' = {} /\ UNCHANGED <<account, device, retired, bought>>
    BY <1>9 DEF CrashInCompletePairing, history
  <2>2. /\ pairing'[t] # NoPairing /\ pairing'[t].used
        /\ pairing'[t].account = pairing[t].account
        /\ \A u \in Token : u # t => pairing'[u] = pairing[u]
        /\ \A u \in Token : pairing'[u] # NoPairing => pairing[u] # NoPairing
    BY <1>7, <2>1
  <2> QED
    BY <1>1, <2>1, <2>2
<1>10. ASSUME NEW r \in authed, NEW d \in Device, RevokeDevice(r, d) PROVE Parts' /\ Owned'
  <2>1. device[d].role = "phone"
    BY <1>10, DesktopsStay
  <2>2. /\ d \in Live
        /\ device' = [device EXCEPT ![d] = NoDevice]
        /\ retired' = retired \cup {d}
        /\ authed' \subseteq authed
        /\ UNCHANGED <<account, pairing, bought>>
    BY <1>10 DEF RevokeDevice, MayRevoke, Answered
  <2>3. Live' = Live \ {d} /\ \A e \in Live' : device'[e] = device[e]
    BY <2>2 DEF TypeOK
  <2>4. \A b : HasPcContentKey(b) => HasPcContentKey(b)'
    BY <2>1, <2>2, <2>3
  <2>5. RetiredAreGone' /\ DesktopsRuleAlone'
    BY <1>1, <2>2, <2>3
  <2>6. PhoneHasItsDesktop'
    BY <1>1, <2>3, <2>4
  <2>7. TokensComeFromDesktops'
    BY <1>1, <2>2, <2>4
  <2>8. TokensAreSpent' /\ Owned'
    BY <1>1, <2>2, <2>3
  <2>9. CallersAreKnown'
    BY <1>1, <2>1, <2>2, <2>3
  <2> QED
    BY <2>5, <2>6, <2>7, <2>8, <2>9
<1> QED
  BY <1>3, <1>4, <1>5, <1>6, <1>8, <1>9, <1>10, RegistrySteps

\* The registry stays in order in every behaviour.
THEOREM RegistryCorrect == Spec => []RegistryInv
<1>1. Init => RegistryInv
  BY AtMostOne DEF Init, RegistryInv, RetiredAreGone, DesktopsRuleAlone, PhoneHasItsDesktop,
     TokensComeFromDesktops, TokensAreSpent, TokenBuysOneDevice, CallersAreKnown, Live
<1>2. QED
  BY <1>1, TypeCorrect, RegistryKept, PTL DEF Spec

\* No phone is ever stranded without a desktop that can open its pages.
THEOREM PhonesKeepTheirDesktop == Spec => []PhoneHasItsDesktop
<1>1. RegistryInv => PhoneHasItsDesktop
  BY DEF RegistryInv
<1>2. QED
  BY <1>1, RegistryCorrect, PTL

\* A token never buys a second device, however its redemptions interleave.
THEOREM TokensBuyOneDevice == Spec => []TokenBuysOneDevice
<1>1. RegistryInv => TokenBuysOneDevice
  BY DEF RegistryInv
<1>2. QED
  BY <1>1, RegistryCorrect, PTL
-----------------------------------------------------------------------------
(* The blobs: rows, files and the devices they came from. *)

\* The actions that do not touch a row or a file leave rows, files and, but for
\* what is stated, devices alone.
LEMMA BlobSteps ==
  ASSUME TypeOK, [Next]_vars
  PROVE  \/ /\ UNCHANGED <<blob, disk>>
            /\ \A d \in Live : device'[d] = device[d]
         \/ \E r \in authed, d \in Device : RevokeDevice(r, d)
         \/ \E r \in authed, b \in Blob, n \in 1 .. MaxBlobBytes + 1 :
               PostBlob(r, b, n) \/ CrashInPostBlob(r, b, n)
         \/ /\ UNCHANGED device
            /\ \E S \in SUBSET Blob :
                  /\ DeleteRows(S)
                  /\ \/ Unlink(S)
                     \/ \E last \in S : Unlink(S \ {last})
<1> DEFINE Same == UNCHANGED <<blob, disk>> /\ \A d \in Live : device'[d] = device[d]
           Gone(S) == UNCHANGED device /\ DeleteRows(S)
                        /\ (Unlink(S) \/ \E last \in S : Unlink(S \ {last}))
<1> USE DEF tables, history
<1>1. ASSUME NEW d \in Device, Authenticate(d) PROVE Same
  BY <1>1 DEF Authenticate
<1>2. ASSUME NEW r \in authed, AnswerOnly(r) PROVE Same
  BY <1>2 DEF AnswerOnly
<1>3. ASSUME Crash PROVE Same
  BY <1>3 DEF Crash
<1>4. ASSUME NEW k \in Key, NEW c \in ContentKey, NEW a \in Account, NEW d \in Device,
             RegisterPc(k, c, a, d)
      PROVE  Same
  BY <1>4 DEF RegisterPc, Fresh, TypeOK, Live
<1>5. ASSUME NEW k \in Key, NEW a \in Account, CrashInRegisterPc(k, a) PROVE Same
  BY <1>5 DEF CrashInRegisterPc
<1>6. ASSUME NEW r \in authed, NEW t \in Token, NEW ttl \in Ttl, CreatePairing(r, t, ttl)
      PROVE  Same
  BY <1>6 DEF CreatePairing
<1>7. ASSUME NEW t \in Token, NEW k \in Key, NEW d \in Device, CompletePairing(t, k, d)
      PROVE  Same
  BY <1>7 DEF CompletePairing, Fresh, TypeOK, Live
<1>8. ASSUME NEW t \in Token, CrashInCompletePairing(t) PROVE Same
  BY <1>8 DEF CrashInCompletePairing
<1>9. ASSUME NEW r \in authed, NEW S \in SUBSET Blob, AckBlobs(r, S) PROVE Gone(Ackable(r, S))
  BY <1>9 DEF AckBlobs
<1>10. ASSUME NEW r \in authed, NEW S \in SUBSET Blob, NEW done \in SUBSET Blob,
              CrashInAckBlobs(r, S, done)
       PROVE  Gone(done)
  BY <1>10 DEF CrashInAckBlobs, TornDelete
<1>11. ASSUME PruneExpired PROVE Gone(Expired)
  BY <1>11 DEF PruneExpired
<1>12. ASSUME NEW done \in SUBSET Blob, CrashInPruneExpired(done) PROVE Gone(done)
  BY <1>12 DEF CrashInPruneExpired, TornDelete
<1>13. ASSUME Tick PROVE Same
  BY <1>13 DEF Tick
<1>14. ASSUME UNCHANGED vars PROVE Same
  BY <1>14 DEF vars
<1>15. \A r, S : Ackable(r, S) \in SUBSET Blob
  BY DEF Ackable, Stored
<1>16. Expired \in SUBSET Blob
  BY DEF Expired, Stored
<1> DEFINE Goal == Same \/ (\E r \in authed, d \in Device : RevokeDevice(r, d))
                     \/ (\E r \in authed, b \in Blob, n \in 1 .. MaxBlobBytes + 1 :
                           PostBlob(r, b, n) \/ CrashInPostBlob(r, b, n))
                     \/ \E S \in SUBSET Blob : Gone(S)
<1>17. ASSUME Blobs PROVE Goal
  <2> HIDE DEF Gone, Same
  <2> QED
    BY <1>9, <1>10, <1>11, <1>12, <1>15, <1>16, <1>17 DEF Blobs
<1>18. ASSUME Registry PROVE Goal
  <2> HIDE DEF Gone, Same
  <2> QED
    BY <1>4, <1>5, <1>6, <1>7, <1>8, <1>18 DEF Registry
<1>19. Goal
  <2> HIDE DEF Gone, Same
  <2> QED
    BY <1>1, <1>2, <1>3, <1>13, <1>14, <1>17, <1>18 DEF Next
<1> QED
  BY <1>19

\* What an upload does to rows and files: it fills an empty place with a row and
\* a file that match, or leaves only a file there.
LEMMA UploadStep ==
  ASSUME TypeOK, NEW r \in authed, NEW b \in Blob, NEW n \in 1 .. MaxBlobBytes + 1,
         PostBlob(r, b, n) \/ CrashInPostBlob(r, b, n)
  PROVE  /\ b \notin Stored /\ r.role = "phone"
         /\ disk'[b] # NoFile /\ disk'[b].by = r.id /\ disk'[b].size = n
         /\ \A c \in Blob : c # b => disk'[c] = disk[c] /\ blob'[c] = blob[c]
         /\ \/ blob'[b] = NoRow
            \/ /\ r.id \in Live
               /\ blob'[b].account = r.account /\ blob'[b].from = r.id /\ blob'[b].size = n
         /\ UNCHANGED device
<1> USE DEF TypeOK, Stored
<1>1. b \notin Stored /\ r.role = "phone" /\ n \in 1 .. MaxBlobBytes /\ r.id \in Device
  BY LimitsAssumption DEF PostBlob, CrashInPostBlob, MayStore, Caller
<1>2. disk' = [disk EXCEPT ![b] = [by |-> r.id, size |-> n, written |-> clock]]
  BY DEF PostBlob, CrashInPostBlob, WriteFile
<1>3. [by |-> r.id, size |-> n, written |-> clock] \in Ciphertext
  BY <1>1 DEF Ciphertext
<1>4. disk'[b] = [by |-> r.id, size |-> n, written |-> clock] /\ disk'[b] # NoFile
  BY <1>2, <1>3, MarkersAssumption
<1>5. UNCHANGED device
  BY DEF PostBlob, CrashInPostBlob, tables
<1>6. CASE PostBlob(r, b, n)
  BY <1>1, <1>2, <1>4, <1>5, <1>6 DEF PostBlob, RowFits
<1>7. CASE CrashInPostBlob(r, b, n)
  BY <1>1, <1>2, <1>4, <1>5, <1>7 DEF CrashInPostBlob
<1> QED
  BY <1>6, <1>7

\* Every row's ciphertext is there and is the one that came with the row, in
\* every behaviour: crashes between a write and its INSERT, or between a DELETE
\* and its unlink, leave files without rows and never rows without files.
THEOREM RowsHaveTheirFile == Spec => []RowHasItsFile
<1>1. Init => RowHasItsFile
  BY DEF Init, RowHasItsFile, Stored
<1>2. TypeOK /\ RowHasItsFile /\ [Next]_vars => RowHasItsFile'
  <2> SUFFICES ASSUME TypeOK, RowHasItsFile, [Next]_vars PROVE RowHasItsFile'
    OBVIOUS
  <2> USE DEF RowHasItsFile, Stored
  <2>1. CASE UNCHANGED <<blob, disk>>
    BY <2>1
  <2>2. ASSUME NEW r \in authed, NEW d \in Device, RevokeDevice(r, d) PROVE RowHasItsFile'
    BY <2>2 DEF RevokeDevice, UnlinkBareNames, DeleteRows, TypeOK
  <2>3. ASSUME NEW r \in authed, NEW b \in Blob, NEW n \in 1 .. MaxBlobBytes + 1,
               PostBlob(r, b, n) \/ CrashInPostBlob(r, b, n)
        PROVE  RowHasItsFile'
    BY <2>3, UploadStep
  <2>4. ASSUME NEW S \in SUBSET Blob, DeleteRows(S),
               Unlink(S) \/ \E last \in S : Unlink(S \ {last})
        PROVE  RowHasItsFile'
    <3>1. \A b \in Blob \ S : disk'[b] = disk[b] /\ blob'[b] = blob[b]
      BY <2>4 DEF DeleteRows, Unlink
    <3>2. \A b \in Blob : b \in S => blob'[b] = NoRow
      BY <2>4 DEF DeleteRows
    <3> QED
      BY <3>1, <3>2
  <2> QED
    BY <2>1, <2>2, <2>3, <2>4, BlobSteps
<1>3. QED
  BY <1>1, <1>2, TypeCorrect, PTL DEF Spec

\* Every row belongs to a live phone of the row's own account, although the
\* handler that wrote it used a copy of the device row.
THEOREM RowsHaveTheirDevice == Spec => []RowHasItsDevice
<1>1. Init => RowHasItsDevice
  BY DEF Init, RowHasItsDevice, Stored
<1>2. TypeOK /\ RegistryInv /\ RowHasItsDevice /\ [Next]_vars => RowHasItsDevice'
  <2> SUFFICES ASSUME TypeOK, RegistryInv, RowHasItsDevice, [Next]_vars PROVE RowHasItsDevice'
    OBVIOUS
  <2> USE DEF RowHasItsDevice, Stored, Live
  <2>1. CASE UNCHANGED <<blob, disk>> /\ \A d \in Live : device'[d] = device[d]
    BY <2>1
  <2>2. ASSUME NEW r \in authed, NEW d \in Device, RevokeDevice(r, d) PROVE RowHasItsDevice'
    <3>1. \A e \in Device : e # d => device'[e] = device[e]
      BY <2>2 DEF RevokeDevice, TypeOK
    <3>2. \A b \in Stored' : b \in Stored /\ blob'[b] = blob[b] /\ blob[b].from # d
      BY <2>2 DEF RevokeDevice, DeleteRows, SentBy, TypeOK
    <3> QED
      BY <3>1, <3>2
  <2>3. ASSUME NEW r \in authed, NEW b \in Blob, NEW n \in 1 .. MaxBlobBytes + 1,
               PostBlob(r, b, n) \/ CrashInPostBlob(r, b, n)
        PROVE  RowHasItsDevice'
    <3>1. r.id \in Live => device[r.id].account = r.account /\ device[r.id].role = r.role
      BY DEF RegistryInv, CallersAreKnown
    <3> QED
      BY <2>3, <3>1, UploadStep
  <2>4. ASSUME NEW S \in SUBSET Blob, DeleteRows(S), UNCHANGED device PROVE RowHasItsDevice'
    BY <2>4 DEF DeleteRows
  <2> QED
    BY <2>1, <2>2, <2>3, <2>4, BlobSteps
<1>3. QED
  BY <1>1, <1>2, TypeCorrect, RegistryCorrect, PTL DEF Spec

\* No stored page is ever altered, and none goes without one of the three lawful
\* reasons: age, the revocation of its phone, or a desktop of its own account.
THEOREM PagesNeverVanish == Spec => PagesLeaveLawfully
<1> DEFINE Fine == \A b \in Stored : blob'[b] = blob[b] \/ LawfulExit(b)
<1>1. TypeOK /\ [Next]_vars => [Fine]_vars
  <2> SUFFICES ASSUME TypeOK, [Next]_vars PROVE Fine
    BY DEF vars
  <2> USE DEF Stored, LawfulExit
  <2>1. CASE UNCHANGED blob
    BY <2>1
  <2>2. ASSUME NEW r \in authed, NEW d \in Device, RevokeDevice(r, d) PROVE Fine
    <3>1. d \in Device /\ device'[d] = NoDevice
      BY <2>2 DEF RevokeDevice, TypeOK
    <3> QED
      BY <2>2, <3>1 DEF RevokeDevice, DeleteRows, SentBy
  <2>3. CASE Registry
    BY <2>1, <2>2, <2>3 DEF Registry, RegisterPc, CrashInRegisterPc, CreatePairing,
       CompletePairing, CrashInCompletePairing
  <2>4. ASSUME NEW r \in authed, NEW S \in SUBSET Blob, AckBlobs(r, S) PROVE Fine
    BY <2>4 DEF AckBlobs, DeleteRows, Ackable, Answered
  <2>5. ASSUME NEW r \in authed, NEW S \in SUBSET Blob, NEW done \in SUBSET Blob,
               CrashInAckBlobs(r, S, done)
        PROVE  Fine
    BY <2>5 DEF CrashInAckBlobs, TornDelete, DeleteRows, Ackable
  <2>6. CASE PruneExpired
    BY <2>6 DEF PruneExpired, DeleteRows, Expired
  <2>7. ASSUME NEW done \in SUBSET Blob, CrashInPruneExpired(done) PROVE Fine
    BY <2>7 DEF CrashInPruneExpired, TornDelete, DeleteRows, Expired
  <2>8. ASSUME NEW r \in authed, NEW b \in Blob, NEW n \in 1 .. MaxBlobBytes + 1,
               PostBlob(r, b, n) \/ CrashInPostBlob(r, b, n)
        PROVE  Fine
    BY <2>8, UploadStep
  <2>9. CASE Blobs
    BY <2>4, <2>5, <2>6, <2>7, <2>8, <2>9 DEF Blobs
  <2> QED
    BY <2>1, <2>3, <2>9 DEF Next, Authenticate, AnswerOnly, Crash, Tick, vars
<1>2. QED
  BY <1>1, TypeCorrect, PTL DEF Spec, PagesLeaveLawfully
-----------------------------------------------------------------------------
(* The quota *)

\* What the rows S hold, by the table blobs of one state.
Sizes(rows, S) == MapThenSumSet(LAMBDA b : rows[b].size, S)

\* That is a sum of weights (InductionLemmas).
LEMMA BytesAreTotal ==
    ASSUME NEW rows, NEW S, IsFiniteSet(S)
    PROVE  Sizes(rows, S) = Total([b \in S |-> rows[b].size], S)
<1> DEFINE w == [b \in S |-> rows[b].size]
<1>1. PICK it : SumsUp(it, w, S)
  BY SumsUpExists
<1>2. ASSUME NEW j,
             j = [s \in SUBSET S |-> IF s = {} THEN 0
                                     ELSE rows[OneOf(s)].size + j[s \ {OneOf(s)}]]
      PROVE  SumsUp(j, w, S)
  <2>1. \A s \in SUBSET S : s # {} => w[OneOf(s)] = rows[OneOf(s)].size
    BY OneOfIsMember
  <2> HIDE DEF w
  <2> QED
    BY <1>2, <2>1 DEF SumsUp
<1>3. it = [s \in SUBSET S |-> IF s = {} THEN 0
                               ELSE rows[OneOf(s)].size + it[s \ {OneOf(s)}]]
  <2>1. \A s \in SUBSET S : s # {} => w[OneOf(s)] = rows[OneOf(s)].size
    BY OneOfIsMember
  <2> HIDE DEF w
  <2> QED
    BY <1>1, <2>1 DEF SumsUp
<1> HIDE DEF w
<1>4. ASSUME NEW j, SumsUp(j, w, S) PROVE j[S] = Total(w, S)
  BY <1>4, TotalIsSum
<1>5. \E j : j = [s \in SUBSET S |-> IF s = {} THEN 0
                                     ELSE rows[OneOf(s)].size + j[s \ {OneOf(s)}]]
  BY <1>3
<1>6. \A j : j = [s \in SUBSET S |-> IF s = {} THEN 0
                                     ELSE rows[OneOf(s)].size + j[s \ {OneOf(s)}]]
               => j[S] = Total(w, S)
  BY <1>2, <1>4
<1>7. Sizes(rows, S) = Total(w, S)
  BY <1>5, <1>6 DEF Sizes, MapThenSumSet, MapThenFoldSet, OneOf
<1> QED
  BY <1>7 DEF w

LEMMA SizesOfNone == ASSUME NEW rows PROVE Sizes(rows, {}) = 0
<1>1. IsFiniteSet({})
  BY FS_EmptySet
<1>2. Sizes(rows, {}) = Total([b \in {} |-> rows[b].size], {})
  BY <1>1, BytesAreTotal
<1>3. \A w : Total(w, {}) = 0
  BY <1>1, TotalByOne
<1> QED
  BY <1>2, <1>3

LEMMA SizesType ==
    ASSUME NEW rows, NEW S, IsFiniteSet(S), \A b \in S : rows[b].size \in Nat
    PROVE  Sizes(rows, S) \in Nat
<1> DEFINE w == [b \in S |-> rows[b].size]
<1>1. Sizes(rows, S) = Total(w, S)
  BY BytesAreTotal
<1>2. \A b \in S : w[b] \in Nat
  OBVIOUS
<1> HIDE DEF w
<1> QED
  BY <1>1, <1>2, TotalType

LEMMA SizesOfEqual ==
    ASSUME NEW rows, NEW S, IsFiniteSet(S), NEW later, \A b \in S : later[b] = rows[b]
    PROVE  Sizes(later, S) = Sizes(rows, S)
<1> DEFINE w == [b \in S |-> rows[b].size]
           v == [b \in S |-> later[b].size]
<1>1. Sizes(rows, S) = Total(w, S) /\ Sizes(later, S) = Total(v, S)
  BY BytesAreTotal
<1>2. v = w
  OBVIOUS
<1> QED
  BY <1>1, <1>2

LEMMA SizesOfPart ==
    ASSUME NEW rows, NEW S, IsFiniteSet(S), \A b \in S : rows[b].size \in Nat,
           NEW later, NEW T \in SUBSET S, \A b \in T : later[b] = rows[b]
    PROVE  Sizes(later, T) <= Sizes(rows, S)
<1> DEFINE w == [b \in S |-> rows[b].size]
           v == [b \in T |-> later[b].size]
<1>1. IsFiniteSet(T)
  BY FS_Subset
<1>2. Sizes(rows, S) = Total(w, S) /\ Sizes(later, T) = Total(v, T)
  BY <1>1, BytesAreTotal
<1>3. (\A b \in T : v[b] = w[b]) /\ (\A b \in S : w[b] \in Nat)
  OBVIOUS
<1> HIDE DEF v, w
<1>4. Total(v, T) = Total(w, T) /\ Total(w, T) <= Total(w, S)
  BY <1>1, <1>3, TotalOfEqual, TotalOfPart
<1> QED
  BY <1>2, <1>4

LEMMA SizesWithOne ==
    ASSUME NEW rows, NEW S, IsFiniteSet(S), \A c \in S : rows[c].size \in Nat,
           NEW b, b \notin S,
           NEW later, \A c \in S : later[c] = rows[c], later[b].size \in Nat
    PROVE  Sizes(later, S \cup {b}) = Sizes(rows, S) + later[b].size
<1> DEFINE T == S \cup {b}
           w == [c \in S |-> rows[c].size]
           v == [c \in T |-> later[c].size]
<1>1. IsFiniteSet(T) /\ T \ {b} = S /\ b \in T
  BY FS_AddElement
<1>2. Sizes(rows, S) = Total(w, S) /\ Sizes(later, T) = Total(v, T)
  BY <1>1, BytesAreTotal
<1>3. (\A c \in S : v[c] = w[c] /\ w[c] \in Nat) /\ v[b] = later[b].size
  OBVIOUS
<1>4. \A c \in T : v[c] \in Nat
  OBVIOUS
<1> HIDE DEF v, w, T
<1>5. Total(v, T) = v[b] + Total(v, S)
  BY <1>1, <1>4, TotalWithout
<1>6. Total(v, S) = Total(w, S) /\ Total(w, S) \in Nat
  BY <1>3, TotalOfEqual, TotalType
<1> QED
  BY <1>2, <1>3, <1>5, <1>6 DEF T

\* The server has room for what it has; there are finitely many rows, whatever the ids.
QuotaInv ==
    /\ IsFiniteSet(Stored)
    /\ \A d \in Device : Sizes(blob, SentBy(d)) <= MaxBytesPerDevice

\* Rows that only go away make room, for the devices that sent them and for no other.
LEMMA DeletionMakesRoom ==
    ASSUME TypeOK, QuotaInv, \A b \in Stored' : b \in Stored /\ blob'[b] = blob[b]
    PROVE  QuotaInv'
<1>1. Stored' \in SUBSET Stored
  OBVIOUS
<1>2. IsFiniteSet(Stored')
  BY <1>1, FS_Subset DEF QuotaInv
<1>3. ASSUME NEW d \in Device
      PROVE  Sizes(blob', SentBy(d)') <= MaxBytesPerDevice
  <2>1. SentBy(d) \in SUBSET Stored /\ SentBy(d)' \in SUBSET SentBy(d)
        /\ \A b \in SentBy(d)' : blob'[b] = blob[b]
    BY <1>1 DEF SentBy
  <2>2. \A b \in SentBy(d) : blob[b].size \in Nat
    BY LimitsAssumption DEF SentBy, Stored, TypeOK, BlobRow
  <2>3. IsFiniteSet(SentBy(d))
    BY <2>1, FS_Subset DEF QuotaInv
  <2>4. Sizes(blob', SentBy(d)') <= Sizes(blob, SentBy(d))
    BY <2>1, <2>2, <2>3, SizesOfPart
  <2>5. Sizes(blob, SentBy(d)) <= MaxBytesPerDevice
    BY DEF QuotaInv
  <2>6. Sizes(blob, SentBy(d)) \in Nat /\ Sizes(blob', SentBy(d)') \in Nat
    <3>1. IsFiniteSet(SentBy(d)') /\ \A b \in SentBy(d)' : blob'[b].size \in Nat
      BY <2>1, <2>2, <2>3, FS_Subset
    <3> QED
      BY <2>2, <2>3, <3>1, SizesType
  <2> QED
    BY <2>4, <2>5, <2>6, LimitsAssumption
<1> QED
  BY <1>2, <1>3 DEF QuotaInv

\* The row that is inserted was counted by HasRoom, in the same stretch.
LEMMA UploadFits ==
    ASSUME TypeOK, QuotaInv, NEW r \in authed, NEW b \in Blob, NEW n \in 1 .. MaxBlobBytes + 1,
           PostBlob(r, b, n) \/ CrashInPostBlob(r, b, n)
    PROVE  QuotaInv'
<1>1. /\ b \notin Stored
      /\ \A c \in Blob : c # b => blob'[c] = blob[c]
      /\ \/ blob'[b] = NoRow
         \/ blob'[b].from = r.id /\ blob'[b].size = n
  BY UploadStep
<1>2. r.id \in Device /\ n \in Nat
  BY LimitsAssumption DEF TypeOK, Caller
<1>3. Sizes(blob, SentBy(r.id)) + n <= MaxBytesPerDevice
  BY DEF PostBlob, CrashInPostBlob, MayStore, HasRoom, BytesUsed, Sizes
<1>4. CASE blob'[b] = NoRow
  <2>1. \A c \in Stored' : c \in Stored /\ blob'[c] = blob[c]
    BY <1>1, <1>4 DEF Stored
  <2> QED
    BY <2>1, DeletionMakesRoom
<1>5. CASE blob'[b] # NoRow
  <2>1. Stored' = Stored \cup {b}
    BY <1>1, <1>5 DEF Stored
  <2>2. IsFiniteSet(Stored')
    BY <2>1, FS_AddElement DEF QuotaInv
  <2>3. ASSUME NEW d \in Device
        PROVE  Sizes(blob', SentBy(d)') <= MaxBytesPerDevice
    <3>1. SentBy(d) \in SUBSET Stored /\ b \notin SentBy(d)
          /\ \A c \in SentBy(d) : blob'[c] = blob[c] /\ blob[c].size \in Nat
      BY <1>1, LimitsAssumption DEF SentBy, Stored, TypeOK, BlobRow
    <3>2. IsFiniteSet(SentBy(d))
      BY <3>1, FS_Subset DEF QuotaInv
    <3>3. CASE d = r.id
      <4>1. SentBy(d)' = SentBy(d) \cup {b}
        BY <1>1, <1>5, <2>1, <3>3 DEF SentBy, Stored
      <4>2. Sizes(blob', SentBy(d) \cup {b}) = Sizes(blob, SentBy(d)) + n
        BY <1>1, <1>2, <1>5, <3>1, <3>2, SizesWithOne
      <4> QED
        BY <1>3, <3>3, <4>1, <4>2
    <3>4. CASE d # r.id
      <4>1. SentBy(d)' = SentBy(d)
        BY <1>1, <1>5, <2>1, <3>4 DEF SentBy, Stored
      <4>2. Sizes(blob', SentBy(d)) = Sizes(blob, SentBy(d))
        BY <3>1, <3>2, SizesOfEqual
      <4> QED
        BY <4>1, <4>2 DEF QuotaInv
    <3> QED
      BY <3>3, <3>4
  <2> QED
    BY <2>2, <2>3 DEF QuotaInv
<1> QED
  BY <1>4, <1>5

\* No device ever has more on the server than the quota, although what is counted and what
\* is inserted are rows that other requests and sweeps delete (server.ts:341).
THEOREM QuotaAlwaysHolds == Spec => []QuotaHolds
<1>1. Init => QuotaInv
  <2> SUFFICES ASSUME Init PROVE QuotaInv
    OBVIOUS
  <2>1. Stored = {} /\ \A d \in Device : SentBy(d) = {}
    BY DEF Init, Stored, SentBy
  <2>2. Sizes(blob, {}) = 0
    BY SizesOfNone
  <2> QED
    BY <2>1, <2>2, FS_EmptySet, LimitsAssumption DEF QuotaInv
<1>2. TypeOK /\ QuotaInv /\ [Next]_vars => QuotaInv'
  <2> SUFFICES ASSUME TypeOK, QuotaInv, [Next]_vars PROVE QuotaInv'
    OBVIOUS
  <2>1. CASE UNCHANGED <<blob, disk>>
    BY <2>1, DeletionMakesRoom DEF Stored
  <2>2. ASSUME NEW r \in authed, NEW d \in Device, RevokeDevice(r, d) PROVE QuotaInv'
    <3>1. \A b \in Stored' : b \in Stored /\ blob'[b] = blob[b]
      BY <2>2 DEF RevokeDevice, DeleteRows, Stored
    <3> QED
      BY <3>1, DeletionMakesRoom
  <2>3. ASSUME NEW r \in authed, NEW b \in Blob, NEW n \in 1 .. MaxBlobBytes + 1,
               PostBlob(r, b, n) \/ CrashInPostBlob(r, b, n)
        PROVE  QuotaInv'
    BY <2>3, UploadFits
  <2>4. ASSUME NEW S \in SUBSET Blob, DeleteRows(S) PROVE QuotaInv'
    <3>1. \A b \in Stored' : b \in Stored /\ blob'[b] = blob[b]
      BY <2>4 DEF DeleteRows, Stored
    <3> QED
      BY <3>1, DeletionMakesRoom
  <2> QED
    BY <2>1, <2>2, <2>3, <2>4, BlobSteps
<1>3. QuotaInv => QuotaHolds
  BY DEF QuotaInv, QuotaHolds, BytesUsed, Sizes
<1>4. QED
  BY <1>1, <1>2, <1>3, TypeCorrect, PTL DEF Spec
-----------------------------------------------------------------------------
(* Every step of the server is a step of MailBox or leaves the box alone. *)

\* A place of the box is full exactly when its row is there.
LEMMA BoxHeld ==
  ASSUME TypeOK
  PROVE  /\ Box!Held = Stored
         /\ \A b \in Stored : BoxNow[b].account = blob[b].account /\ BoxNow[b].from = blob[b].from
         /\ \A a : Box!HeldFor(a) = {b \in Stored : blob[b].account = a}
<1> USE DEF Stored, BoxNow
<1>1. \A b \in Stored : [account |-> blob[b].account, from |-> blob[b].from]
                          \in [account : Account, from : Device]
  BY DEF TypeOK, BlobRow
<1>2. \A b \in Stored : BoxNow[b] # NoRow
  BY <1>1, MarkersAssumption
<1>3. Box!Held = Stored
  BY <1>2 DEF Box!Held
<1> QED
  BY <1>3 DEF Box!HeldFor

\* Answering requests leaves no more desktops to be served than there were.
LEMMA FewerAsking ==
  ASSUME authed' \subseteq authed
  PROVE  Asking' \subseteq Asking
BY DEF Asking

\* Deleting rows, and nothing else, empties their places.
LEMMA DeletionEmpties ==
  ASSUME TypeOK, NEW S \in SUBSET Blob, DeleteRows(S), UNCHANGED clock, authed' \subseteq authed
  PROVE  Box!Empty(S)
<1> USE DEF Stored, DeleteRows
<1>1. Stored' = Stored \ S /\ \A b \in Blob \ S : blob'[b] = blob[b]
  OBVIOUS
<1>2. BoxNow' = [b \in Blob |-> IF b \in S THEN NoRow ELSE BoxNow[b]]
  BY <1>1 DEF BoxNow
<1>3. Expired' = Expired \ S
  BY <1>1 DEF Expired
<1> QED
  BY <1>2, <1>3, FewerAsking DEF Box!Empty
-----------------------------------------------------------------------------
\* A server that has just been installed holds an empty box.
LEMMA BoxInit == Init => Box!Init
BY DEF Init, Box!Init, BoxNow, Expired, Stored, Asking

\* A step that touches neither rows nor the clock only answers requests.
LEMMA BoxQuiet ==
  ASSUME UNCHANGED <<blob, clock>>, authed' \subseteq authed
  PROVE  Box!Next
<1>1. UNCHANGED <<BoxNow, Stored, Expired>>
  BY DEF BoxNow, Expired, Stored
<1>2. Box!Rest
  BY <1>1, FewerAsking DEF Box!Rest
<1> QED
  BY <1>2 DEF Box!Next

\* A desktop that is authenticated asks; a phone goes unnoticed.
LEMMA BoxAsk ==
  ASSUME TypeOK, NEW d \in Device, Authenticate(d)
  PROVE  Box!Next
<1>1. device[d].account \in Account
  BY DEF Authenticate, TypeOK, Live, DeviceRow
<1>2. UNCHANGED <<BoxNow, Stored, Expired>>
  BY DEF Authenticate, BoxNow, Expired, Stored
<1>3. CASE device[d].role = "pc"
  <2> DEFINE r == [id |-> d, account |-> device[d].account, role |-> device[d].role]
  <2>1. Asking' = Asking \cup {device[d].account}
    <3>1. authed' = authed \cup {r}
      BY DEF Authenticate
    <3>2. r.account = device[d].account /\ r.role = "pc"
      BY <1>3
    <3> HIDE DEF r
    <3>3. {q \in authed' : q.role = "pc"} = {q \in authed : q.role = "pc"} \cup {r}
      BY <3>1, <3>2
    <3> QED
      BY <3>2, <3>3 DEF Asking
  <2>2. Box!Ask(device[d].account)
    BY <1>2, <2>1 DEF Box!Ask
  <2> QED
    BY <1>1, <2>2 DEF Box!Next
<1>4. CASE device[d].role # "pc"
  <2>1. Asking' = Asking
    BY <1>4 DEF Authenticate, Asking
  <2>2. Box!Rest
    BY <1>2, <2>1 DEF Box!Rest
  <2> QED
    BY <2>2 DEF Box!Next
<1> QED
  BY <1>3, <1>4

\* A row that is inserted is a page put into an empty place; an INSERT that throws
\* changes nothing the box shows.
LEMMA BoxDeposit ==
  ASSUME TypeOK, TypeOK', NEW r \in authed, NEW b \in Blob, NEW n \in 1 .. MaxBlobBytes + 1,
         PostBlob(r, b, n)
  PROVE  Box!Next
<1>1. /\ b \in Blob \ Stored
      /\ \A c \in Blob : c # b => blob'[c] = blob[c]
      /\ UNCHANGED clock
      /\ authed' \subseteq authed
  BY UploadStep DEF PostBlob, Answered
<1>2. CASE UNCHANGED blob
  BY <1>1, <1>2, BoxQuiet
<1>3. CASE RowFits(r, b)
  <2> DEFINE page == [account |-> r.account, from |-> r.id]
  <2>1. blob'[b] = [account |-> r.account, from |-> r.id, size |-> n, created |-> clock]
    <3>1. blob' = [blob EXCEPT ![b] = [account |-> r.account, from |-> r.id,
                                       size |-> n, created |-> clock]]
      BY <1>3 DEF PostBlob
    <3> QED
      BY <3>1 DEF TypeOK
  <2>2. page \in Box!Sealed
    BY DEF TypeOK, Caller, Box!Sealed
  <2>3. n \in 1 .. MaxBlobBytes
    BY LimitsAssumption DEF PostBlob, MayStore
  <2>4. blob'[b] \in BlobRow
    BY <2>1, <2>2, <2>3 DEF TypeOK, BlobRow, Caller
  <2>5. Stored' = Stored \cup {b}
    BY <1>1, <2>4, MarkersAssumption DEF Stored
  <2>6. BoxNow' = [BoxNow EXCEPT ![b] = page]
    <3>1. BoxNow' = [c \in Blob |-> IF c \in Stored \cup {b}
                       THEN [account |-> blob'[c].account, from |-> blob'[c].from] ELSE NoRow]
      BY <2>5 DEF BoxNow
    <3>2. BoxNow' = [c \in Blob |-> IF c = b THEN page ELSE BoxNow[c]]
      BY <1>1, <2>1, <3>1 DEF BoxNow
    <3> QED
      BY <3>2 DEF BoxNow
  <2>7. b \notin Expired'
    BY <1>1, <2>1, LimitsAssumption DEF Expired, TypeOK
  <2>8. Expired' = Expired \ {b}
    BY <1>1, <2>5, <2>7 DEF Expired, Stored
  <2>9. Box!Deposit(b, page)
    BY <1>1, <2>6, <2>8, BoxHeld, FewerAsking DEF Box!Deposit
  <2> QED
    BY <2>2, <2>9 DEF Box!Next
<1> QED
  BY <1>2, <1>3 DEF PostBlob

\* What an ack deletes, whole or torn, is what the account's desktop may take.
LEMMA BoxTake ==
  ASSUME TypeOK, NEW r \in authed, r.role = "pc", NEW S \in SUBSET Ackable(r, Blob),
         DeleteRows(S), UNCHANGED clock, authed' \subseteq authed
  PROVE  Box!Next
<1>1. S \subseteq Box!HeldFor(r.account) /\ S \in SUBSET Blob /\ r.account \in Account
  BY BoxHeld DEF Ackable, Stored, TypeOK, Caller
<1>2. r.account \in Asking
  BY DEF Asking
<1>3. Box!Take(r.account, S)
  BY <1>1, <1>2, DeletionEmpties DEF Box!Take
<1> QED
  BY <1>1, <1>3 DEF Box!Next

\* What a sweep deletes, whole or torn, has expired.
LEMMA BoxExpire ==
  ASSUME TypeOK, NEW S \in SUBSET Expired, DeleteRows(S), UNCHANGED clock,
         authed' \subseteq authed
  PROVE  Box!Next
<1>1. S \in SUBSET Blob
  BY DEF Expired, Stored
<1>2. Box!Expire(S)
  BY <1>1, DeletionEmpties DEF Box!Expire
<1> QED
  BY <1>1, <1>2 DEF Box!Next

\* A revoked phone takes its pages with it, and they are of the revoking account.
LEMMA BoxDrop ==
  ASSUME TypeOK, RowHasItsDevice, NEW r \in authed, NEW d \in Device, RevokeDevice(r, d)
  PROVE  Box!Next
<1>1. /\ r.role = "pc" /\ device[d].account = r.account
      /\ DeleteRows(SentBy(d)) /\ UNCHANGED clock /\ authed' \subseteq authed
  BY DEF RevokeDevice, MayRevoke, Answered
<1>2. r.account \in Asking /\ r.account \in Account
  BY <1>1 DEF Asking, TypeOK, Caller
<1>3. SentBy(d) = {b \in Box!Held : BoxNow[b].from = d} /\ SentBy(d) \in SUBSET Blob
  BY BoxHeld DEF SentBy, Stored
<1>4. \A b \in Box!Held : BoxNow[b].from = d => BoxNow[b].account = r.account
  BY <1>1, BoxHeld DEF RowHasItsDevice
<1>5. Box!DropDevice(r.account, d)
  BY <1>1, <1>2, <1>3, <1>4, DeletionEmpties DEF Box!DropDevice
<1> QED
  BY <1>2, <1>5 DEF Box!Next

\* Time makes pages old and does nothing else.
LEMMA BoxAge ==
  ASSUME TypeOK, Tick
  PROVE  Box!Next
<1>1. UNCHANGED BoxNow /\ Stored' = Stored /\ Asking' = Asking
  BY DEF Tick, BoxNow, Stored, Asking
<1>2. Expired \subseteq Expired' /\ Expired' \subseteq Expired \cup Stored
  BY <1>1, LimitsAssumption DEF Tick, Expired, Stored, TypeOK, BlobRow
<1>3. Box!Rest
  BY <1>1, <1>2, BoxHeld DEF Box!Rest
<1> QED
  BY <1>3 DEF Box!Next

\* The server implements the box it promises: whatever handlers interleave and
\* wherever the process dies, the phone and the desktop see a box.
THEOREM ServerImplementsMailBox == Spec => ImplementsMailBox
<1>1. TypeOK /\ TypeOK' /\ RowHasItsDevice /\ [Next]_vars => [Box!Next]_(Box!vars)
  <2> SUFFICES ASSUME TypeOK, TypeOK', RowHasItsDevice, [Next]_vars
               PROVE  Box!Next \/ UNCHANGED Box!vars
    OBVIOUS
  <2>1. CASE UNCHANGED <<blob, clock>> /\ authed' \subseteq authed
    BY <2>1, BoxQuiet
  <2>2. ASSUME NEW d \in Device, Authenticate(d) PROVE Box!Next
    BY <2>2, BoxAsk
  <2>3. ASSUME NEW r \in authed, NEW d \in Device, RevokeDevice(r, d) PROVE Box!Next
    BY <2>3, BoxDrop
  <2>4. CASE Registry
    BY <2>1, <2>3, <2>4 DEF Registry, RegisterPc, CrashInRegisterPc, CreatePairing,
       CompletePairing, CrashInCompletePairing, Answered
  <2>5. ASSUME NEW r \in authed, NEW S \in SUBSET Blob, AckBlobs(r, S) PROVE Box!Next
    BY <2>5, BoxTake DEF AckBlobs, Ackable, Answered
  <2>6. ASSUME NEW r \in authed, NEW S \in SUBSET Blob, NEW done \in SUBSET Blob,
               CrashInAckBlobs(r, S, done)
        PROVE  Box!Next
    BY <2>6, BoxTake DEF CrashInAckBlobs, TornDelete, Ackable
  <2>7. CASE PruneExpired
    BY <2>7, BoxExpire DEF PruneExpired
  <2>8. ASSUME NEW done \in SUBSET Blob, CrashInPruneExpired(done) PROVE Box!Next
    BY <2>8, BoxExpire DEF CrashInPruneExpired, TornDelete
  <2>9. ASSUME NEW r \in authed, NEW b \in Blob, NEW n \in 1 .. MaxBlobBytes + 1,
               PostBlob(r, b, n)
        PROVE  Box!Next
    BY <2>9, BoxDeposit
  <2>10. ASSUME NEW r \in authed, NEW b \in Blob, NEW n \in 1 .. MaxBlobBytes + 1,
                CrashInPostBlob(r, b, n)
         PROVE  Box!Next
    BY <2>10, BoxQuiet DEF CrashInPostBlob
  <2>11. CASE Blobs
    BY <2>5, <2>6, <2>7, <2>8, <2>9, <2>10, <2>11 DEF Blobs
  <2>12. CASE Tick
    BY <2>12, BoxAge
  <2>13. CASE UNCHANGED vars
    BY <2>1, <2>13 DEF vars
  <2> QED
    BY <2>1, <2>2, <2>4, <2>11, <2>12, <2>13 DEF Next, AnswerOnly, Crash, Answered
<1>2. QED
  BY <1>1, BoxInit, TypeCorrect, RowsHaveTheirDevice, PTL DEF Spec, ImplementsMailBox, Box!Spec
=============================================================================
