-------------------------- MODULE PhoneStoreProofs --------------------------
(***************************************************************************)
(* Theorems of PhoneStore: its types, what its manifests say of pages,     *)
(* what a prune may delete, and the places of pages in their sessions.     *)
(***************************************************************************)
EXTENDS PhoneStore, InductionLemmas

-----------------------------------------------------------------------------
(* The strengthenings *)

\* A change under way that will call a page uploaded, or delete its photograph, has the
\* server's answer for it.
ChangesAreTrue ==
    \A s \in Slot : change[s] # NoChange =>
        /\ change[s].to = "uploaded" => change[s].page \in acked
        /\ change[s].remove \subseteq acked

StoreInv == TypeOK /\ ChangesAreTrue /\ UploadedIsTrue /\ OnlyCopyIsKept

\* The plan of a prune names only pages its manifest calls uploaded, whatever the sizes,
\* the ages and the limits (retention.ts:53, 65).
LEMMA EvictedAreUploaded ==
    ASSUME NEW m, NEW cutoff
    PROVE  Evicted(m, cutoff) \subseteq {p \in Page : m[p] = "uploaded"}
BY DEF Evicted, Listed

\* A change turns a manifest into a manifest.
LEMMA PatchedType ==
    ASSUME NEW c \in Change
    PROVE  Patched(c) \in Manifest
BY DEF Patched, Change, Manifest, States

LEMMA WaitingType ==
    ASSUME NEW m
    PROVE  Waiting(m) \subseteq Page
BY DEF Waiting

LEMMA TakenCounted == Cardinality(Taken) \in Nat
<1>1. Taken \subseteq Page
  BY DEF Taken
<1>2. IsFiniteSet(Taken)
  BY <1>1, StoreAssumption, FS_Subset
<1>. QED  BY <1>2, FS_CardinalityType

LEMMA NothingListedType == NothingListed \in Manifest
BY DEF NothingListed, Manifest, States

-----------------------------------------------------------------------------
(* Types *)

LEMMA InitTyped == Init => TypeOK
<1>. SUFFICES ASSUME Init PROVE TypeOK
  OBVIOUS
<1>1. manifest \in Manifest
  BY NothingListedType DEF Init
<1>2. run \in [Run -> [on : BOOLEAN, todo : SUBSET Page]]
  BY DEF Init, NotRunning
<1>. QED  BY <1>1, <1>2 DEF Init, TypeOK

LEMMA RestartTyped ==
    ASSUME TypeOK, NEW m \in Manifest, NEW f \in SUBSET Page, Restart(m, f)
    PROVE  TypeOK'
<1>1. run' \in [Run -> [on : BOOLEAN, todo : SUBSET Page]]
  BY DEF Restart, NotRunning
<1>2. shown' \subseteq Page
  BY WaitingType DEF Restart
<1>3. faults' \in Nat
  BY DEF TypeOK, Restart, Fault
<1>. QED  BY <1>1, <1>2, <1>3 DEF TypeOK, Restart, NoCamera

LEMMA BeginTyped ==
    ASSUME TypeOK, NEW s \in Slot, NEW do \in {"add", "mark"}, NEW p \in Page, NEW to \in States,
           Begin(s, do, p, to)
    PROVE  change' \in [Slot -> Change \cup {NoChange}]
<1>1. [do |-> do, page |-> p, to |-> to, remove |-> {}, read |-> FALSE, copy |-> NothingListed] \in Change
  BY NothingListedType DEF Change
<1>. QED  BY <1>1 DEF TypeOK, Begin

LEMMA TypeKept == TypeOK /\ [Next]_vars => TypeOK'
<1>. SUFFICES ASSUME TypeOK, [Next]_vars PROVE TypeOK'
  OBVIOUS
<1>1. ASSUME NEW s \in Slot, ReadManifest(s) PROVE TypeOK'
  <2>1. [change[s] EXCEPT !.read = TRUE, !.copy = manifest] \in Change
    BY <1>1 DEF TypeOK, ReadManifest, Change
  <2>2. change' = [change EXCEPT ![s] = [change[s] EXCEPT !.read = TRUE, !.copy = manifest]]
    BY <1>1 DEF TypeOK, ReadManifest
  <2>3. change' \in [Slot -> Change \cup {NoChange}]
    BY <2>1, <2>2 DEF TypeOK
  <2>. QED  BY <1>1, <2>3 DEF TypeOK, ReadManifest, camera, uploads
<1>2. ASSUME NEW s \in Slot, WriteManifest(s) PROVE TypeOK'
  <2>1. change[s] \in Change
    BY <1>2 DEF TypeOK, WriteManifest
  <2>2. manifest' \in Manifest
    BY <1>2, <2>1, PatchedType DEF WriteManifest
  <2>3. shown' \subseteq Page
    BY <1>2, WaitingType DEF WriteManifest, TypeOK
  <2>4. shots' \in Nat
    BY <1>2 DEF WriteManifest, TypeOK
  <2>5. busy' \in BOOLEAN
    BY <1>2 DEF WriteManifest, TypeOK
  <2>6. photo' \subseteq Page /\ change' \in [Slot -> Change \cup {NoChange}]
    BY <1>2 DEF WriteManifest, TypeOK
  <2>. QED  BY <1>2, <2>2, <2>3, <2>4, <2>5, <2>6 DEF TypeOK, WriteManifest, uploads
<1>3. ASSUME NEW s \in Slot, NEW cutoff \in Cutoffs, PruneCaptures(s, cutoff) PROVE TypeOK'
  <2>1. Evicted(manifest, cutoff) \subseteq Page
    BY EvictedAreUploaded
  <2>2. [do |-> "prune", page |-> NoPage, to |-> "none", remove |-> Evicted(manifest, cutoff),
         read |-> TRUE, copy |-> manifest] \in Change
    BY <2>1 DEF TypeOK, Change, States
  <2>3. change' \in [Slot -> Change \cup {NoChange}]
    BY <1>3, <2>2 DEF TypeOK, PruneCaptures
  <2>. QED  BY <1>3, <2>3 DEF TypeOK, PruneCaptures, camera, uploads
<1>4. ASSUME NEW s \in Slot, NEW left \in {manifest, NothingListed}, FailWrite(s, left) PROVE TypeOK'
  <2>1. manifest' \in Manifest
    BY <1>4, NothingListedType DEF TypeOK, FailWrite
  <2>2. photo' \subseteq Page /\ change' \in [Slot -> Change \cup {NoChange}]
    BY <1>4 DEF TypeOK, FailWrite
  <2>3. busy' \in BOOLEAN
    BY <1>4 DEF TypeOK, FailWrite
  <2>4. faults' \in Nat
    BY <1>4 DEF TypeOK, FailWrite, Fault
  <2>. QED  BY <1>4, <2>1, <2>2, <2>3, <2>4 DEF TypeOK, FailWrite, uploads
<1>5. ASSUME NEW new \in Session, OpenCamera(new) PROVE TypeOK'
  <2>1. new # NoSession
    BY StoreAssumption
  <2>. QED  BY <1>5, <2>1 DEF TypeOK, OpenCamera
<1>6. ASSUME NEW s \in Slot, NEW p \in Page, Shoot(s, p) PROVE TypeOK'
  <2>1. [session |-> session, seq |-> shots, at |-> Cardinality(Taken)] \in Photo
    BY <1>6, TakenCounted DEF TypeOK, Shoot, Photo
  <2>2. taken' \in [Page -> Photo \cup {NoPhoto}]
    BY <1>6, <2>1 DEF TypeOK, Shoot
  <2>3. change' \in [Slot -> Change \cup {NoChange}]
    BY <1>6, BeginTyped DEF Shoot, States
  <2>4. photo' \subseteq Page
    BY <1>6 DEF TypeOK, Shoot
  <2>. QED  BY <1>6, <2>2, <2>3, <2>4 DEF TypeOK, Shoot, uploads
<1>7. CASE OpenQueue
  BY <1>7 DEF TypeOK, OpenQueue, NoCamera, uploads
<1>8. ASSUME NEW r \in Run, StartUpload(r) PROVE TypeOK'
  <2>1. run' \in [Run -> [on : BOOLEAN, todo : SUBSET Page]]
    BY <1>8 DEF TypeOK, StartUpload
  <2>. QED  BY <1>8, <2>1 DEF TypeOK, StartUpload, camera
<1>9. ASSUME NEW r \in Run, EndUpload(r) PROVE TypeOK'
  <2>1. run' \in [Run -> [on : BOOLEAN, todo : SUBSET Page]]
    BY <1>9 DEF TypeOK, EndUpload, NotRunning
  <2>2. shown' \subseteq Page
    BY <1>9, WaitingType DEF EndUpload
  <2>. QED  BY <1>9, <2>1, <2>2 DEF TypeOK, EndUpload, camera
<1>10. ASSUME NEW r \in Run, NEW p \in Page, NEW s \in Slot, NEW outcome \in {"uploaded", "waiting"},
              UploadPage(r, p, s, outcome)
       PROVE  TypeOK'
  <2>1. change' \in [Slot -> Change \cup {NoChange}]
    BY <1>10, BeginTyped DEF UploadPage, States
  <2>2. run' \in [Run -> [on : BOOLEAN, todo : SUBSET Page]]
    BY <1>10 DEF TypeOK, UploadPage
  <2>3. acked' \subseteq Page
    BY <1>10 DEF TypeOK, UploadPage
  <2>. QED  BY <1>10, <2>1, <2>2, <2>3 DEF TypeOK, UploadPage, camera
<1>11. CASE Kill
  BY <1>11, RestartTyped DEF TypeOK, Kill
<1>12. ASSUME NEW s \in Slot, KillInWrite(s) PROVE TypeOK'
  <2>1. photo \ change[s].remove \in SUBSET Page
    BY DEF TypeOK
  <2>. QED  BY <1>12, <2>1, RestartTyped, NothingListedType DEF KillInWrite
<1>13. ASSUME NEW s \in Slot, NEW gone \in SUBSET Page, KillInPrune(s, gone) PROVE TypeOK'
  <2>1. photo \ gone \in SUBSET Page /\ manifest \in Manifest
    BY DEF TypeOK
  <2>. QED  BY <1>13, <2>1, RestartTyped DEF KillInPrune
<1>14. CASE UNCHANGED vars
  BY <1>14 DEF TypeOK, vars, camera, uploads
<1>. QED  BY <1>1, <1>2, <1>3, <1>4, <1>5, <1>6, <1>7, <1>8, <1>9, <1>10, <1>11, <1>12, <1>13, <1>14
          DEF Next

\* Every reachable state of the phone's storage and screens is well typed.
THEOREM StoreTypeCorrect == Spec => []TypeOK
BY InitTyped, TypeKept, PTL DEF Spec
-----------------------------------------------------------------------------
(* What manifests say, and what is deleted *)

\* What a change writes calls a page uploaded only if its copy did, or if it brings the
\* news itself.
LEMMA PatchedIsTrue ==
    ASSUME NEW c, NEW p \in Page, Patched(c)[p] = "uploaded"
    PROVE  c.copy[p] = "uploaded" \/ (c.to = "uploaded" /\ c.page = p)
BY DEF Patched

LEMMA NothingListedIsTrue == \A p \in Page : NothingListed[p] # "uploaded"
BY DEF NothingListed

LEMMA RestartTrue ==
    ASSUME StoreInv, NEW m \in {manifest, NothingListed}, NEW f, photo \ acked \subseteq f,
           Restart(m, f)
    PROVE  (ChangesAreTrue /\ UploadedIsTrue /\ OnlyCopyIsKept)'
<1>1. \A p \in Page : m[p] = "uploaded" => p \in acked
  BY NothingListedIsTrue DEF StoreInv, UploadedIsTrue, Believed
<1>2. \A s \in Slot : change'[s] = NoChange
  BY DEF Restart
<1>3. ChangesAreTrue'
  BY <1>2 DEF ChangesAreTrue
<1>4. UploadedIsTrue'
  BY <1>1, <1>2 DEF UploadedIsTrue, Believed, Restart
<1>5. OnlyCopyIsKept'
  BY DEF StoreInv, OnlyCopyIsKept, Taken, Restart
<1>. QED  BY <1>3, <1>4, <1>5

\* A new change has read nothing yet.
LEMMA BeginTrue ==
    ASSUME StoreInv, NEW s \in Slot, NEW do, NEW p \in Page, NEW to, Begin(s, do, p, to),
           to = "uploaded" => p \in acked', acked \subseteq acked', manifest' = manifest
    PROVE  (ChangesAreTrue /\ UploadedIsTrue)'
<1>. DEFINE c == [do |-> do, page |-> p, to |-> to, remove |-> {}, read |-> FALSE, copy |-> NothingListed]
<1>1. change' = [change EXCEPT ![s] = c]
  BY DEF Begin
<1>2. \A x \in Slot : change'[x] = IF x = s THEN c ELSE change[x]
  BY <1>1 DEF StoreInv, TypeOK
<1>3. c.to = to /\ c.page = p /\ c.remove = {} /\ c.copy = NothingListed
  OBVIOUS
<1>. HIDE DEF c
<1>4. ChangesAreTrue'
  BY <1>2, <1>3 DEF StoreInv, ChangesAreTrue
<1>5. UploadedIsTrue'
  BY <1>2, <1>3, NothingListedIsTrue DEF StoreInv, UploadedIsTrue, Believed
<1>. QED  BY <1>4, <1>5

\* A change that ends leaves true changes, and a true manifest if its own is.
LEMMA EndTrue ==
    ASSUME StoreInv, NEW s \in Slot, change' = [change EXCEPT ![s] = NoChange], acked' = acked,
           \A p \in Page : manifest'[p] = "uploaded" => p \in acked
    PROVE  (ChangesAreTrue /\ UploadedIsTrue)'
<1>1. \A x \in Slot : change'[x] = IF x = s THEN NoChange ELSE change[x]
  BY DEF StoreInv, TypeOK
<1>2. ChangesAreTrue'
  BY <1>1 DEF StoreInv, ChangesAreTrue
<1>3. UploadedIsTrue'
  BY <1>1 DEF StoreInv, UploadedIsTrue, Believed
<1>. QED  BY <1>2, <1>3

LEMMA StoreKept == StoreInv /\ [Next]_vars => StoreInv'
<1>. SUFFICES ASSUME StoreInv, [Next]_vars
              PROVE  (ChangesAreTrue /\ UploadedIsTrue /\ OnlyCopyIsKept)'
  BY TypeKept DEF StoreInv
<1>. USE DEF StoreInv
<1>1. ASSUME NEW s \in Slot, ReadManifest(s) PROVE (ChangesAreTrue /\ UploadedIsTrue /\ OnlyCopyIsKept)'
  <2>1. change[s] \in Change
    BY <1>1 DEF TypeOK, ReadManifest
  <2>2. /\ change'[s].to = change[s].to
        /\ change'[s].page = change[s].page
        /\ change'[s].remove = change[s].remove
        /\ change'[s].copy = manifest
    BY <1>1, <2>1 DEF TypeOK, ReadManifest, Change
  <2>3. \A x \in Slot \ {s} : change'[x] = change[x]
    BY <1>1 DEF TypeOK, ReadManifest
  <2>4. change[s] # NoChange /\ acked' = acked /\ manifest' = manifest
    BY <1>1 DEF ReadManifest, uploads
  <2>5. ChangesAreTrue'
    BY <2>2, <2>3, <2>4 DEF ChangesAreTrue
  <2>6. UploadedIsTrue'
    BY <2>2, <2>3, <2>4 DEF UploadedIsTrue, Believed
  <2>7. OnlyCopyIsKept'
    BY <1>1 DEF ReadManifest, uploads, OnlyCopyIsKept, Taken
  <2>. QED  BY <2>5, <2>6, <2>7
<1>2. ASSUME NEW s \in Slot, WriteManifest(s) PROVE (ChangesAreTrue /\ UploadedIsTrue /\ OnlyCopyIsKept)'
  <2>1. change[s] # NoChange /\ acked' = acked /\ manifest' = Patched(change[s])
    BY <1>2 DEF WriteManifest, uploads
  <2>2. \A p \in Page : change[s].copy[p] = "uploaded" => p \in acked
    BY <2>1 DEF UploadedIsTrue, Believed
  <2>3. \A p \in Page : manifest'[p] = "uploaded" => p \in acked
    BY <2>1, <2>2, PatchedIsTrue DEF ChangesAreTrue
  <2>4. (ChangesAreTrue /\ UploadedIsTrue)'
    BY <1>2, <2>1, <2>3, EndTrue DEF WriteManifest
  <2>5. OnlyCopyIsKept'
    BY <1>2, <2>1 DEF WriteManifest, OnlyCopyIsKept, ChangesAreTrue, Taken
  <2>. QED  BY <2>4, <2>5
<1>3. ASSUME NEW s \in Slot, NEW cutoff \in Cutoffs, PruneCaptures(s, cutoff)
      PROVE  (ChangesAreTrue /\ UploadedIsTrue /\ OnlyCopyIsKept)'
  <2>1. Evicted(manifest, cutoff) \subseteq acked
    BY EvictedAreUploaded DEF UploadedIsTrue, Believed
  <2>. DEFINE c == [do |-> "prune", page |-> NoPage, to |-> "none", remove |-> Evicted(manifest, cutoff),
                    read |-> TRUE, copy |-> manifest]
  <2>2. change' = [change EXCEPT ![s] = c]
    BY <1>3 DEF PruneCaptures
  <2>3. \A x \in Slot : change'[x] = IF x = s THEN c ELSE change[x]
    BY <2>2 DEF TypeOK
  <2>4. c.to = "none" /\ c.remove \subseteq acked /\ c.copy = manifest
    BY <2>1
  <2>. HIDE DEF c
  <2>5. acked' = acked /\ manifest' = manifest
    BY <1>3 DEF PruneCaptures, uploads
  <2>6. ChangesAreTrue'
    BY <2>3, <2>4, <2>5 DEF ChangesAreTrue
  <2>7. UploadedIsTrue'
    BY <2>3, <2>4, <2>5 DEF UploadedIsTrue, Believed
  <2>8. OnlyCopyIsKept'
    BY <1>3 DEF PruneCaptures, uploads, OnlyCopyIsKept, Taken
  <2>. QED  BY <2>6, <2>7, <2>8
<1>4. ASSUME NEW s \in Slot, NEW left \in {manifest, NothingListed}, FailWrite(s, left)
      PROVE  (ChangesAreTrue /\ UploadedIsTrue /\ OnlyCopyIsKept)'
  <2>1. change[s] # NoChange /\ acked' = acked /\ manifest' = left
    BY <1>4 DEF FailWrite, uploads
  <2>2. \A p \in Page : manifest'[p] = "uploaded" => p \in acked
    BY <2>1, NothingListedIsTrue DEF UploadedIsTrue, Believed
  <2>3. (ChangesAreTrue /\ UploadedIsTrue)'
    BY <1>4, <2>1, <2>2, EndTrue DEF FailWrite
  <2>4. OnlyCopyIsKept'
    BY <1>4, <2>1 DEF FailWrite, OnlyCopyIsKept, ChangesAreTrue, Taken
  <2>. QED  BY <2>3, <2>4
<1>5. ASSUME NEW new \in Session, OpenCamera(new) PROVE (ChangesAreTrue /\ UploadedIsTrue /\ OnlyCopyIsKept)'
  BY <1>5 DEF OpenCamera, ChangesAreTrue, UploadedIsTrue, Believed, OnlyCopyIsKept, Taken
<1>6. ASSUME NEW s \in Slot, NEW p \in Page, Shoot(s, p)
      PROVE  (ChangesAreTrue /\ UploadedIsTrue /\ OnlyCopyIsKept)'
  <2>1. (ChangesAreTrue /\ UploadedIsTrue)'
    BY <1>6, BeginTrue DEF Shoot, uploads
  <2>2. OnlyCopyIsKept'
    BY <1>6 DEF TypeOK, Shoot, uploads, OnlyCopyIsKept, Taken
  <2>. QED  BY <2>1, <2>2
<1>7. CASE OpenQueue
  BY <1>7 DEF OpenQueue, uploads, ChangesAreTrue, UploadedIsTrue, Believed, OnlyCopyIsKept, Taken
<1>8. ASSUME NEW r \in Run, StartUpload(r) PROVE (ChangesAreTrue /\ UploadedIsTrue /\ OnlyCopyIsKept)'
  BY <1>8 DEF StartUpload, ChangesAreTrue, UploadedIsTrue, Believed, OnlyCopyIsKept, Taken
<1>9. ASSUME NEW r \in Run, EndUpload(r) PROVE (ChangesAreTrue /\ UploadedIsTrue /\ OnlyCopyIsKept)'
  BY <1>9 DEF EndUpload, ChangesAreTrue, UploadedIsTrue, Believed, OnlyCopyIsKept, Taken
<1>10. ASSUME NEW r \in Run, NEW p \in Page, NEW s \in Slot, NEW outcome \in {"uploaded", "waiting"},
              UploadPage(r, p, s, outcome)
       PROVE  (ChangesAreTrue /\ UploadedIsTrue /\ OnlyCopyIsKept)'
  <2>1. acked \subseteq acked' /\ (outcome = "uploaded" => p \in acked')
    BY <1>10 DEF UploadPage
  <2>2. (ChangesAreTrue /\ UploadedIsTrue)'
    BY <1>10, <2>1, BeginTrue DEF UploadPage
  <2>3. OnlyCopyIsKept'
    BY <1>10, <2>1 DEF UploadPage, OnlyCopyIsKept, Taken
  <2>. QED  BY <2>2, <2>3
<1>11. CASE Kill
  BY <1>11, RestartTrue DEF Kill
<1>12. ASSUME NEW s \in Slot, KillInWrite(s) PROVE (ChangesAreTrue /\ UploadedIsTrue /\ OnlyCopyIsKept)'
  <2>1. photo \ acked \subseteq photo \ change[s].remove
    BY <1>12 DEF KillInWrite, ChangesAreTrue
  <2>. QED  BY <1>12, <2>1, RestartTrue DEF KillInWrite
<1>13. ASSUME NEW s \in Slot, NEW gone \in SUBSET Page, KillInPrune(s, gone)
       PROVE  (ChangesAreTrue /\ UploadedIsTrue /\ OnlyCopyIsKept)'
  <2>1. photo \ acked \subseteq photo \ gone
    BY <1>13 DEF KillInPrune, ChangesAreTrue
  <2>. QED  BY <1>13, <2>1, RestartTrue DEF KillInPrune
<1>14. CASE UNCHANGED vars
  BY <1>14 DEF vars, uploads, ChangesAreTrue, UploadedIsTrue, Believed, OnlyCopyIsKept, Taken
<1>. QED  BY <1>1, <1>2, <1>3, <1>4, <1>5, <1>6, <1>7, <1>8, <1>9, <1>10, <1>11, <1>12, <1>13, <1>14
          DEF Next

LEMMA StoreHolds == Spec => []StoreInv
<1>1. Init => StoreInv
  <2>. SUFFICES ASSUME Init PROVE StoreInv
    OBVIOUS
  <2>1. ChangesAreTrue
    BY DEF Init, ChangesAreTrue
  <2>2. UploadedIsTrue
    BY NothingListedIsTrue DEF Init, UploadedIsTrue, Believed
  <2>3. OnlyCopyIsKept
    BY DEF Init, OnlyCopyIsKept, Taken
  <2>. QED  BY <2>1, <2>2, <2>3, InitTyped DEF StoreInv
<1>. QED  BY <1>1, StoreKept, PTL DEF Spec

\* No manifest, and no copy of one that may still be written, calls a page uploaded that
\* the server has not answered for, whatever changes overlap, are lost or torn.
THEOREM UploadedIsAlwaysTrue == Spec => []UploadedIsTrue
<1>1. StoreInv => UploadedIsTrue
  BY DEF StoreInv
<1>. QED  BY <1>1, StoreHolds, PTL

\* Nothing ever deletes the photograph of a page the server has not answered for, with any
\* limits and any clock, even a prune that works on a stale manifest (docs/PHONE.md:28).
THEOREM OnlyCopyIsAlwaysKept == Spec => []OnlyCopyIsKept
<1>1. StoreInv => OnlyCopyIsKept
  BY DEF StoreInv
<1>. QED  BY <1>1, StoreHolds, PTL
-----------------------------------------------------------------------------
(* Places *)

Adding(s) == change[s] # NoChange /\ change[s].do = "add"

\* The pages that some memory of the app, or the server, may still bring up.
Known ==
    {p \in Page : \/ p \in Listed(manifest) \cup acked \cup shown
                  \/ \E r \in Run : p \in run[r].todo
                  \/ \E s \in Slot : change[s] # NoChange /\ p \in Listed(change[s].copy)}

\* Those, and the photographs that are being added.
Live == Known \cup {p \in Page : \E s \in Slot : Adding(s) /\ change[s].page = p}

SamePlace(p, q) == taken[p].session = taken[q].session /\ taken[p].seq = taken[q].seq

LiveAreTaken == Live \subseteq Taken
LiveAreApart == \A p, q \in Live : SamePlace(p, q) => p = q
KnownAreBehind ==
    \A p \in Known : screen = "camera" /\ taken[p].session = session => taken[p].seq < shots
ShotIsNext ==
    \A s \in Slot : Adding(s) /\ ShotOfThisScreen(change[s]) => busy /\ taken[change[s].page].seq = shots
AddedOnce ==
    \A s, t \in Slot : Adding(s) /\ Adding(t) /\ change[s].page = change[t].page => s = t
AddsPages == \A s \in Slot : Adding(s) => change[s].page \in Page

PlacesInv ==
    LiveAreTaken /\ LiveAreApart /\ KnownAreBehind /\ ShotIsNext /\ AddedOnce /\ AddsPages

\* A step that brings up no page, adds none, and leaves the camera alone or behind.
LEMMA PlacesQuiet ==
    ASSUME PlacesInv, Known' \subseteq Known,
           \A s \in Slot : Adding(s)' => Adding(s) /\ change'[s].page = change[s].page,
           taken' = taken,
           screen' # "camera" \/ UNCHANGED <<screen, session, shots, busy>>
    PROVE  PlacesInv'
<1>1. Live' \subseteq Live
  BY DEF Live
<1>2. LiveAreTaken' /\ LiveAreApart'
  BY <1>1 DEF PlacesInv, LiveAreTaken, LiveAreApart, Taken, SamePlace
<1>3. KnownAreBehind'
  BY DEF PlacesInv, KnownAreBehind
<1>4. ShotIsNext'
  BY DEF PlacesInv, ShotIsNext, ShotOfThisScreen, Adding
<1>5. AddedOnce' /\ AddsPages'
  BY DEF PlacesInv, AddedOnce, AddsPages
<1>. QED  BY <1>2, <1>3, <1>4, <1>5 DEF PlacesInv

LEMMA NothingKnown == Listed(NothingListed) = {}
BY DEF Listed, NothingListed

\* A restart knows only what the disk and the server know.
LEMMA PlacesRestart ==
    ASSUME PlacesInv, NEW m \in {manifest, NothingListed}, NEW f, Restart(m, f)
    PROVE  PlacesInv'
<1>1. Listed(m) \subseteq Listed(manifest)
  BY NothingKnown
<1>2. Waiting(m) \subseteq Listed(m)
  BY DEF Waiting, Listed
<1>3. \A s \in Slot : change'[s] = NoChange
  BY DEF Restart
<1>4. \A r \in Run : run'[r].todo = {}
  BY DEF Restart, NotRunning
<1>5. Known' \subseteq Known
  <2>1. manifest' = m /\ acked' = acked /\ shown' = Waiting(m)
    BY DEF Restart
  <2>2. Listed(manifest)' = Listed(m)
    BY <2>1 DEF Listed
  <2>. QED  BY <1>1, <1>2, <1>3, <1>4, <2>1, <2>2 DEF Known
<1>6. taken' = taken /\ screen' # "camera"
  BY DEF Restart
<1>. QED  BY <1>3, <1>5, <1>6, PlacesQuiet DEF Adding

\* A shot of the mounted camera is the only one on its way, so when it ends its screen has
\* none.
LEMMA OneShotAtATime ==
    ASSUME TypeOK, PlacesInv, NEW s \in Slot, NEW t \in Slot, Adding(s), Adding(t),
           ShotOfThisScreen(change[s]), ShotOfThisScreen(change[t])
    PROVE  s = t
<1>1. change[s].page \in Live /\ change[t].page \in Live
  BY DEF PlacesInv, AddsPages, Live
<1>2. SamePlace(change[s].page, change[t].page)
  BY DEF PlacesInv, ShotIsNext, ShotOfThisScreen, SamePlace
<1>. QED  BY <1>1, <1>2 DEF PlacesInv, LiveAreApart, AddedOnce

LEMMA PlacesKept == TypeOK /\ PlacesInv /\ [Next]_vars => PlacesInv'
<1>. SUFFICES ASSUME TypeOK, PlacesInv, [Next]_vars PROVE PlacesInv'
  OBVIOUS
<1>1. ASSUME NEW s \in Slot, ReadManifest(s) PROVE PlacesInv'
  <2>1. change[s] \in Change
    BY <1>1 DEF TypeOK, ReadManifest
  <2>2. /\ change'[s].do = change[s].do
        /\ change'[s].page = change[s].page
        /\ change'[s].copy = manifest
    BY <1>1, <2>1 DEF TypeOK, ReadManifest, Change
  <2>3. \A x \in Slot \ {s} : change'[x] = change[x]
    BY <1>1 DEF TypeOK, ReadManifest
  <2>4. change[s] # NoChange /\ UNCHANGED <<manifest, taken, screen, session, shots, busy, shown, run, acked>>
    BY <1>1 DEF ReadManifest, uploads, camera
  <2>5. Known' \subseteq Known
    BY <2>2, <2>3, <2>4 DEF Known, Listed
  <2>6. \A x \in Slot : Adding(x)' => Adding(x) /\ change'[x].page = change[x].page
    BY <2>2, <2>3, <2>4 DEF Adding
  <2>. QED  BY <2>4, <2>5, <2>6, PlacesQuiet
<1>2. ASSUME NEW s \in Slot, WriteManifest(s) PROVE PlacesInv'
  <2>. DEFINE c == change[s]
  <2>1. c \in Change /\ c # NoChange
    BY <1>2 DEF TypeOK, WriteManifest
  <2>2. \A x \in Slot : change'[x] = IF x = s THEN NoChange ELSE change[x]
    BY <1>2 DEF TypeOK, WriteManifest
  <2>3. UNCHANGED <<taken, screen, session, run, acked>> /\ manifest' = Patched(c)
    BY <1>2 DEF WriteManifest, uploads
  <2>4. Listed(manifest') \subseteq Listed(c.copy) \cup {p \in Page : c.do = "add" /\ p = c.page}
    BY <2>3 DEF Listed, Patched
  <2>5. shown' \subseteq shown \cup Listed(manifest')
    BY <1>2 DEF WriteManifest, Waiting, Listed
  <2>6. Known' \subseteq Known \cup {p \in Page : c.do = "add" /\ p = c.page}
    BY <2>1, <2>2, <2>3, <2>4, <2>5 DEF Known, Listed
  <2>7. \A x \in Slot : Adding(x)' => x # s /\ Adding(x) /\ change'[x].page = change[x].page
    BY <2>2 DEF Adding
  <2>8. CASE ~Adding(s)
    <3>1. c.do # "add"
      BY <2>1, <2>8 DEF Adding
    <3>2. UNCHANGED <<shots, busy>>
      BY <1>2, <3>1 DEF TypeOK, WriteManifest, ShotOfThisScreen
    <3>. QED  BY <2>3, <2>6, <2>7, <3>1, <3>2, PlacesQuiet
  <2>9. CASE Adding(s)
    <3>1. c.page \in Page /\ c.page \in Live
      BY <2>9 DEF PlacesInv, AddsPages, Live
    <3>2. Live' \subseteq Live
      BY <2>6, <2>7, <3>1 DEF Live
    <3>3. LiveAreTaken' /\ LiveAreApart'
      BY <2>3, <3>2 DEF PlacesInv, LiveAreTaken, LiveAreApart, Taken, SamePlace
    <3>4. KnownAreBehind'
      <4>1. taken[c.page] \in Photo
        BY <3>1 DEF PlacesInv, LiveAreTaken, Taken, TypeOK
      <4>2. \A p \in Page : p \in Live => taken[p].seq \in Nat
        BY DEF PlacesInv, LiveAreTaken, Taken, TypeOK, Photo
      <4>3. CASE ShotOfThisScreen(c)
        <5>1. shots' = shots + 1 /\ taken[c.page].seq = shots
          BY <1>2, <2>9, <4>3 DEF WriteManifest, PlacesInv, ShotIsNext
        <5>2. shots \in Nat
          BY DEF TypeOK
        <5>3. ASSUME NEW p \in Known', screen' = "camera", taken'[p].session = session'
              PROVE  taken'[p].seq < shots'
          <6>1. CASE p = c.page
            BY <2>3, <5>1, <5>2, <6>1
          <6>2. CASE p \in Known
            <7>1. taken[p].seq < shots /\ taken[p].seq \in Nat
              BY <2>3, <4>2, <5>3, <6>2 DEF PlacesInv, KnownAreBehind, Live, Known
            <7>. QED  BY <2>3, <5>1, <5>2, <7>1
          <6>. QED  BY <2>6, <6>1, <6>2
        <5>. QED  BY <5>3 DEF KnownAreBehind
      <4>4. CASE ~ShotOfThisScreen(c)
        <5>1. shots' = shots
          BY <1>2, <4>4 DEF WriteManifest
        <5>2. ~(screen = "camera" /\ session = taken[c.page].session)
          BY <2>9, <4>4 DEF ShotOfThisScreen, Adding
        <5>. QED  BY <2>3, <2>6, <5>1, <5>2 DEF PlacesInv, KnownAreBehind
      <4>. QED  BY <4>3, <4>4
    <3>5. ShotIsNext'
      <4>1. ASSUME NEW t \in Slot, Adding(t)', ShotOfThisScreen(change[t])'
            PROVE  busy' /\ taken'[change'[t].page].seq = shots'
        <5>1. t # s /\ Adding(t) /\ change'[t] = change[t]
          BY <2>2, <2>7, <4>1
        <5>2. ShotOfThisScreen(change[t])
          BY <2>3, <4>1, <5>1 DEF ShotOfThisScreen
        <5>3. ~ShotOfThisScreen(c)
          BY <2>9, <5>1, <5>2, OneShotAtATime
        <5>4. busy /\ taken[change[t].page].seq = shots
          BY <5>1, <5>2 DEF PlacesInv, ShotIsNext
        <5>5. shots' = shots
          BY <1>2, <5>3 DEF WriteManifest
        <5>6. busy'
          BY <1>2, <5>3, <5>4 DEF WriteManifest
        <5>. QED  BY <2>3, <5>1, <5>4, <5>5, <5>6
      <4>. QED  BY <4>1 DEF ShotIsNext
    <3>6. AddedOnce' /\ AddsPages'
      BY <2>7 DEF PlacesInv, AddedOnce, AddsPages
    <3>. QED  BY <3>3, <3>4, <3>5, <3>6 DEF PlacesInv
  <2>. QED  BY <2>8, <2>9
<1>3. ASSUME NEW s \in Slot, NEW cutoff \in Cutoffs, PruneCaptures(s, cutoff) PROVE PlacesInv'
  <2>. DEFINE c == [do |-> "prune", page |-> NoPage, to |-> "none", remove |-> Evicted(manifest, cutoff),
                    read |-> TRUE, copy |-> manifest]
  <2>1. change' = [change EXCEPT ![s] = c]
    BY <1>3 DEF PruneCaptures
  <2>2. \A x \in Slot : change'[x] = IF x = s THEN c ELSE change[x]
    BY <2>1 DEF TypeOK
  <2>3. c.do # "add" /\ c.copy = manifest
    OBVIOUS
  <2>. HIDE DEF c
  <2>4. UNCHANGED <<manifest, taken, screen, session, shots, busy, shown, run, acked>>
    BY <1>3 DEF PruneCaptures, uploads, camera
  <2>5. Known' \subseteq Known
    BY <2>2, <2>3, <2>4 DEF Known, Listed
  <2>6. \A x \in Slot : Adding(x)' => Adding(x) /\ change'[x].page = change[x].page
    BY <2>2, <2>3 DEF Adding
  <2>. QED  BY <2>4, <2>5, <2>6, PlacesQuiet
<1>4. ASSUME NEW s \in Slot, NEW left \in {manifest, NothingListed}, FailWrite(s, left) PROVE PlacesInv'
  <2>1. change[s] # NoChange /\ UNCHANGED <<taken, screen, session, shots, shown, run, acked>> /\ manifest' = left
    BY <1>4 DEF FailWrite, uploads
  <2>2. \A x \in Slot : change'[x] = IF x = s THEN NoChange ELSE change[x]
    BY <1>4 DEF TypeOK, FailWrite
  <2>3. Listed(manifest') \subseteq Listed(manifest)
    BY <2>1, NothingKnown
  <2>4. Known' \subseteq Known
    BY <2>1, <2>2, <2>3 DEF Known, Listed
  <2>5. \A x \in Slot : Adding(x)' => x # s /\ Adding(x) /\ change'[x].page = change[x].page
    BY <2>2 DEF Adding
  <2>6. CASE ~ShotOfThisScreen(change[s])
    <3>1. busy' = busy
      BY <1>4, <2>6 DEF TypeOK, FailWrite
    <3>. QED  BY <2>1, <2>4, <2>5, <3>1, PlacesQuiet
  <2>7. CASE ShotOfThisScreen(change[s])
    <3>1. Adding(s)
      BY <2>1, <2>7 DEF ShotOfThisScreen, Adding
    <3>2. Live' \subseteq Live
      BY <2>4, <2>5 DEF Live
    <3>3. LiveAreTaken' /\ LiveAreApart'
      BY <2>1, <3>2 DEF PlacesInv, LiveAreTaken, LiveAreApart, Taken, SamePlace
    <3>4. KnownAreBehind'
      BY <2>1, <2>4 DEF PlacesInv, KnownAreBehind
    <3>5. ASSUME NEW t \in Slot, Adding(t)', ShotOfThisScreen(change[t])' PROVE FALSE
      <4>1. t # s /\ Adding(t) /\ change'[t] = change[t]
        BY <2>2, <2>5, <3>5
      <4>2. ShotOfThisScreen(change[t])
        BY <2>1, <3>5, <4>1 DEF ShotOfThisScreen
      <4>. QED  BY <2>7, <3>1, <4>1, <4>2, OneShotAtATime
    <3>6. ShotIsNext'
      BY <3>5 DEF ShotIsNext
    <3>7. AddedOnce' /\ AddsPages'
      BY <2>5 DEF PlacesInv, AddedOnce, AddsPages
    <3>. QED  BY <3>3, <3>4, <3>6, <3>7 DEF PlacesInv
  <2>. QED  BY <2>6, <2>7
<1>5. ASSUME NEW new \in Session, OpenCamera(new) PROVE PlacesInv'
  <2>1. UNCHANGED <<manifest, taken, change, shown, run, acked>> /\ session' = new
    BY <1>5 DEF OpenCamera
  <2>2. \A p \in Live : taken[p].session # new
    BY <1>5 DEF OpenCamera, PlacesInv, LiveAreTaken
  <2>3. Live' = Live /\ Known' = Known
    BY <2>1 DEF Live, Known, Listed, Adding
  <2>4. LiveAreTaken' /\ LiveAreApart'
    BY <2>1, <2>3 DEF PlacesInv, LiveAreTaken, LiveAreApart, Taken, SamePlace
  <2>5. KnownAreBehind'
    BY <2>1, <2>2, <2>3 DEF KnownAreBehind, Live
  <2>6. ShotIsNext'
    BY <2>1, <2>2 DEF ShotIsNext, ShotOfThisScreen, Adding, PlacesInv, AddsPages, Live
  <2>7. AddedOnce' /\ AddsPages'
    BY <2>1 DEF PlacesInv, AddedOnce, AddsPages, Adding
  <2>. QED  BY <2>4, <2>5, <2>6, <2>7 DEF PlacesInv
<1>6. ASSUME NEW s \in Slot, NEW p \in Page, Shoot(s, p) PROVE PlacesInv'
  <2>. DEFINE c == [do |-> "add", page |-> p, to |-> "waiting", remove |-> {}, read |-> FALSE,
                    copy |-> NothingListed]
              shot == [session |-> session, seq |-> shots, at |-> Cardinality(Taken)]
  <2>1. change[s] = NoChange /\ change' = [change EXCEPT ![s] = c]
    BY <1>6 DEF Shoot, Begin
  <2>2. \A x \in Slot : change'[x] = IF x = s THEN c ELSE change[x]
    BY <2>1 DEF TypeOK
  <2>3. c.do = "add" /\ c.page = p /\ c.copy = NothingListed
    OBVIOUS
  <2>4. \A q \in Page : taken'[q] = IF q = p THEN shot ELSE taken[q]
    BY <1>6 DEF TypeOK, Shoot
  <2>5. shot.session = session /\ shot.seq = shots /\ shot \in Photo
    BY <1>6, TakenCounted DEF TypeOK, Shoot, Photo
  <2>. HIDE DEF c, shot
  <2>6. UNCHANGED <<manifest, screen, session, shots, shown, run, acked>> /\ busy' = TRUE
    BY <1>6 DEF Shoot, uploads
  <2>7. taken[p] = NoPhoto /\ screen = "camera"
    BY <1>6 DEF Shoot
  <2>8. p \notin Live
    BY <2>7 DEF PlacesInv, LiveAreTaken, Taken
  <2>9. Known' \subseteq Known
    BY <2>2, <2>3, <2>6, NothingKnown DEF Known, Listed
  <2>10. \A x \in Slot \ {s} : change'[x] = change[x] /\ (Adding(x)' => Adding(x))
    BY <2>2 DEF Adding
  <2>11. Live' \subseteq Live \cup {p}
    BY <2>2, <2>3, <2>9, <2>10 DEF Live
  <2>12. \A q \in Live : q # p /\ taken'[q] = taken[q]
    BY <2>4, <2>8 DEF Live, Known
  <2>13. LiveAreTaken'
    <3>1. shot # NoPhoto
      BY <2>5, StoreAssumption
    <3>. QED  BY <2>4, <2>11, <2>12, <3>1 DEF PlacesInv, LiveAreTaken, Taken
  <2>14. ~busy
    <3>1. ~ShutterDisabled
      BY <1>6 DEF Shoot
    <3>. QED  BY <3>1 DEF ShutterDisabled
  <2>15. \A t \in Slot : ~(Adding(t) /\ ShotOfThisScreen(change[t]))
    BY <2>14 DEF PlacesInv, ShotIsNext
  <2>16. \A q \in Live : taken[q].session = session => taken[q].seq < shots
    <3>1. ASSUME NEW q \in Live, taken[q].session = session PROVE taken[q].seq < shots
      <4>1. q \in Known
        BY <2>7, <2>15, <3>1 DEF Live, ShotOfThisScreen, Adding
      <4>. QED  BY <2>7, <3>1, <4>1 DEF PlacesInv, KnownAreBehind
    <3>. QED  BY <3>1
  <2>17. \A q \in Live : ~(taken[q].session = session /\ taken[q].seq = shots)
    <3>1. shots \in Nat
      BY DEF TypeOK
    <3>. QED  BY <2>16, <3>1
  <2>18. LiveAreApart'
    <3>1. ASSUME NEW q \in Live', NEW r \in Live', SamePlace(q, r)' PROVE q = r
      <4>1. CASE q \in Live /\ r \in Live
        BY <2>12, <3>1, <4>1 DEF PlacesInv, LiveAreApart, SamePlace
      <4>2. CASE q \in Live /\ r = p
        BY <2>4, <2>5, <2>12, <2>17, <3>1, <4>2 DEF SamePlace
      <4>3. CASE q = p /\ r \in Live
        BY <2>4, <2>5, <2>12, <2>17, <3>1, <4>3 DEF SamePlace
      <4>. QED  BY <2>11, <4>1, <4>2, <4>3
    <3>. QED  BY <3>1 DEF LiveAreApart
  <2>19. KnownAreBehind'
    <3>1. Known \subseteq Live
      BY DEF Live
    <3>. QED  BY <2>6, <2>9, <2>12, <2>16, <3>1 DEF KnownAreBehind
  <2>20. ShotIsNext'
    <3>1. ASSUME NEW t \in Slot, Adding(t)', ShotOfThisScreen(change[t])'
          PROVE  taken'[change'[t].page].seq = shots'
      <4>1. CASE t = s
        BY <2>2, <2>3, <2>4, <2>5, <2>6, <4>1
      <4>2. CASE t # s
        <5>1. Adding(t) /\ change'[t] = change[t]
          BY <2>10, <3>1, <4>2
        <5>2. change[t].page \in Live
          BY <5>1 DEF PlacesInv, AddsPages, Live
        <5>3. ShotOfThisScreen(change[t])
          BY <2>6, <2>12, <3>1, <5>1, <5>2 DEF ShotOfThisScreen
        <5>. QED  BY <2>15, <5>1, <5>3
      <4>. QED  BY <4>1, <4>2
    <3>. QED  BY <2>6, <3>1 DEF ShotIsNext
  <2>21. AddsPages'
    BY <2>2, <2>3, <2>10 DEF PlacesInv, AddsPages
  <2>22. AddedOnce'
    <3>1. \A t \in Slot \ {s} : Adding(t)' => change'[t].page \in Live /\ change'[t].page # p
      BY <2>8, <2>10 DEF PlacesInv, AddsPages, Live
    <3>. QED  BY <2>2, <2>3, <2>10, <3>1 DEF PlacesInv, AddedOnce
  <2>. QED  BY <2>13, <2>18, <2>19, <2>20, <2>21, <2>22 DEF PlacesInv
<1>7. CASE OpenQueue
  <2>1. Known' \subseteq Known /\ taken' = taken /\ change' = change /\ screen' # "camera"
    BY <1>7 DEF OpenQueue, uploads, Known, Listed
  <2>. QED  BY <2>1, PlacesQuiet DEF Adding
<1>8. ASSUME NEW r \in Run, StartUpload(r) PROVE PlacesInv'
  <2>1. \A x \in Run : run'[x].todo \subseteq run[x].todo \cup shown
    BY <1>8 DEF TypeOK, StartUpload
  <2>2. UNCHANGED <<manifest, taken, change, screen, session, shots, busy, shown, acked>>
    BY <1>8 DEF StartUpload, camera
  <2>3. Known' \subseteq Known
    BY <2>1, <2>2 DEF Known, Listed
  <2>. QED  BY <2>2, <2>3, PlacesQuiet DEF Adding
<1>9. ASSUME NEW r \in Run, EndUpload(r) PROVE PlacesInv'
  <2>1. \A x \in Run : run'[x].todo \subseteq run[x].todo
    BY <1>9 DEF TypeOK, EndUpload, NotRunning
  <2>2. UNCHANGED <<manifest, taken, change, screen, session, shots, busy, acked>>
    BY <1>9 DEF EndUpload, camera
  <2>3. shown' \subseteq Listed(manifest)
    BY <1>9 DEF EndUpload, Waiting, Listed
  <2>4. Known' \subseteq Known
    BY <2>1, <2>2, <2>3 DEF Known, Listed
  <2>. QED  BY <2>2, <2>4, PlacesQuiet DEF Adding
<1>10. ASSUME NEW r \in Run, NEW p \in Page, NEW s \in Slot, NEW outcome \in {"uploaded", "waiting"},
              UploadPage(r, p, s, outcome)
       PROVE  PlacesInv'
  <2>. DEFINE c == [do |-> "mark", page |-> p, to |-> outcome, remove |-> {}, read |-> FALSE,
                    copy |-> NothingListed]
  <2>1. change[s] = NoChange /\ change' = [change EXCEPT ![s] = c]
    BY <1>10 DEF UploadPage, Begin
  <2>2. \A x \in Slot : change'[x] = IF x = s THEN c ELSE change[x]
    BY <2>1 DEF TypeOK
  <2>3. c.do # "add" /\ c.copy = NothingListed
    OBVIOUS
  <2>. HIDE DEF c
  <2>4. \A x \in Run : run'[x].todo \subseteq run[x].todo
    BY <1>10 DEF TypeOK, UploadPage
  <2>5. UNCHANGED <<manifest, taken, screen, session, shots, busy, shown>>
    BY <1>10 DEF UploadPage, camera
  <2>6. acked' \subseteq acked \cup {p} /\ p \in run[r].todo
    BY <1>10 DEF UploadPage
  <2>7. Known' \subseteq Known
    BY <2>2, <2>3, <2>4, <2>5, <2>6, NothingKnown DEF Known, Listed
  <2>8. \A x \in Slot : Adding(x)' => Adding(x) /\ change'[x].page = change[x].page
    BY <2>2, <2>3 DEF Adding
  <2>. QED  BY <2>5, <2>7, <2>8, PlacesQuiet
<1>11. CASE Kill
  BY <1>11, PlacesRestart DEF Kill
<1>12. ASSUME NEW s \in Slot, KillInWrite(s) PROVE PlacesInv'
  BY <1>12, PlacesRestart DEF KillInWrite
<1>13. ASSUME NEW s \in Slot, NEW gone \in SUBSET Page, KillInPrune(s, gone) PROVE PlacesInv'
  BY <1>13, PlacesRestart DEF KillInPrune
<1>14. CASE UNCHANGED vars
  <2>1. Known' \subseteq Known /\ taken' = taken /\ change' = change /\ UNCHANGED <<screen, session, shots, busy>>
    BY <1>14 DEF vars, camera, uploads, Known, Listed
  <2>. QED  BY <2>1, PlacesQuiet DEF Adding
<1>. QED  BY <1>1, <1>2, <1>3, <1>4, <1>5, <1>6, <1>7, <1>8, <1>9, <1>10, <1>11, <1>12, <1>13, <1>14
          DEF Next

LEMMA PlacesHold == Spec => []PlacesInv
<1>1. Init => PlacesInv
  <2>. SUFFICES ASSUME Init PROVE PlacesInv
    OBVIOUS
  <2>1. Known = {}
    BY NothingKnown DEF Init, Known, NotRunning
  <2>2. \A s \in Slot : ~Adding(s)
    BY DEF Init, Adding
  <2>3. Live = {}
    BY <2>1, <2>2 DEF Live
  <2>. QED  BY <2>1, <2>2, <2>3
            DEF PlacesInv, LiveAreTaken, LiveAreApart, KnownAreBehind, ShotIsNext, AddedOnce, AddsPages
<1>. QED  BY <1>1, InitTyped, TypeKept, PlacesKept, PTL DEF Spec

\* No two pages that are listed or sent have the same place in a session, although shots
\* outlive their screens, fail, and are lost from the manifest and come back with a stale
\* copy of it.
THEOREM PlacesAlwaysUnique == Spec => []PlacesAreUnique
<1>1. TypeOK /\ PlacesInv => PlacesAreUnique
  <2>. SUFFICES ASSUME TypeOK, PlacesInv PROVE PlacesAreUnique
    OBVIOUS
  <2>1. Listed(manifest) \cup acked \subseteq Live
    BY DEF TypeOK, Live, Known, Listed
  <2>. QED  BY <2>1 DEF PlacesInv, LiveAreApart, PlacesAreUnique, SamePlace
<1>. QED  BY <1>1, StoreTypeCorrect, PlacesHold, PTL
-----------------------------------------------------------------------------
(* The plan of a prune *)

\* Of two captures one is the newer.
TimesApart ==
    /\ \A p \in Taken : taken[p].at < Cardinality(Taken)
    /\ \A p, q \in Taken : taken[p].at = taken[q].at => p = q

LEMMA TimesType ==
    ASSUME TypeOK
    PROVE  \A p \in Taken : taken[p].at \in Nat
BY DEF TypeOK, Taken, Photo

\* Only a shot adds a capture, and it is the newest.
LEMMA TimesKept == TypeOK /\ TimesApart /\ [Next]_vars => TimesApart'
<1>. SUFFICES ASSUME TypeOK, TimesApart, [Next]_vars PROVE TimesApart'
  OBVIOUS
<1>1. CASE UNCHANGED taken
  BY <1>1 DEF TimesApart, Taken
<1>2. ASSUME NEW s \in Slot, NEW p \in Page, Shoot(s, p) PROVE TimesApart'
  <2>. DEFINE n == Cardinality(Taken)
              shot == [session |-> session, seq |-> shots, at |-> n]
  <2>1. taken[p] = NoPhoto /\ taken' = [taken EXCEPT ![p] = shot]
    BY <1>2 DEF Shoot
  <2>2. shot \in Photo /\ shot.at = n /\ n \in Nat
    BY <1>2, TakenCounted DEF TypeOK, Shoot, Photo
  <2>. HIDE DEF shot
  <2>3. \A q \in Page : taken'[q] = IF q = p THEN shot ELSE taken[q]
    BY <2>1 DEF TypeOK
  <2>4. Taken' = Taken \cup {p} /\ p \notin Taken
    BY <2>1, <2>2, <2>3, StoreAssumption DEF Taken
  <2>5. Cardinality(Taken') = n + 1
    <3>1. IsFiniteSet(Taken)
      BY StoreAssumption, FS_Subset DEF Taken
    <3>. QED  BY <2>4, <3>1, FS_AddElement
  <2>6. \A q \in Taken : taken'[q] = taken[q] /\ taken[q].at < n /\ taken[q].at \in Nat
    BY <2>3, <2>4, TimesType DEF TimesApart, Taken
  <2>. HIDE DEF n
  <2>7. taken'[p].at = n
    BY <2>2, <2>3
  <2>8. \A q \in Taken' : taken'[q].at < Cardinality(Taken')
    BY <2>2, <2>4, <2>5, <2>6, <2>7
  <2>9. \A q \in Taken : taken'[q].at # taken'[p].at
    BY <2>2, <2>6, <2>7
  <2>10. \A q, r \in Taken' : taken'[q].at = taken'[r].at => q = r
    BY <2>4, <2>6, <2>9 DEF TimesApart
  <2>. QED  BY <2>8, <2>10 DEF TimesApart
<1>. QED
  BY <1>1, <1>2 DEF Next, ReadManifest, WriteManifest, KillInWrite, PruneCaptures, FailWrite, KillInPrune,
     OpenCamera, OpenQueue, StartUpload, EndUpload, UploadPage, Kill, Restart, vars

\* The listed pages that a prune does not evict for their age, those of them that are newer
\* than p, and the oldest of these, which planPrune comes to just before p.
Young(m, cutoff) == {p \in Listed(m) : ~(m[p] = "uploaded" /\ Expired(p, cutoff))}
Ahead(m, cutoff, p) == {q \in Young(m, cutoff) : Newer(q, p)}
Nearest(m, cutoff, p) ==
    CHOOSE x \in Ahead(m, cutoff, p) : \A y \in Ahead(m, cutoff, p) \ {x} : Newer(y, x)

\* What planPrune adds for q to the n bytes it has counted.
Added(m, q, n) == IF m[q] = "uploaded" /\ n + PageBytes[q] > MaxBytes THEN 0 ELSE PageBytes[q]

LEMMA NearestIsNearest ==
    ASSUME TypeOK, TimesApart, NEW m, Listed(m) \subseteq Taken, NEW cutoff, NEW p,
           Ahead(m, cutoff, p) # {}
    PROVE  LET q == Nearest(m, cutoff, p)
           IN  /\ q \in Ahead(m, cutoff, p)
               /\ \A y \in Ahead(m, cutoff, p) \ {q} : Newer(y, q)
<1>. DEFINE S == Ahead(m, cutoff, p)
            T == {taken[x].at : x \in S}
<1>1. S \subseteq Taken
  BY DEF Ahead, Young
<1>. HIDE DEF S
<1>2. T \in SUBSET Nat /\ T # {}
  BY <1>1, TimesType DEF S
<1>3. PICK n \in T : \A k \in T : n <= k
  <2>. HIDE DEF T
  <2>. QED  BY <1>2, LeastOf
<1>4. PICK x \in S : n = taken[x].at
  OBVIOUS
<1>5. ASSUME NEW y \in S \ {x} PROVE Newer(y, x)
  <2>1. taken[y].at \in T /\ taken[y].at \in Nat /\ taken[x].at \in Nat
    BY <1>1, TimesType
  <2>2. taken[x].at <= taken[y].at
    BY <1>3, <1>4, <2>1
  <2>3. taken[x].at # taken[y].at
    BY <1>1 DEF TimesApart
  <2>. QED  BY <2>1, <2>2, <2>3 DEF Newer
<1>. QED  BY <1>5 DEF S, Nearest

\* The numbers that planPrune counts by exist: each page is counted after newer ones.
LEMMA CountedAt ==
    ASSUME TypeOK, TimesApart, NEW m, Listed(m) \subseteq Taken, NEW cutoff
    PROVE  \A p \in Page :
              Counted(m, cutoff)[p] =
                 IF Ahead(m, cutoff, p) = {} THEN 0
                 ELSE LET q == Nearest(m, cutoff, p)
                      IN  Counted(m, cutoff)[q] + Added(m, q, Counted(m, cutoff)[q])
<1>. DEFINE ahead(p) == Ahead(m, cutoff, p)
            nearest(p) == Nearest(m, cutoff, p)
            C == Cardinality(Taken)
            prev == [p \in Page |-> IF ahead(p) = {} THEN p ELSE nearest(p)]
            rank == [p \in Page |-> IF p \in Taken THEN C - taken[p].at ELSE C + 1]
            step == [x \in Page \X Nat |-> x[2] + Added(m, prev[x[1]], x[2])]
            Counts(f) == f = [p \in Page |-> IF ahead(p) = {} THEN 0
                                             ELSE f[nearest(p)] + Added(m, nearest(p), f[nearest(p)])]
<1>1. \A p \in Page : ahead(p) # {} => nearest(p) \in ahead(p)
  BY NearestIsNearest
<1>2. \A p : ahead(p) \subseteq Taken /\ ahead(p) \subseteq Page
  BY DEF Ahead, Young, Taken
<1>3. C \in Nat
  BY TakenCounted
<1>4. \A p \in Taken : taken[p].at \in Nat /\ taken[p].at < C
  BY TimesType DEF TimesApart
<1>5. \A p \in Taken : \A q \in ahead(p) : taken[q].at > taken[p].at
  BY DEF Ahead, Newer
<1>. HIDE DEF C, ahead, nearest
<1>6. prev \in [Page -> Page]
  BY <1>1, <1>2
<1>7. rank \in [Page -> Nat] /\ \A p \in Page : rank[p] <= C + 1
  BY <1>3, <1>4
<1>8. ASSUME NEW p \in Page, ahead(p) # {}
      PROVE  prev[p] = nearest(p) /\ prev[p] \in Taken /\ rank[prev[p]] < rank[p] /\ prev[p] # p
  <2>1. prev[p] = nearest(p) /\ prev[p] \in ahead(p) /\ prev[p] \in Taken /\ prev[p] \in Page
    BY <1>1, <1>2, <1>8
  <2>2. rank[prev[p]] = C - taken[prev[p]].at
    BY <2>1
  <2>. HIDE DEF prev
  <2>3. CASE p \in Taken
    <3>1. rank[p] = C - taken[p].at
      BY <2>3
    <3>2. taken[prev[p]].at > taken[p].at
      BY <1>5, <2>1, <2>3
    <3>3. taken[prev[p]].at \in Nat /\ taken[p].at \in Nat
      BY <1>4, <2>1, <2>3
    <3>. HIDE DEF rank
    <3>4. rank[prev[p]] < rank[p]
      BY <1>3, <2>2, <3>1, <3>2, <3>3
    <3>5. prev[p] # p
      BY <3>2, <3>3
    <3>. QED  BY <2>1, <3>4, <3>5
  <2>4. CASE p \notin Taken
    <3>1. rank[p] = C + 1
      BY <2>4
    <3>2. taken[prev[p]].at \in Nat
      BY <1>4, <2>1
    <3>. HIDE DEF rank
    <3>3. rank[prev[p]] < rank[p]
      BY <1>3, <2>2, <3>1, <3>2
    <3>. QED  BY <2>1, <2>4, <3>3
  <2>. QED  BY <2>3, <2>4
<1>9. \A p \in Page : ahead(p) = {} => prev[p] = p
  OBVIOUS
<1>. HIDE DEF prev, rank
<1>10. \A p \in Page : prev[p] # p => rank[prev[p]] < rank[p]
  BY <1>8, <1>9
<1>11. PICK f : Follows(f, Page, prev, 0, step)
  <2>1. C + 1 \in Nat
    BY <1>3
  <2>. HIDE DEF step
  <2>. QED  BY <1>6, <1>7, <1>10, <2>1, ChainExists
<1>12. \A p \in Page : f[p] = IF prev[p] = p THEN 0 ELSE step[<<p, f[prev[p]]>>]
  <2>. HIDE DEF step
  <2>. QED  BY <1>11, FollowsAt
<1>13. ASSUME NEW p \in Page, f[prev[p]] \in Nat
       PROVE  step[<<p, f[prev[p]]>>] = f[prev[p]] + Added(m, prev[p], f[prev[p]])
  BY <1>13
<1>. HIDE DEF step
<1>14. \A p \in Page : f[p] \in Nat
  <2>. DEFINE T == {rank[p] : p \in {x \in Page : f[x] \notin Nat}}
  <2>. SUFFICES ASSUME T # {} PROVE FALSE
    OBVIOUS
  <2>1. PICK n \in T : \A k \in T : n <= k
    <3>1. T \in SUBSET Nat
      BY <1>7
    <3>. HIDE DEF T
    <3>. QED  BY <3>1, LeastOf
  <2>2. PICK p \in Page : f[p] \notin Nat /\ n = rank[p]
    OBVIOUS
  <2>3. ASSUME prev[p] = p PROVE FALSE
    <3>1. f[p] = 0
      BY <1>12, <2>3
    <3>. QED  BY <2>2, <3>1
  <2>4. rank[prev[p]] < rank[p] /\ prev[p] \in Page /\ rank[prev[p]] \in Nat /\ rank[p] \in Nat
    BY <1>6, <1>7, <1>10, <2>3
  <2>5. rank[prev[p]] \notin T
    <3>. HIDE DEF T
    <3>. QED  BY <2>1, <2>2, <2>4
  <2>6. f[prev[p]] \in Nat
    BY <2>4, <2>5
  <2>7. f[p] = f[prev[p]] + Added(m, prev[p], f[prev[p]])
    BY <1>12, <1>13, <2>3, <2>6
  <2>8. Added(m, prev[p], f[prev[p]]) \in Nat
    BY <2>4, StoreAssumption DEF Added
  <2>. HIDE DEF T
  <2>. QED  BY <2>2, <2>6, <2>7, <2>8
<1>15. ASSUME NEW p \in Page
       PROVE  f[p] = IF ahead(p) = {} THEN 0
                     ELSE f[nearest(p)] + Added(m, nearest(p), f[nearest(p)])
  <2>1. CASE ahead(p) = {}
    BY <1>9, <1>12, <2>1
  <2>2. CASE ahead(p) # {}
    <3>1. prev[p] = nearest(p) /\ prev[p] # p /\ f[prev[p]] \in Nat
      BY <1>6, <1>8, <1>14, <2>2
    <3>2. f[p] = f[prev[p]] + Added(m, prev[p], f[prev[p]])
      BY <1>12, <1>13, <3>1
    <3>. QED  BY <2>2, <3>1, <3>2
  <2>. QED  BY <2>1, <2>2
<1>16. Counts(f)
  <2>1. f = [p \in Page |-> f[p]]
    BY <1>11 DEF Follows
  <2>. QED  BY <1>15, <2>1
<1>17. Counts(Counted(m, cutoff))
  <2>1. Counted(m, cutoff) = CHOOSE g : Counts(g)
    BY DEF Counted, Ahead, Nearest, Young, Added, ahead, nearest
  <2>. HIDE DEF Counts
  <2>. QED  BY <1>16, <2>1
<1>18. ASSUME NEW g, Counts(g), NEW p \in Page
       PROVE  g[p] = IF ahead(p) = {} THEN 0
                     ELSE g[nearest(p)] + Added(m, nearest(p), g[nearest(p)])
  <2>. DEFINE F == [x \in Page |-> IF ahead(x) = {} THEN 0
                                   ELSE g[nearest(x)] + Added(m, nearest(x), g[nearest(x)])]
  <2>1. g = F
    BY <1>18
  <2>2. F[p] = IF ahead(p) = {} THEN 0 ELSE g[nearest(p)] + Added(m, nearest(p), g[nearest(p)])
    OBVIOUS
  <2>. HIDE DEF F
  <2>. QED  BY <2>1, <2>2
<1>. HIDE DEF Counts
<1>. QED  BY <1>17, <1>18 DEF ahead, nearest

\* What is counted before a listed page is the bytes of the newer ones that stay.
LEMMA CountedIsBytes ==
    ASSUME TypeOK, TimesApart, NEW m, Listed(m) \subseteq Taken, NEW cutoff
    PROVE  LET stays == Listed(m) \ Evicted(m, cutoff)
           IN  \A p \in Listed(m) :
                  /\ Counted(m, cutoff)[p] = Bytes({q \in stays : Newer(q, p)})
                  /\ Counted(m, cutoff)[p] \in Nat
<1>. DEFINE stays == Listed(m) \ Evicted(m, cutoff)
            c == Counted(m, cutoff)
            newer(p) == {q \in stays : Newer(q, p)}
            Right(p) == c[p] = Total(PageBytes, newer(p)) /\ c[p] \in Nat
            C == Cardinality(Taken)
            T == {C - taken[p].at : p \in {x \in Listed(m) : ~Right(x)}}
<1>1. /\ stays \subseteq Young(m, cutoff) /\ Young(m, cutoff) \subseteq Listed(m)
      /\ Listed(m) \subseteq Page
      /\ \A q \in Young(m, cutoff) :
            q \in stays <=> ~(m[q] = "uploaded" /\ c[q] + PageBytes[q] > MaxBytes)
  BY DEF Young, Listed, Evicted
<1>2. \A S \in SUBSET Page : IsFiniteSet(S) /\ \A x \in S : PageBytes[x] \in Nat
  BY StoreAssumption, FS_Subset
<1>3. C \in Nat
  BY TakenCounted
<1>4. \A p \in Listed(m) : taken[p].at \in Nat /\ taken[p].at < C
  BY TimesType DEF TimesApart
<1>. HIDE DEF C, stays, c
<1>5. T = {}
  <2>. SUFFICES ASSUME T # {} PROVE FALSE
    OBVIOUS
  <2>1. PICK n \in T : \A k \in T : n <= k
    <3>1. T \in SUBSET Nat
      <4>1. \A p \in Listed(m) : C - taken[p].at \in Nat
        BY <1>3, <1>4
      <4>. HIDE DEF Right
      <4>. QED  BY <4>1
    <3>. HIDE DEF T
    <3>. QED  BY <3>1, LeastOf
  <2>2. PICK p \in Listed(m) : ~Right(p) /\ n = C - taken[p].at
    <3>. HIDE DEF Right
    <3>. QED  OBVIOUS
  <2>3. p \in Page
    BY <1>1
  <2>4. CASE Ahead(m, cutoff, p) = {}
    <3>1. c[p] = 0
      BY <2>3, <2>4, CountedAt DEF c
    <3>2. newer(p) = {}
      BY <1>1, <2>4 DEF Ahead
    <3>3. Total(PageBytes, {}) = 0
      BY FS_EmptySet, TotalByOne
    <3>. QED  BY <2>2, <3>1, <3>2, <3>3
  <2>5. CASE Ahead(m, cutoff, p) # {}
    <3>. DEFINE q == Nearest(m, cutoff, p)
    <3>1. q \in Ahead(m, cutoff, p) /\ \A y \in Ahead(m, cutoff, p) \ {q} : Newer(y, q)
      BY <2>5, NearestIsNearest
    <3>2. c[p] = c[q] + Added(m, q, c[q])
      BY <2>3, <2>5, CountedAt DEF c
    <3>. HIDE DEF q
    <3>3. q \in Young(m, cutoff) /\ Newer(q, p) /\ q \in Listed(m) /\ q \in Page
      BY <1>1, <3>1 DEF Ahead
    <3>4. taken[q].at > taken[p].at
      BY <3>3 DEF Newer
    <3>5. C - taken[q].at \in Nat /\ C - taken[q].at < C - taken[p].at
      BY <1>3, <1>4, <3>3, <3>4
    <3>6. C - taken[q].at \notin T
      <4>1. n \in Nat /\ n = C - taken[p].at
        BY <1>3, <1>4, <2>2
      <4>. HIDE DEF T
      <4>. QED  BY <2>1, <3>5, <4>1
    <3>7. Right(q)
      <4>. HIDE DEF Right
      <4>. QED  BY <3>3, <3>6
    <3>8. \A x \in stays : Newer(x, p) <=> x = q \/ Newer(x, q)
      <4>1. ASSUME NEW x \in stays, Newer(x, p), x # q PROVE Newer(x, q)
        BY <1>1, <3>1, <4>1 DEF Ahead
      <4>2. ASSUME NEW x \in stays, Newer(x, q) PROVE Newer(x, p)
        <5>1. taken[x].at \in Nat /\ taken[q].at \in Nat /\ taken[p].at \in Nat
          BY <1>1, <1>4, <3>3
        <5>. QED  BY <3>4, <4>2, <5>1 DEF Newer
      <4>. QED  BY <3>3, <4>1, <4>2
    <3>9. ~Newer(q, q)
      BY <1>4, <3>3 DEF Newer
    <3>10. newer(q) \in SUBSET Page /\ newer(p) \in SUBSET Page
      BY <1>1
    <3>11. CASE q \in stays
      <4>1. newer(p) \ {q} = newer(q) /\ q \in newer(p)
        BY <3>3, <3>8, <3>9, <3>11
      <4>2. Total(PageBytes, newer(p)) = PageBytes[q] + Total(PageBytes, newer(p) \ {q})
        BY <1>2, <3>10, <4>1, TotalWithout
      <4>3. Added(m, q, c[q]) = PageBytes[q]
        BY <1>1, <3>3, <3>11 DEF Added
      <4>4. PageBytes[q] \in Nat
        BY <3>3, StoreAssumption
      <4>5. Total(PageBytes, newer(p) \ {q}) = Total(PageBytes, newer(q))
        BY <4>1
      <4>. HIDE DEF newer
      <4>6. Right(p)
        BY <3>2, <3>7, <4>2, <4>3, <4>4, <4>5
      <4>. QED  BY <2>2, <4>6
    <3>12. CASE q \notin stays
      <4>1. Total(PageBytes, newer(p)) = Total(PageBytes, newer(q))
        <5>1. newer(p) = newer(q)
          BY <3>8, <3>12
        <5>. QED  BY <5>1
      <4>2. Added(m, q, c[q]) = 0
        BY <1>1, <3>3, <3>12 DEF Added
      <4>. HIDE DEF newer
      <4>3. Right(p)
        BY <3>2, <3>7, <4>1, <4>2
      <4>. QED  BY <2>2, <4>3
    <3>. QED  BY <3>11, <3>12
  <2>. QED  BY <2>4, <2>5
<1>6. \A p \in Listed(m) : Right(p)
  <2>. HIDE DEF Right
  <2>. QED  BY <1>5
<1>7. \A p \in Listed(m) : Bytes(newer(p)) = Total(PageBytes, newer(p))
  BY DEF Bytes, Total
<1>. QED
  BY <1>6, <1>7 DEF stays, c

\* A plan of a prune does what the policy promises, with any limit, any sizes and any
\* clock: nothing that is not uploaded goes, what is uploaded and too old goes, and of the
\* rest a page goes exactly when it does not fit together with the newer pages that stay,
\* although it is decided page by page on a running sum (retention.ts:50-74).
THEOREM PlanIsAlwaysExact == Spec => []PlanIsExact
<1>1. Init => TimesApart
  BY DEF Init, TimesApart, Taken
<1>2. TypeOK /\ PlacesInv /\ TimesApart => PlanIsExact
  <2>. SUFFICES ASSUME TypeOK, PlacesInv, TimesApart, NEW cutoff \in Cutoffs, NEW p \in Listed(manifest)
                PROVE  LET stays == Listed(manifest) \ Evicted(manifest, cutoff)
                           fits == Bytes({q \in stays : Newer(q, p)}) + PageBytes[p] <= MaxBytes
                       IN  p \in stays <=> manifest[p] = "waiting" \/ (~Expired(p, cutoff) /\ fits)
    BY DEF PlanIsExact
  <2>. DEFINE stays == Listed(manifest) \ Evicted(manifest, cutoff)
              b == Bytes({q \in stays : Newer(q, p)})
              c == Counted(manifest, cutoff)
  <2>1. Listed(manifest) \subseteq Taken
    BY DEF PlacesInv, LiveAreTaken, Live, Known, Listed
  <2>2. c[p] = b /\ c[p] \in Nat
    BY <2>1, CountedIsBytes
  <2>3. p \in Page /\ manifest[p] \in {"waiting", "uploaded"}
    BY DEF TypeOK, Listed, Manifest, States
  <2>4. p \in stays <=> ~(manifest[p] = "uploaded" /\ (Expired(p, cutoff) \/ c[p] + PageBytes[p] > MaxBytes))
    BY DEF Evicted
  <2>5. PageBytes[p] \in Nat /\ MaxBytes \in Nat
    BY <2>3, StoreAssumption
  <2>. HIDE DEF stays, b, c
  <2>6. c[p] + PageBytes[p] > MaxBytes <=> ~(b + PageBytes[p] <= MaxBytes)
    BY <2>2, <2>5
  <2>7. p \in stays <=> manifest[p] = "waiting" \/ (~Expired(p, cutoff) /\ b + PageBytes[p] <= MaxBytes)
    BY <2>3, <2>4, <2>6
  <2>. QED  BY <2>7 DEF stays, b
<1>. QED  BY <1>1, <1>2, StoreTypeCorrect, PlacesHold, TimesKept, PTL DEF Spec
=============================================================================
