----------------------------- MODULE PhoneStore -----------------------------
(***************************************************************************)
(* The phone's own storage: the photographs, the manifest that lists them  *)
(* (apps/phone/src/store.ts), the retention policy (retention.ts) and the  *)
(* two screens that use them (App.tsx).                                    *)
(*                                                                         *)
(* The manifest is one file.  To change it, the app reads all of it,       *)
(* awaits, and writes all of it; a screen that is left goes on with what   *)
(* it was doing; and an upload run does not wait for the changes it asks   *)
(* for.  Delivery takes each change as one step: here it is two.           *)
(*                                                                         *)
(* Left out: the pairing (Delivery has it), the text of errors, and what   *)
(* travels to the server: a page is answered for, or not.                  *)
(***************************************************************************)
EXTENDS Integers, FiniteSets, FiniteSetsExt

CONSTANTS
    Page, Session,
    Run,             \* uploads that may run at once
    Slot,            \* bound of the model: changes of the manifest in flight
    NoPage, NoSession, NoRun, NoPhoto, NoChange,
    PageBytes,       \* the size of each photograph
    MaxBytes,        \* DEFAULT_RETENTION.bytes, in units of PageBytes
    Cutoffs,         \* bound of the model: the cutoffs a prune may be called with
    MaxFaults        \* bound of the model: how often the app is killed or a write fails

\* pending and failed are one: whatever asks, asks whether a page is uploaded.
States == {"none", "waiting", "uploaded"}
Manifest == [Page -> States]
NothingListed == [p \in Page |-> "none"]

\* What is known of a photograph: its session, its place there, and its turn in time.
Photo == [session : Session, seq : Nat, at : Nat]

\* A change of the manifest under way: what it does, and the copy it works on.  remove is
\* the plan of a prune.
Change == [do : {"add", "mark", "prune"}, page : Page \cup {NoPage}, to : States,
           remove : SUBSET Page, read : BOOLEAN, copy : Manifest]

ASSUME StoreAssumption ==
    /\ IsFiniteSet(Page)
    /\ PageBytes \in [Page -> Nat]
    /\ {MaxBytes, MaxFaults} \cup Cutoffs \subseteq Nat
    /\ NoPage \notin Page
    /\ NoSession \notin Session
    /\ NoRun \notin Run
    /\ NoPhoto \notin Photo
    /\ NoChange \notin Change

VARIABLES
    manifest,  \* manifest.json
    photo,     \* the image files
    taken,     \* what the app knows of each photograph it took
    change,    \* the changes of the manifest in flight
    screen,    \* the screen that is mounted
    session,   \* the capture session of the mounted camera screen
    shots,     \* how many pages that screen has counted
    busy,      \* that screen's shutter is disabled
    shown,     \* App's captures, as last read: the pages it shows as waiting
    run,       \* the upload runs: the pages each still has to send
    sender,    \* the run the mounted queue screen waits for
    acked,     \* history: pages the server has answered for
    faults

camera == <<session, shots, busy>>
uploads == <<run, sender, acked>>
vars == <<manifest, photo, taken, change, screen, camera, shown, uploads, faults>>

Taken == {p \in Page : taken[p] # NoPhoto}
Listed(m) == {p \in Page : m[p] # "none"}
Waiting(m) == {p \in Page : m[p] = "waiting"}
NotRunning == [on |-> FALSE, todo |-> {}]

TypeOK ==
    /\ manifest \in Manifest
    /\ photo \subseteq Page
    /\ taken \in [Page -> Photo \cup {NoPhoto}]
    /\ change \in [Slot -> Change \cup {NoChange}]
    /\ screen \in {"camera", "queue"}
    /\ session \in Session \cup {NoSession}
    /\ screen = "camera" <=> session # NoSession
    /\ shots \in Nat
    /\ busy \in BOOLEAN
    /\ shown \subseteq Page
    /\ run \in [Run -> [on : BOOLEAN, todo : SUBSET Page]]
    /\ sender \in Run \cup {NoRun}
    /\ acked \subseteq Page
    /\ faults \in Nat

Init ==
    /\ manifest = NothingListed
    /\ photo = {}
    /\ taken = [p \in Page |-> NoPhoto]
    /\ change = [s \in Slot |-> NoChange]
    /\ screen = "queue"
    /\ session = NoSession
    /\ shots = 0
    /\ busy = FALSE
    /\ shown = {}
    /\ run = [r \in Run |-> NotRunning]
    /\ sender = NoRun
    /\ acked = {}
    /\ faults = 0
-----------------------------------------------------------------------------
(* Retention: planPrune of a manifest m, where what was taken before cutoff *)
(* is too old                                                               *)

Newer(p, q) == taken[p].at > taken[q].at
Expired(p, cutoff) == taken[p].at < cutoff

\* mutant: the bytes of pages that wait are not counted
CountedSent(m, cutoff) == [p \in Page |->
    MapThenSumSet(LAMBDA q : PageBytes[q], {q \in Listed(m) : m[q] = "uploaded" /\ Newer(q, p)})]

\* The bytes that have been counted when planPrune comes to p, newest first: those of
\* the newer captures it did not evict.
Counted(m, cutoff) ==
    LET young == {p \in Listed(m) : ~(m[p] = "uploaded" /\ Expired(p, cutoff))}
        count[p \in Page] ==
            LET newer == {q \in young : Newer(q, p)}
                q == CHOOSE x \in newer : \A y \in newer \ {x} : Newer(y, x)
                evicted == m[q] = "uploaded" /\ count[q] + PageBytes[q] > MaxBytes
            IN  IF newer = {} THEN 0 ELSE count[q] + IF evicted THEN 0 ELSE PageBytes[q]
    IN  count

\* mutant: the limits are for every page
EvictedUnsent(m, cutoff) ==
    LET counted == Counted(m, cutoff)
    IN  {p \in Listed(m) : Expired(p, cutoff) \/ counted[p] + PageBytes[p] > MaxBytes}

\* remove: what was uploaded and is too old, or does not fit.
Evicted(m, cutoff) ==
    LET counted == Counted(m, cutoff)
    IN  {p \in Listed(m) : /\ m[p] = "uploaded"
                           /\ Expired(p, cutoff) \/ counted[p] + PageBytes[p] > MaxBytes}
-----------------------------------------------------------------------------
(* Changes of the manifest *)

\* addCapture and updateCapture begin by reading the manifest: await file.text().
Begin(s, do, p, to) ==
    /\ change[s] = NoChange
    /\ change' = [change EXCEPT ![s] = [do |-> do, page |-> p, to |-> to, remove |-> {},
                                        read |-> FALSE, copy |-> NothingListed]]

ReadManifest(s) ==
    /\ change[s] # NoChange
    /\ ~change[s].read
    /\ change' = [change EXCEPT ![s].read = TRUE, ![s].copy = manifest]
    /\ UNCHANGED <<manifest, photo, taken, screen, camera, shown, uploads, faults>>

\* pruneCaptures exists and is called by nothing (no Cutoffs).  Its call changes nothing,
\* so it is one step with its read and its plan; its clock is any that the phone may show.
PruneCaptures(s, cutoff) ==
    /\ change[s] = NoChange
    /\ change' = [change EXCEPT ![s] = [do |-> "prune", page |-> NoPage, to |-> "none",
                                        remove |-> Evicted(manifest, cutoff), read |-> TRUE,
                                        copy |-> manifest]]
    /\ UNCHANGED <<manifest, photo, taken, screen, camera, shown, uploads, faults>>

\* mutant: an update does not look at the outcome
PatchedAlwaysSent(c) ==
    [p \in Page |->
        IF p \in c.remove THEN "none"
        ELSE IF c.do = "add" /\ p = c.page THEN c.to
        ELSE IF c.do = "mark" /\ p = c.page /\ p \in Listed(c.copy) THEN "uploaded"
        ELSE c.copy[p]]

\* What the change makes of its copy: addCapture appends, updateCapture patches an
\* entry if there is one, pruneCaptures keeps what is not evicted.
Patched(c) ==
    [p \in Page |->
        IF p \in c.remove THEN "none"
        ELSE IF p = c.page /\ (c.do = "add" \/ p \in Listed(c.copy)) THEN c.to
        ELSE c.copy[p]]

\* A screen that has been left hears nothing of its shot.
ShotOfThisScreen(c) == c.do = "add" /\ screen = "camera" /\ session = taken[c.page].session

\* The whole of it is written, in the same stretch as the deletions of a prune.
WriteManifest(s) ==
    LET c == change[s]
    IN  /\ c # NoChange
        /\ c.read
        /\ manifest' = Patched(c)
        /\ photo' = photo \ c.remove
        /\ change' = [change EXCEPT ![s] = NoChange]
        /\ shown' = IF c.do = "add" THEN Waiting(manifest') ELSE shown
        /\ shots' = IF ShotOfThisScreen(c) THEN shots + 1 ELSE shots
        /\ busy' = (busy /\ ~ShotOfThisScreen(c))
        /\ UNCHANGED <<taken, screen, session, uploads, faults>>
-----------------------------------------------------------------------------
(* The camera screen *)

\* mutant: the next camera screen goes on with the session
NoCameraButItsSession == shots' = 0 /\ busy' = FALSE /\ UNCHANGED session

\* A screen that is left takes its state with it.
NoCamera == session' = NoSession /\ shots' = 0 /\ busy' = FALSE

\* A new camera screen: a new session, no pages counted, the shutter ready.
OpenCamera(new) ==
    /\ screen = "queue"
    /\ \A p \in Taken : taken[p].session # new
    /\ screen' = "camera"
    /\ session' = new
    /\ sender' = NoRun
    /\ UNCHANGED <<manifest, photo, taken, change, shots, busy, shown, run, acked, faults>>

\* mutant: the shutter does not wait for the page before
ShutterNeverDisabled == FALSE

ShutterDisabled == busy

\* The photograph is moved into the captures directory and addCapture is called.
Shoot(s, p) ==
    /\ screen = "camera"
    /\ ~ShutterDisabled
    /\ taken[p] = NoPhoto
    /\ photo' = photo \cup {p}
    /\ taken' = [taken EXCEPT ![p] = [session |-> session, seq |-> shots, at |-> Cardinality(Taken)]]
    /\ busy' = TRUE
    /\ Begin(s, "add", p, "waiting")
    /\ UNCHANGED <<manifest, screen, session, shots, shown, uploads, faults>>

\* "Queue", or "Done" once there is a page.
OpenQueue ==
    /\ screen = "camera"
    /\ screen' = "queue"
    /\ NoCamera
    /\ UNCHANGED <<manifest, photo, taken, change, shown, uploads, faults>>
-----------------------------------------------------------------------------
(* The queue screen *)

StartUpload(r) ==
    /\ screen = "queue"
    /\ sender = NoRun
    /\ ~run[r].on
    /\ shown # {}
    /\ run' = [run EXCEPT ![r] = [on |-> TRUE, todo |-> shown]]
    /\ sender' = r
    /\ UNCHANGED <<manifest, photo, taken, change, screen, camera, shown, acked, faults>>

\* One page of a run: it is answered for, or it fails (its file is missing, it is too
\* large, the network or the server refuses it).  The change is not waited for.
UploadPage(r, p, s, outcome) ==
    /\ p \in run[r].todo
    /\ outcome = "uploaded" => p \in photo
    /\ run' = [run EXCEPT ![r].todo = @ \ {p}]
    /\ acked' = IF outcome = "uploaded" THEN acked \cup {p} ELSE acked
    /\ Begin(s, "mark", p, outcome)
    /\ UNCHANGED <<manifest, photo, taken, screen, camera, shown, sender, faults>>

\* After the last page the manifest is read again, whatever changes are in flight.
EndUpload(r) ==
    /\ run[r].on
    /\ run[r].todo = {}
    /\ run' = [run EXCEPT ![r] = NotRunning]
    /\ sender' = IF sender = r THEN NoRun ELSE sender
    /\ shown' = Waiting(manifest)
    /\ UNCHANGED <<manifest, photo, taken, change, screen, camera, acked, faults>>
-----------------------------------------------------------------------------
(* The app is killed, or a write fails *)

Fault ==
    /\ faults < MaxFaults
    /\ faults' = faults + 1

\* The photographs of a prune are gone; the manifest is as it was, or does not parse and
\* counts as empty.  A shot says so and gives its screen the shutter back; nobody hears
\* of the others.
FailWrite(s, left) ==
    LET c == change[s]
    IN  /\ Fault
        /\ c # NoChange
        /\ c.read
        /\ manifest' = left
        /\ photo' = photo \ c.remove
        /\ change' = [change EXCEPT ![s] = NoChange]
        /\ busy' = (busy /\ ~ShotOfThisScreen(c))
        /\ UNCHANGED <<taken, screen, session, shots, shown, uploads>>

\* Nothing in memory survives; m and f are what the disk holds.  The app comes up with
\* the camera; to leave it for the queue changes nothing else.
Restart(m, f) ==
    /\ Fault
    /\ manifest' = m
    /\ photo' = f
    /\ change' = [s \in Slot |-> NoChange]
    /\ run' = [r \in Run |-> NotRunning]
    /\ sender' = NoRun
    /\ screen' = "queue"
    /\ NoCamera
    /\ shown' = Waiting(m)
    /\ UNCHANGED <<taken, acked>>

Kill == Restart(manifest, photo)

\* Killed in the middle of a write: what is left does not parse, and readManifest
\* answers as if there were no captures.
KillInWrite(s) ==
    /\ change[s] # NoChange
    /\ change[s].read
    /\ Restart(NothingListed, photo \ change[s].remove)

\* Killed between the deletions of a prune.
KillInPrune(s, gone) ==
    /\ change[s] # NoChange
    /\ gone # {}
    /\ gone \subseteq change[s].remove
    /\ Restart(manifest, photo \ gone)
-----------------------------------------------------------------------------
Next ==
    \/ \E s \in Slot : ReadManifest(s) \/ WriteManifest(s) \/ KillInWrite(s)
    \/ \E s \in Slot, cutoff \in Cutoffs : PruneCaptures(s, cutoff)
    \/ \E s \in Slot, left \in {manifest, NothingListed} : FailWrite(s, left)
    \/ \E s \in Slot, gone \in SUBSET Page : KillInPrune(s, gone)
    \/ \E new \in Session : OpenCamera(new)
    \/ \E s \in Slot, p \in Page : Shoot(s, p)
    \/ OpenQueue
    \/ \E r \in Run : StartUpload(r) \/ EndUpload(r)
    \/ \E r \in Run, p \in Page, s \in Slot, outcome \in {"uploaded", "waiting"} :
         UploadPage(r, p, s, outcome)
    \/ Kill

Spec == Init /\ [][Next]_vars
-----------------------------------------------------------------------------
(* Safety *)

\* The only copy of a page is never deleted: however updates of the manifest are
\* lost or torn, and whatever stale copy a prune works on, a page the server has
\* not answered for keeps its photograph (docs/PHONE.md:28).
OnlyCopyIsKept == \A p \in Taken : p \in acked \/ p \in photo

\* No manifest, and no copy of one that may still be written, calls a page uploaded
\* that the server has not answered for (App.tsx:357).
Believed == {manifest} \cup {change[s].copy : s \in {x \in Slot : change[x] # NoChange}}
UploadedIsTrue == \A m \in Believed : \A p \in Page : m[p] = "uploaded" => p \in acked

\* No two pages that are listed or sent have the same place in the same session,
\* although a shot goes on after its screen was left, and a place is given again after
\* a shot that could not be listed: the images of a note are named by it (pipeline.ts:218).
PlacesAreUnique ==
    \A p, q \in Listed(manifest) \cup acked :
        taken[p].session = taken[q].session /\ taken[p].seq = taken[q].seq => p = q

\* planPrune against its rules: nothing that is not uploaded goes, what is uploaded and
\* too old goes, and of the rest a page goes exactly when it does not fit together with
\* the newer pages that stay (retention.ts:50-74).
Bytes(S) == MapThenSumSet(LAMBDA p : PageBytes[p], S)
PlanIsExact ==
    \A cutoff \in Cutoffs :
        LET stays == Listed(manifest) \ Evicted(manifest, cutoff)
            fits(p) == Bytes({q \in stays : Newer(q, p)}) + PageBytes[p] <= MaxBytes
        IN  \A p \in Listed(manifest) :
                p \in stays <=> manifest[p] = "waiting" \/ (~Expired(p, cutoff) /\ fits(p))

\* docs/PHONE.md:16 "Shows every capture with its state": a page that is listed and has
\* not been answered for stays listed.
CapturesStayListed ==
    [][\A p \in Listed(manifest) \ acked : p \in Listed(manifest')]_vars
=============================================================================
