------------------------------ MODULE Delivery ------------------------------
(***************************************************************************)
(* A page on its way from the camera to a committed note: the phone's      *)
(* queue (apps/phone), the network, the server as the box it promises to   *)
(* be (MailBox, which BlobQueue implements), the desktop service           *)
(* (apps/desktop/service) with its drafts, and the vault (a git tree,      *)
(* apps/agent/src/vault.ts).                                               *)
(*                                                                         *)
(* Left out: what a page says (transcription, cleaning, expansion), how    *)
(* the manifest is written (each update of a capture is one step here),    *)
(* quota and size refusals (to the phone they are one more failed upload), *)
(* the retention sweep (nothing calls it), and the feedback and glossary   *)
(* that an approval also saves.                                            *)
(***************************************************************************)
EXTENDS Naturals, FiniteSets

CONSTANTS
    Page, Session, Title, Device,
    Loop,        \* calls of uploadPending that may run at once
    Job,         \* approve requests that may run at once
    SessionOf,   \* the capture session of a page
    NoPage, NoDevice, NoSession, NoTitle, Nothing, NoLoop,
    MaxFaults    \* bound of the model: how many things go wrong in a behaviour

ASSUME DeliveryAssumption ==
    /\ SessionOf \in [Page -> Session]
    /\ MaxFaults \in Nat
    /\ NoPage \notin Page
    /\ NoDevice \notin Device
    /\ NoSession \notin Session
    /\ NoTitle \notin Title
    /\ NoLoop \notin Loop
    /\ Nothing \notin [account : {"account"}, from : Device]

VARIABLES
    \* the phone
    state,       \* manifest.json: what it says of each page
    shown,       \* App's captures, as last read: the pages it shows as waiting
    phone,       \* the stored pairing
    loop,        \* each running uploadPending
    \* the network and the server
    wire,        \* uploads on their way to the server
    box,         \* what the server holds
    registered,  \* the phones the server knows
    issued,      \* history: every device id the server ever gave out
    \* the desktop service
    drafts,      \* the draft list: the pages of each session's draft
    fetch,       \* the refresh in progress
    job,         \* each approval in progress
    revoking,    \* a revocation whose answer has not arrived
    \* the vault
    loose,       \* notes written to the tree and not committed
    notes,       \* committed notes
    \* history and bound
    discarded,   \* pages that were on the server when their phone was revoked
    faults

phoneVars == <<state, shown, phone, loop>>
netVars == <<wire, box, registered, issued>>
serviceVars == <<drafts, fetch, job, revoking>>
vaultVars == <<loose, notes>>
vars == <<phoneVars, netVars, serviceVars, vaultVars, discarded, faults>>

Me == "account"
Server == INSTANCE MailBox WITH Blob <- Page, Account <- {Me}, old <- {}, asking <- {Me}

Held == Server!Held
\* mutant: a page that failed once is not offered again
WaitingOnlyNew(s) == {p \in Page : s[p] = "pending"}

\* captures.filter((c) => c.state !== 'uploaded')
Waiting(s) == {p \in Page : s[p] \in {"pending", "failed"}}
Noted == UNION {n.pages : n \in notes}
Settled == Held \cup Noted \cup discarded

NoteFile == [title : Title, pages : SUBSET Page]
Paths == {n.title : n \in loose \cup notes}

NoLoopRun == [todo |-> {}, now |-> NoPage, reply |-> "none", dev |-> NoDevice]
NoJob == [step |-> "idle", sess |-> NoSession, pages |-> {}, title |-> NoTitle]
NoFetch == [on |-> FALSE, todo |-> {}, got |-> {}]
NoDrafts == [s \in Session |-> {}]

TypeOK ==
    /\ state \in [Page -> {"none", "pending", "failed", "uploaded"}]
    /\ shown \subseteq Page
    /\ phone \in Device \cup {NoDevice}
    /\ loop \in [Loop -> [todo : SUBSET Page, now : Page \cup {NoPage},
                          reply : {"none", "ok", "no"}, dev : Device \cup {NoDevice}]]
    /\ wire \subseteq [page : Page, dev : Device, by : Loop \cup {NoLoop}]
    /\ box \in [Page -> Server!Sealed \cup {Nothing}]
    /\ registered \subseteq issued
    /\ issued \subseteq Device
    /\ drafts \in [Session -> SUBSET Page]
    /\ fetch \in [on : BOOLEAN, todo : SUBSET Page, got : SUBSET Page]
    /\ job \in [Job -> {NoJob} \cup
                       [step : {"opened", "checked", "written", "committed", "released"},
                        sess : Session, pages : SUBSET Page, title : Title]]
    /\ revoking \in BOOLEAN
    /\ loose \subseteq NoteFile
    /\ notes \subseteq NoteFile
    /\ discarded \subseteq Page
    /\ faults \in 0 .. MaxFaults

Init ==
    /\ state = [p \in Page |-> "none"]
    /\ shown = {}
    /\ phone = NoDevice
    /\ loop = [l \in Loop |-> NoLoopRun]
    /\ wire = {}
    /\ box = [p \in Page |-> Nothing]
    /\ registered = {}
    /\ issued = {}
    /\ drafts = NoDrafts
    /\ fetch = NoFetch
    /\ job = [j \in Job |-> NoJob]
    /\ revoking = FALSE
    /\ loose = {}
    /\ notes = {}
    /\ discarded = {}
    /\ faults = 0

\* Everything that may go wrong is counted, and only so much of it happens.
Fault == faults < MaxFaults /\ faults' = faults + 1
-----------------------------------------------------------------------------
(* The phone *)

\* handleScan: a new key, a new device on the server, the pairing stored.
Pair(d) ==
    /\ phone = NoDevice
    /\ d \in Device \ issued
    /\ phone' = d
    /\ registered' = registered \cup {d}
    /\ issued' = issued \cup {d}
    /\ shown' = Waiting(state)
    /\ UNCHANGED <<state, loop, wire, box, serviceVars, vaultVars, discarded, faults>>

\* clearPairing; the manifest stays, and so does an upload already running.
Unpair ==
    /\ phone # NoDevice
    /\ IF phone \in registered THEN Fault ELSE UNCHANGED faults
    /\ phone' = NoDevice
    /\ UNCHANGED <<state, shown, loop, netVars, serviceVars, vaultVars, discarded>>

\* shoot: the manifest is written and the list is read again.
Shoot(p) ==
    /\ phone # NoDevice
    /\ state[p] = "none"
    /\ state' = [state EXCEPT ![p] = "pending"]
    /\ shown' = Waiting(state')
    /\ UNCHANGED <<phone, loop, netVars, serviceVars, vaultVars, discarded, faults>>

Idle(l) == loop[l].todo = {} /\ loop[l].now = NoPage

\* The upload button.  It is disabled while busy, but busy belongs to the queue
\* screen: leaving the screen and coming back allows a second run, and the list
\* it sends is the one last read, whatever the first run has done since.
StartUpload(l) ==
    /\ phone # NoDevice
    /\ Idle(l)
    /\ shown # {}
    /\ loop' = [loop EXCEPT ![l] = [todo |-> shown, now |-> NoPage, reply |-> "none", dev |-> phone]]
    /\ UNCHANGED <<state, shown, phone, netVars, serviceVars, vaultVars, discarded, faults>>

SendPage(l, p) ==
    /\ loop[l].now = NoPage
    /\ p \in loop[l].todo
    /\ loop' = [loop EXCEPT ![l].todo = @ \ {p}, ![l].now = p]
    /\ wire' = wire \cup {[page |-> p, dev |-> loop[l].dev, by |-> l]}
    /\ UNCHANGED <<state, shown, phone, box, registered, issued, serviceVars, vaultVars,
                   discarded, faults>>

\* mutant: every progress event is written to the manifest
FinishVerbatim(l, outcome) ==
    /\ state' = [state EXCEPT ![loop[l].now] = "uploading"]
    /\ shown' = IF loop[l].todo = {} THEN Waiting(state') ELSE shown
    /\ loop' = [loop EXCEPT ![l].now = NoPage, ![l].reply = "none"]

\* mutant: a page that failed is put back into the run
FinishRetrying(l, outcome) ==
    /\ state' = [state EXCEPT ![loop[l].now] = outcome]
    /\ shown' = IF loop[l].todo = {} THEN Waiting(state') ELSE shown
    /\ loop' = [loop EXCEPT ![l].now = NoPage, ![l].reply = "none",
                    ![l].todo = IF outcome = "failed" THEN @ \cup {loop[l].now} ELSE @]

\* onProgress writes the outcome to the manifest; after the last page the list
\* is read again.
Finish(l, outcome) ==
    /\ state' = [state EXCEPT ![loop[l].now] = outcome]
    /\ shown' = IF loop[l].todo = {} THEN Waiting(state') ELSE shown
    /\ loop' = [loop EXCEPT ![l].now = NoPage, ![l].reply = "none"]

\* mutant: an error answer counts as an upload
OutcomeAlwaysGood(l) == "uploaded"

Outcome(l) == IF loop[l].reply = "ok" THEN "uploaded" ELSE "failed"

ReceiveReply(l) ==
    /\ loop[l].now # NoPage
    /\ loop[l].reply # "none"
    /\ Finish(l, Outcome(l))
    /\ UNCHANGED <<phone, netVars, serviceVars, vaultVars, discarded, faults>>

\* The requests of l go on without anybody waiting for their answer.
Abandon(L) == {IF m.by \in L THEN [m EXCEPT !.by = NoLoop] ELSE m : m \in wire}

\* No answer: the connection broke before the request arrived, or while it was
\* on its way, or after the server had handled it.
LoseReply(l) ==
    /\ Fault
    /\ loop[l].now # NoPage
    /\ Finish(l, "failed")
    /\ wire' = Abandon({l})
    /\ UNCHANGED <<phone, box, registered, issued, serviceVars, vaultVars, discarded>>

LoseRequest(m) ==
    /\ m.by = NoLoop
    /\ wire' = wire \ {m}
    /\ UNCHANGED <<phoneVars, box, registered, issued, serviceVars, vaultVars, discarded, faults>>

\* The app is killed; what it stored stays.
KillApp ==
    /\ Fault
    /\ loop' = [l \in Loop |-> NoLoopRun]
    /\ wire' = Abandon(Loop)
    /\ shown' = Waiting(state)
    /\ UNCHANGED <<state, phone, box, registered, issued, serviceVars, vaultVars, discarded>>
-----------------------------------------------------------------------------
(* The server handles an upload *)

Reply(m, answer) ==
    loop' = IF m.by = NoLoop THEN loop
            ELSE [loop EXCEPT ![m.by].reply = answer]

\* 401 for a phone it does not know, 200 for a page it holds, 201 otherwise.
HandleUpload(m) ==
    /\ wire' = wire \ {m}
    /\ \/ /\ m.dev \notin registered
          /\ Reply(m, "no")
          /\ UNCHANGED box
       \/ /\ m.dev \in registered
          /\ m.page \in Held
          /\ Reply(m, "ok")
          /\ UNCHANGED box
       \/ /\ m.dev \in registered
          /\ Server!Deposit(m.page, [account |-> Me, from |-> m.dev])
          /\ Reply(m, "ok")
    /\ UNCHANGED <<state, shown, phone, registered, issued, serviceVars, vaultVars, discarded, faults>>
-----------------------------------------------------------------------------
(* The desktop service collects pages *)

\* POST /api/refresh, and the list it asks for.
StartRefresh ==
    /\ ~fetch.on
    /\ fetch' = [on |-> TRUE, todo |-> Held, got |-> {}]
    /\ UNCHANGED <<phoneVars, netVars, drafts, job, revoking, vaultVars, discarded, faults>>

FetchPage(p) ==
    /\ fetch.on
    /\ p \in fetch.todo \cap Held
    /\ fetch' = [fetch EXCEPT !.todo = @ \ {p}, !.got = @ \cup {p}]
    /\ UNCHANGED <<phoneVars, netVars, drafts, job, revoking, vaultVars, discarded, faults>>

\* mutant: the flag is not reset in a finally
EndRefreshHalfway == fetch' = [fetch EXCEPT !.todo = {}, !.got = {}]

EndRefresh == fetch' = NoFetch

\* A page that was listed is gone: 404, and the whole refresh fails.
FetchGone ==
    /\ fetch.on
    /\ \E p \in fetch.todo : p \notin Held
    /\ EndRefresh
    /\ UNCHANGED <<phoneVars, netVars, drafts, job, revoking, vaultVars, discarded, faults>>

\* The model or the network fails.
FailRefresh ==
    /\ Fault
    /\ fetch.on
    /\ EndRefresh
    /\ UNCHANGED <<phoneVars, netVars, drafts, job, revoking, vaultVars, discarded>>

\* The drafts that were there are replaced, whatever happened to the pages since.
FinishRefresh ==
    /\ fetch.on
    /\ fetch.todo = {}
    /\ drafts' = [s \in Session |-> {p \in fetch.got : SessionOf[p] = s}]
    /\ EndRefresh
    /\ UNCHANGED <<phoneVars, netVars, job, revoking, vaultVars, discarded, faults>>
-----------------------------------------------------------------------------
(* The desktop service approves a draft *)

Step(j, step) == job' = [job EXCEPT ![j].step = step]
EndJob(j) == job' = [job EXCEPT ![j] = NoJob]

\* POST /api/drafts/:sessionId/approve finds the draft; the title is the user's.
OpenApproval(j, s, t) ==
    /\ job[j].step = "idle"
    /\ drafts[s] # {}
    /\ job' = [job EXCEPT ![j] = [step |-> "opened", sess |-> s, pages |-> drafts[s], title |-> t]]
    /\ UNCHANGED <<phoneVars, netVars, drafts, fetch, revoking, vaultVars, discarded, faults>>

\* await isDirty: a dirty tree refuses the note.
CheckTree(j) ==
    /\ job[j].step = "opened"
    /\ IF loose = {} THEN Step(j, "checked") ELSE EndJob(j)
    /\ UNCHANGED <<phoneVars, netVars, drafts, fetch, revoking, vaultVars, discarded, faults>>

\* mutant: the path is looked up in git, which does not know what another approval has just
\* written
PathTakenInGit(j) == job[j].title \in {n.title : n \in notes}

PathTaken(j) == job[j].title \in Paths

NoteOf(j) == [title |-> job[j].title, pages |-> job[j].pages]

\* existsSync and the writes, in one synchronous stretch.
WriteFiles(j) ==
    /\ job[j].step = "checked"
    /\ IF PathTaken(j)
       THEN EndJob(j) /\ UNCHANGED loose
       ELSE Step(j, "written") /\ loose' = loose \cup {NoteOf(j)}
    /\ UNCHANGED <<phoneVars, netVars, drafts, fetch, revoking, notes, discarded, faults>>

\* git add and git commit of this note's own paths.
CommitNote(j) ==
    /\ job[j].step = "written"
    /\ IF NoteOf(j) \in loose
       THEN /\ loose' = loose \ {NoteOf(j)}
            /\ notes' = notes \cup {NoteOf(j)}
            /\ Step(j, "committed")
       ELSE EndJob(j) /\ UNCHANGED vaultVars
    /\ UNCHANGED <<phoneVars, netVars, drafts, fetch, revoking, discarded, faults>>

\* git fails (a hook, a lock, a signature): the files stay where they are.
FailCommit(j) ==
    /\ Fault
    /\ job[j].step = "written"
    /\ EndJob(j)
    /\ UNCHANGED <<phoneVars, netVars, drafts, fetch, revoking, vaultVars, discarded>>

\* mutant: the ids are read from the list when the ack is sent
AckedPagesNow(j) == drafts[job[j].sess]

AckedPages(j) == job[j].pages

\* mutant: the commit is not waited for
AckArrivesEarly(j) ==
    /\ job[j].step = "written"
    /\ Server!Take(Me, AckedPages(j) \cap Held)
    /\ Step(j, "released")
    /\ UNCHANGED <<phoneVars, wire, registered, issued, drafts, fetch, revoking, vaultVars,
                   discarded, faults>>

\* The ack arrives: the server deletes what it still holds of the draft.
AckArrives(j) ==
    /\ job[j].step = "committed"
    /\ Server!Take(Me, AckedPages(j) \cap Held)
    /\ Step(j, "released")
    /\ UNCHANGED <<phoneVars, wire, registered, issued, drafts, fetch, revoking, vaultVars,
                   discarded, faults>>

\* Its answer arrives: whatever draft the session has now is taken off the list.
AckAnswered(j) ==
    /\ job[j].step = "released"
    /\ drafts' = [drafts EXCEPT ![job[j].sess] = {}]
    /\ EndJob(j)
    /\ UNCHANGED <<phoneVars, netVars, fetch, revoking, vaultVars, discarded, faults>>

\* The ack, or its answer, is lost: the draft stays on the list.
LoseAck(j) ==
    /\ Fault
    /\ job[j].step \in {"committed", "released"}
    /\ EndJob(j)
    /\ UNCHANGED <<phoneVars, netVars, drafts, fetch, revoking, vaultVars, discarded>>
-----------------------------------------------------------------------------
(* Revocation, crashes and the owner of the vault *)

RevokeArrives(d) ==
    /\ Fault
    /\ ~revoking
    /\ d \in registered
    /\ registered' = registered \ {d}
    /\ discarded' = discarded \cup {p \in Held : box[p].from = d}
    /\ Server!DropDevice(Me, d)
    /\ revoking' = TRUE
    /\ UNCHANGED <<phoneVars, wire, issued, drafts, fetch, job, vaultVars>>

\* "any draft built from them is stale": the list is emptied.
RevokeAnswered ==
    /\ revoking
    /\ revoking' = FALSE
    /\ drafts' = NoDrafts
    /\ UNCHANGED <<phoneVars, netVars, fetch, job, vaultVars, discarded, faults>>

\* The answer is lost: the service reports a failure, and the list stays as it is.
LoseRevokeAnswer ==
    /\ Fault
    /\ revoking
    /\ revoking' = FALSE
    /\ UNCHANGED <<phoneVars, netVars, drafts, fetch, job, vaultVars, discarded>>

\* The service dies and starts again with nothing in memory.
CrashService ==
    /\ Fault
    /\ drafts' = NoDrafts
    /\ fetch' = NoFetch
    /\ job' = [j \in Job |-> NoJob]
    /\ revoking' = FALSE
    /\ UNCHANGED <<phoneVars, netVars, vaultVars, discarded>>

\* The owner finds files inkpipe left behind and commits them or discards them;
\* doing so under a running approval is one of the things that go wrong.
TidyVault ==
    /\ loose # {}
    /\ notes' \in {notes, notes \cup loose}
    /\ loose' = {}
    /\ IF \E j \in Job : job[j].step = "written" THEN Fault ELSE UNCHANGED faults
    /\ UNCHANGED <<phoneVars, netVars, serviceVars, discarded>>
-----------------------------------------------------------------------------
PhoneNext ==
    \/ \E d \in Device : Pair(d)
    \/ Unpair
    \/ \E p \in Page : Shoot(p)
    \/ \E l \in Loop : StartUpload(l)
    \/ \E l \in Loop, p \in Page : SendPage(l, p)
    \/ \E l \in Loop : ReceiveReply(l)
    \/ \E l \in Loop : LoseReply(l)
    \/ KillApp

NetNext == \E m \in wire : LoseRequest(m) \/ HandleUpload(m)

RefreshNext ==
    \/ StartRefresh
    \/ \E p \in Page : FetchPage(p)
    \/ FetchGone
    \/ FailRefresh
    \/ FinishRefresh

ApproveStep(j) == CheckTree(j) \/ WriteFiles(j) \/ CommitNote(j) \/ AckArrives(j) \/ AckAnswered(j)

ServiceNext ==
    \/ \E j \in Job, s \in Session, t \in Title : OpenApproval(j, s, t)
    \/ \E j \in Job : ApproveStep(j) \/ FailCommit(j) \/ LoseAck(j)
    \/ \E d \in Device : RevokeArrives(d)
    \/ RevokeAnswered
    \/ LoseRevokeAnswer
    \/ CrashService

Next == PhoneNext \/ NetNext \/ RefreshNext \/ ServiceNext \/ TidyVault

Spec == Init /\ [][Next]_vars
-----------------------------------------------------------------------------
(* Safety *)

\* A page the phone has stopped sending is on the server, or in a committed
\* note, or was given up with a revoked phone (SPEC.md:233, "redelivers rather
\* than losing pages").
NoPageLost == \A p \in Page : state[p] = "uploaded" => p \in Settled

\* The list to review holds only pages that can be accounted for, however stale
\* the list is.
DraftsAreAccountedFor == \A s \in Session : drafts[s] \subseteq Settled

\* A path of the vault names one note: approvals that run at once, or that repeat
\* one whose answer was lost, never write over each other (vault.ts:130).
OneNotePerPath ==
    \A m, n \in loose \cup notes : m.title = n.title => m = n

\* The server lets go of a page only when it is in a committed note, or when its
\* phone is being revoked (api.ts:699).
ReleasedOnlyWhenCommitted ==
    [][\A p \in Held :
         box'[p] = Nothing => p \in Noted \/ box[p].from \notin registered']_vars

\* SPEC.md:187: "a retried upload is idempotent and can never produce a duplicate
\* page": a page already in a note does not arrive on the server again.
NoPageArrivesTwice ==
    [][\A p \in Page \ Held : box'[p] # Nothing => p \notin Noted]_vars

\* api.ts:526, of a revoked phone's pages: "any draft built from them is stale":
\* once the revocation has been answered, no draft that is put up holds a page
\* that was discarded.
NoDraftOfDiscardedPages ==
    [][~revoking =>
         \A s \in Session : \A p \in drafts'[s] \ drafts[s] : p \in discarded => p \in Held]_vars

\* What the person with the phone is promised (Courier).
Promise == INSTANCE Courier WITH
    captured <- {p \in Page : state[p] # "none"},
    kept <- Waiting(state),
    queued <- Held,
    noted <- Noted,
    dropped <- discarded

ImplementsCourier == Promise!Spec
-----------------------------------------------------------------------------
(* Liveness *)

\* What the code and the network do on their own: a request that was sent is
\* answered, a loop goes on to its next page, a refresh and an approval go on to
\* their next step.  Losing an answer is a fault, and faults are bounded.
CodeFairness ==
    /\ \A l \in Loop : WF_vars(ReceiveReply(l)) /\ WF_vars(\E p \in Page : SendPage(l, p))
    /\ \A l \in Loop : WF_vars(\E m \in wire : m.by = l /\ HandleUpload(m))
    /\ WF_vars(\E p \in Page : FetchPage(p))
    /\ WF_vars(FetchGone)
    /\ WF_vars(FinishRefresh)
    /\ \A j \in Job : WF_vars(ApproveStep(j))
    /\ WF_vars(RevokeAnswered)

\* What the owner has to keep doing: pair a phone the server knows, press Upload
\* and Collect, tidy the vault, and approve under a title that is free a draft
\* that holds a page no note has.
ApproveNew(j, s, t) ==
    /\ t \notin Paths
    /\ ~(drafts[s] \subseteq Noted)
    /\ OpenApproval(j, s, t)

OwnerFairness ==
    /\ WF_vars(\E d \in Device : Pair(d))
    /\ WF_vars(phone \notin registered /\ Unpair)
    /\ \A l \in Loop : WF_vars(StartUpload(l))
    /\ WF_vars(StartRefresh)
    /\ WF_vars(TidyVault)
    /\ SF_vars(\E j \in Job, s \in Session, t \in Title : ApproveNew(j, s, t))

FairSpec == Spec /\ CodeFairness
LiveSpec == FairSpec /\ OwnerFairness

\* A refresh always ends, so Collect is never disabled for good (api.ts:583).
RefreshEnds == fetch.on ~> ~fetch.on

\* An upload run always ends, whatever is lost, refused or restarted.
UploadEnds == \A l \in Loop : ~Idle(l) ~> Idle(l)

\* Every page that is photographed ends up in a committed note, unless its phone
\* is revoked while it waits on the server.
EveryPageIsNoted ==
    \A p \in Page : state[p] # "none" ~> p \in Noted \cup discarded
=============================================================================
