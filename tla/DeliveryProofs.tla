--------------------------- MODULE DeliveryProofs ---------------------------
(***************************************************************************)
(* Theorems about a page's way to the vault, for any number of pages,      *)
(* lectures, devices, upload runs, approvals and faults.                   *)
(***************************************************************************)
EXTENDS Delivery, TLAPS

LoopState == [todo : SUBSET Page, now : Page \cup {NoPage},
              reply : {"none", "ok", "no"}, dev : Device \cup {NoDevice}]
Working == {"opened", "checked", "written", "committed", "released"}
JobState == {NoJob} \cup [step : Working, sess : Session, pages : SUBSET Page, title : Title]

\* What the record updates of a run and of an approval give.
LEMMA LoopUpdates ==
  ASSUME NEW r \in LoopState, NEW p \in Page, NEW answer \in {"ok", "no"}
  PROVE  /\ [r EXCEPT !.todo = @ \ {p}, !.now = p] \in LoopState
         /\ [r EXCEPT !.now = NoPage, !.reply = "none"] \in LoopState
         /\ [r EXCEPT !.reply = answer] \in LoopState
BY DEF LoopState

LEMMA JobUpdates ==
  ASSUME NEW r \in JobState, r.step # "idle", NEW step \in Working
  PROVE  [r EXCEPT !.step = step] \in JobState
BY DEF JobState, NoJob

\* Steps of an approval keep the jobs well typed.
LEMMA JobSteps ==
  ASSUME job \in [Job -> JobState], NEW j \in Job
  PROVE  /\ NoJob \in JobState
         /\ EndJob(j) => job' \in [Job -> JobState]
         /\ \A step \in Working :
               job[j].step # "idle" /\ Step(j, step) => job' \in [Job -> JobState]
<1>1. NoJob \in JobState
  BY DEF JobState
<1>2. ASSUME EndJob(j) PROVE job' \in [Job -> JobState]
  BY <1>1, <1>2 DEF EndJob
<1>3. ASSUME NEW step \in Working, job[j].step # "idle", Step(j, step)
      PROVE  job' \in [Job -> JobState]
  <2>1. [job[j] EXCEPT !.step = step] \in JobState
    BY <1>3, JobUpdates
  <2>2. job' = [job EXCEPT ![j] = [job[j] EXCEPT !.step = step]]
    BY <1>3 DEF Step
  <2> QED
    BY <2>1, <2>2
<1> QED
  BY <1>1, <1>2, <1>3

\* The type invariant, with the shapes of runs and approvals named.
LEMMA TypeShape ==
  TypeOK <=> /\ state \in [Page -> {"none", "pending", "failed", "uploaded"}]
             /\ shown \subseteq Page
             /\ phone \in Device \cup {NoDevice}
             /\ loop \in [Loop -> LoopState]
             /\ wire \subseteq [page : Page, dev : Device, by : Loop \cup {NoLoop}]
             /\ box \in [Page -> Server!Sealed \cup {Nothing}]
             /\ registered \subseteq issued
             /\ issued \subseteq Device
             /\ drafts \in [Session -> SUBSET Page]
             /\ fetch \in [on : BOOLEAN, todo : SUBSET Page, got : SUBSET Page]
             /\ job \in [Job -> JobState]
             /\ revoking \in BOOLEAN
             /\ loose \subseteq NoteFile
             /\ notes \subseteq NoteFile
             /\ discarded \subseteq Page
             /\ faults \in 0 .. MaxFaults
BY DEF TypeOK, LoopState, JobState, Working

\* A run that still has pages to send was started by a paired phone.
RunsHaveAPhone == \A l \in Loop : loop[l].todo # {} => loop[l].dev \in Device

TypeInv == TypeOK /\ RunsHaveAPhone

\* What the phone does keeps the types.
LEMMA PhoneTypes == TypeInv /\ PhoneNext => TypeInv'
<1> SUFFICES ASSUME TypeOK, RunsHaveAPhone, PhoneNext PROVE TypeOK' /\ RunsHaveAPhone'
  BY DEF TypeInv
<1> USE DeliveryAssumption
<1> USE DEF RunsHaveAPhone, phoneVars, netVars, serviceVars, vaultVars
<1>1. /\ state \in [Page -> {"none", "pending", "failed", "uploaded"}]
      /\ loop \in [Loop -> LoopState]
      /\ wire \subseteq [page : Page, dev : Device, by : Loop \cup {NoLoop}]
      /\ shown \subseteq Page /\ phone \in Device \cup {NoDevice}
      /\ registered \subseteq issued /\ issued \subseteq Device /\ faults \in 0 .. MaxFaults
  BY TypeShape
<1>2. \A s : Waiting(s) \subseteq Page
  BY DEF Waiting
<1>3. ASSUME Fault PROVE faults' \in 0 .. MaxFaults
  BY <1>1, <1>3 DEF Fault
<1>4. ASSUME NEW L \in SUBSET Loop
      PROVE  Abandon(L) \subseteq [page : Page, dev : Device, by : Loop \cup {NoLoop}]
  <2>1. ASSUME NEW m \in wire
        PROVE  (IF m.by \in L THEN [m EXCEPT !.by = NoLoop] ELSE m)
                 \in [page : Page, dev : Device, by : Loop \cup {NoLoop}]
    BY <1>1
  <2> QED
    BY <2>1 DEF Abandon
<1>5. ASSUME NEW l \in Loop, NEW outcome \in {"uploaded", "failed"}, loop[l].now # NoPage,
             Finish(l, outcome)
      PROVE  /\ state' \in [Page -> {"none", "pending", "failed", "uploaded"}]
             /\ shown' \subseteq Page
             /\ loop' \in [Loop -> LoopState]
             /\ RunsHaveAPhone'
  <2>1. loop[l] \in LoopState /\ loop[l].now \in Page
    BY <1>1, <1>5 DEF LoopState
  <2>2. [loop[l] EXCEPT !.now = NoPage, !.reply = "none"] \in LoopState
    BY <2>1 DEF LoopState
  <2>3. loop' = [loop EXCEPT ![l] = [loop[l] EXCEPT !.now = NoPage, !.reply = "none"]]
    BY <1>5 DEF Finish
  <2>4. state' \in [Page -> {"none", "pending", "failed", "uploaded"}]
    BY <1>1, <1>5, <2>1 DEF Finish
  <2>5. shown' \subseteq Page
    BY <1>1, <1>2, <1>5 DEF Finish
  <2>6. RunsHaveAPhone'
    BY <1>1, <2>1, <2>3 DEF LoopState
  <2> QED
    BY <1>1, <2>2, <2>3, <2>4, <2>5, <2>6
<1>6. ASSUME NEW d \in Device, Pair(d) PROVE TypeOK' /\ RunsHaveAPhone'
  BY <1>2, <1>6, TypeShape DEF Pair, TypeOK
<1>7. CASE Unpair
  BY <1>1, <1>3, <1>7 DEF Unpair, TypeOK
<1>8. ASSUME NEW p \in Page, Shoot(p) PROVE TypeOK' /\ RunsHaveAPhone'
  BY <1>1, <1>2, <1>8 DEF Shoot, TypeOK
<1>9. ASSUME NEW l \in Loop, StartUpload(l) PROVE TypeOK' /\ RunsHaveAPhone'
  <2> DEFINE run == [todo |-> shown, now |-> NoPage, reply |-> "none", dev |-> phone]
  <2>1. run \in LoopState /\ run.dev \in Device
    BY <1>1, <1>9 DEF StartUpload, LoopState
  <2>2. loop' = [loop EXCEPT ![l] = run]
    BY <1>9 DEF StartUpload
  <2>3. loop' \in [Loop -> LoopState] /\ RunsHaveAPhone'
    <3> HIDE DEF run
    <3> QED
      BY <1>1, <2>1, <2>2
  <2> QED
    BY <1>9, <2>3, TypeShape DEF StartUpload, TypeOK, LoopState
<1>10. ASSUME NEW l \in Loop, NEW p \in Page, SendPage(l, p) PROVE TypeOK' /\ RunsHaveAPhone'
  <2>1. loop[l] \in LoopState /\ loop[l].dev \in Device
    BY <1>1, <1>10 DEF SendPage
  <2>2. loop' = [loop EXCEPT ![l] = [loop[l] EXCEPT !.todo = @ \ {p}, !.now = p]]
    BY <1>10 DEF SendPage
  <2>3. [loop[l] EXCEPT !.todo = @ \ {p}, !.now = p] \in LoopState
    BY <2>1 DEF LoopState
  <2>4. loop' \in [Loop -> LoopState] /\ RunsHaveAPhone'
    BY <1>1, <2>1, <2>2, <2>3 DEF LoopState
  <2>5. wire' \subseteq [page : Page, dev : Device, by : Loop \cup {NoLoop}]
    BY <1>1, <1>10, <2>1 DEF SendPage
  <2> QED
    BY <1>10, <2>4, <2>5, TypeShape DEF SendPage, TypeOK, LoopState
<1>11. ASSUME NEW l \in Loop, ReceiveReply(l) PROVE TypeOK' /\ RunsHaveAPhone'
  <2>1. Outcome(l) \in {"uploaded", "failed"}
    BY DEF Outcome
  <2> QED
    BY <1>5, <1>11, <2>1, TypeShape DEF ReceiveReply, TypeOK, LoopState
<1>12. ASSUME NEW l \in Loop, LoseReply(l) PROVE TypeOK' /\ RunsHaveAPhone'
  BY <1>3, <1>4, <1>5, <1>12, TypeShape DEF LoseReply, TypeOK, LoopState
<1>13. CASE KillApp
  <2>1. NoLoopRun \in LoopState /\ NoLoopRun.todo = {}
    BY DEF NoLoopRun, LoopState
  <2>2. loop' \in [Loop -> LoopState] /\ RunsHaveAPhone'
    BY <1>13, <2>1 DEF KillApp
  <2> QED
    BY <1>2, <1>3, <1>4, <1>13, <2>2, TypeShape DEF KillApp, TypeOK, LoopState
<1> QED
  BY <1>6, <1>7, <1>8, <1>9, <1>10, <1>11, <1>12, <1>13 DEF PhoneNext

\* What the server's promises do to the box.
LEMMA BoxSteps ==
  ASSUME box \in [Page -> Server!Sealed \cup {Nothing}]
  PROVE  /\ \A S : Server!Take(Me, S) \/ Server!Empty(S)
                     => /\ box' = [p \in Page |-> IF p \in S THEN Nothing ELSE box[p]]
                        /\ box' \in [Page -> Server!Sealed \cup {Nothing}]
         /\ \A p \in Page, d \in Device : Server!Deposit(p, [account |-> Me, from |-> d])
                     => /\ p \notin Held
                        /\ box' = [box EXCEPT ![p] = [account |-> Me, from |-> d]]
                        /\ box' \in [Page -> Server!Sealed \cup {Nothing}]
         /\ \A d : Server!DropDevice(Me, d)
                     => Server!Empty({p \in Held : box[p].from = d})
         /\ Held = {p \in Page : box[p] # Nothing}
<1>1. ASSUME NEW p \in Page, NEW d \in Device,
             Server!Deposit(p, [account |-> Me, from |-> d])
      PROVE  /\ p \notin Held
             /\ box' = [box EXCEPT ![p] = [account |-> Me, from |-> d]]
             /\ box' \in [Page -> Server!Sealed \cup {Nothing}]
  BY <1>1 DEF Server!Deposit, Server!Sealed, Held
<1> QED
  BY <1>1 DEF Server!Take, Server!Empty, Server!DropDevice, Held, Server!Held

\* The network and the server keep the types.
LEMMA NetTypes == TypeInv /\ NetNext => TypeInv'
<1> SUFFICES ASSUME TypeOK, RunsHaveAPhone, NetNext PROVE TypeOK' /\ RunsHaveAPhone'
  BY DEF TypeInv
<1> USE DeliveryAssumption
<1> USE DEF RunsHaveAPhone, phoneVars, netVars, serviceVars, vaultVars
<1>1. PICK m \in wire : LoseRequest(m) \/ HandleUpload(m)
  BY DEF NetNext
<1>2. CASE LoseRequest(m)
  BY <1>2 DEF LoseRequest, TypeOK
<1>3. CASE HandleUpload(m)
  <2>1. /\ loop \in [Loop -> LoopState]
        /\ m \in [page : Page, dev : Device, by : Loop \cup {NoLoop}]
    BY TypeShape
  <2>2. PICK answer \in {"ok", "no"} : Reply(m, answer)
    BY <1>3 DEF HandleUpload
  <2>3. CASE m.by = NoLoop
    <3>1. loop' \in [Loop -> LoopState] /\ RunsHaveAPhone'
      BY <2>1, <2>2, <2>3 DEF Reply
    <3> QED
      BY <1>3, <2>1, <3>1, BoxSteps, TypeShape DEF HandleUpload, TypeOK, LoopState
  <2>4. CASE m.by \in Loop
    <3>1. loop' = [loop EXCEPT ![m.by].reply = answer]
      BY <2>2, <2>4 DEF Reply
    <3>2. loop' = [loop EXCEPT ![m.by] = [loop[m.by] EXCEPT !.reply = answer]]
      BY <3>1
    <3>3. [loop[m.by] EXCEPT !.reply = answer] \in LoopState
      BY <2>1, <2>4, LoopUpdates
    <3>4. loop' \in [Loop -> LoopState] /\ RunsHaveAPhone'
      BY <2>1, <2>4, <3>2, <3>3 DEF LoopState
    <3> QED
      BY <1>3, <2>1, <3>4, BoxSteps, TypeShape DEF HandleUpload, TypeOK, LoopState
  <2> QED
    BY <2>1, <2>3, <2>4
<1> QED
  BY <1>1, <1>2, <1>3

\* A refresh keeps the types.
LEMMA RefreshTypes == TypeInv /\ RefreshNext => TypeInv'
<1> SUFFICES ASSUME TypeOK, RunsHaveAPhone, RefreshNext PROVE TypeOK' /\ RunsHaveAPhone'
  BY DEF TypeInv
<1> USE DEF RunsHaveAPhone, phoneVars, netVars, serviceVars, vaultVars
<1>1. Held \subseteq Page
  BY DEF Held, Server!Held
<1>2. NoFetch \in [on : BOOLEAN, todo : SUBSET Page, got : SUBSET Page]
  BY DEF NoFetch
<1>3. CASE StartRefresh
  BY <1>1, <1>3 DEF StartRefresh, TypeOK
<1>4. ASSUME NEW p \in Page, FetchPage(p) PROVE TypeOK' /\ RunsHaveAPhone'
  BY <1>4 DEF FetchPage, TypeOK
<1>5. CASE FetchGone
  BY <1>2, <1>5 DEF FetchGone, EndRefresh, TypeOK
<1>6. CASE FailRefresh
  <2>1. faults' \in 0 .. MaxFaults
    BY <1>6, DeliveryAssumption DEF FailRefresh, Fault, TypeOK
  <2> QED
    BY <1>2, <1>6, <2>1 DEF FailRefresh, EndRefresh, TypeOK
<1>7. CASE FinishRefresh
  <2>1. drafts' \in [Session -> SUBSET Page]
    BY <1>7 DEF FinishRefresh, TypeOK
  <2> QED
    BY <1>2, <1>7, <2>1 DEF FinishRefresh, EndRefresh, TypeOK
<1> QED
  BY <1>3, <1>4, <1>5, <1>6, <1>7 DEF RefreshNext

\* Approvals, revocations and restarts keep the types.
LEMMA ServiceTypes == TypeInv /\ ServiceNext => TypeInv'
<1> SUFFICES ASSUME TypeOK, RunsHaveAPhone, ServiceNext PROVE TypeOK' /\ RunsHaveAPhone'
  BY DEF TypeInv
<1> USE DEF RunsHaveAPhone, phoneVars, netVars, serviceVars, vaultVars
<1>1. job \in [Job -> JobState] /\ drafts \in [Session -> SUBSET Page]
  BY TypeShape
<1>2. ASSUME Fault PROVE faults' \in 0 .. MaxFaults
  BY <1>2, DeliveryAssumption DEF Fault, TypeOK
<1>3. NoDrafts \in [Session -> SUBSET Page] /\ NoJob \in JobState
  BY JobSteps, <1>1 DEF NoDrafts, JobState, Working
<1>4. ASSUME NEW j \in Job, NEW s \in Session, NEW t \in Title, OpenApproval(j, s, t)
      PROVE  TypeOK' /\ RunsHaveAPhone'
  <2> DEFINE opened == [step |-> "opened", sess |-> s, pages |-> drafts[s], title |-> t]
  <2>1. opened \in JobState
    BY <1>1 DEF JobState, Working
  <2>2. job' \in [Job -> JobState]
    BY <1>1, <1>4, <2>1 DEF OpenApproval
  <2> QED
    BY <1>4, <2>2, TypeShape DEF OpenApproval, TypeOK, JobState, Working
<1>5. ASSUME NEW j \in Job, CheckTree(j) PROVE TypeOK' /\ RunsHaveAPhone'
  <2>1. job' \in [Job -> JobState]
    BY <1>1, <1>5, JobSteps DEF CheckTree, Working
  <2> QED
    BY <1>5, <2>1 DEF CheckTree, TypeOK, JobState, Working
<1>6. ASSUME NEW j \in Job, WriteFiles(j) PROVE TypeOK' /\ RunsHaveAPhone'
  <2>1. job' \in [Job -> JobState]
    BY <1>1, <1>6, JobSteps DEF WriteFiles, Working
  <2>2. PathTaken(j) \/ NoteOf(j) \in NoteFile
    BY <1>1, <1>6 DEF WriteFiles, NoteOf, NoteFile, JobState, NoJob
  <2>3. loose' \subseteq NoteFile
    BY <1>6, <2>2 DEF WriteFiles, TypeOK
  <2> QED
    BY <1>6, <2>1, <2>3 DEF WriteFiles, TypeOK, JobState, Working
<1>7. ASSUME NEW j \in Job, CommitNote(j) PROVE TypeOK' /\ RunsHaveAPhone'
  <2>1. job' \in [Job -> JobState]
    BY <1>1, <1>7, JobSteps DEF CommitNote, Working
  <2> QED
    BY <1>7, <2>1 DEF CommitNote, TypeOK, JobState, Working
<1>8. ASSUME NEW j \in Job, AckArrives(j) PROVE TypeOK' /\ RunsHaveAPhone'
  <2>1. job' \in [Job -> JobState]
    BY <1>1, <1>8, JobSteps DEF AckArrives, Working
  <2>2. box' \in [Page -> Server!Sealed \cup {Nothing}]
    BY <1>8, BoxSteps DEF AckArrives, TypeOK
  <2> QED
    BY <1>8, <2>1, <2>2 DEF AckArrives, TypeOK, JobState, Working
<1>9. ASSUME NEW j \in Job, AckAnswered(j) PROVE TypeOK' /\ RunsHaveAPhone'
  <2>1. job' \in [Job -> JobState] /\ drafts' \in [Session -> SUBSET Page]
    BY <1>1, <1>9, JobSteps DEF AckAnswered
  <2> QED
    BY <1>9, <2>1 DEF AckAnswered, TypeOK, JobState, Working
<1>10. ASSUME NEW j \in Job, FailCommit(j) \/ LoseAck(j) PROVE TypeOK' /\ RunsHaveAPhone'
  <2>1. job' \in [Job -> JobState]
    BY <1>1, <1>10, JobSteps DEF FailCommit, LoseAck
  <2> QED
    BY <1>2, <1>10, <2>1 DEF FailCommit, LoseAck, TypeOK, JobState, Working
<1>11. ASSUME NEW d \in Device, RevokeArrives(d) PROVE TypeOK' /\ RunsHaveAPhone'
  <2>1. box' \in [Page -> Server!Sealed \cup {Nothing}] /\ Held \subseteq Page
    BY <1>11, BoxSteps DEF RevokeArrives, TypeOK
  <2> QED
    BY <1>2, <1>11, <2>1 DEF RevokeArrives, TypeOK
<1>12. CASE RevokeAnswered \/ LoseRevokeAnswer
  BY <1>2, <1>3, <1>12 DEF RevokeAnswered, LoseRevokeAnswer, TypeOK
<1>13. CASE CrashService
  <2>1. job' \in [Job -> JobState]
    BY <1>3, <1>13 DEF CrashService
  <2>2. fetch' \in [on : BOOLEAN, todo : SUBSET Page, got : SUBSET Page]
    BY <1>13 DEF CrashService, NoFetch
  <2> QED
    BY <1>2, <1>3, <1>13, <2>1, <2>2 DEF CrashService, TypeOK, JobState, Working
<1> QED
  BY <1>4, <1>5, <1>6, <1>7, <1>8, <1>9, <1>10, <1>11, <1>12, <1>13
     DEF ServiceNext, ApproveStep

LEMMA TidyTypes == TypeInv /\ TidyVault => TypeInv'
<1> SUFFICES ASSUME TypeOK, RunsHaveAPhone, TidyVault PROVE TypeOK' /\ RunsHaveAPhone'
  BY DEF TypeInv
<1>1. faults' \in 0 .. MaxFaults
  BY DeliveryAssumption DEF TidyVault, Fault, TypeOK
<1> QED
  BY <1>1 DEF TidyVault, TypeOK, RunsHaveAPhone, phoneVars, netVars, serviceVars

LEMMA TypeAtStart == Init => TypeInv
<1> SUFFICES ASSUME Init PROVE TypeInv
  OBVIOUS
<1>1. loop \in [Loop -> LoopState] /\ RunsHaveAPhone
  BY DEF Init, NoLoopRun, LoopState, RunsHaveAPhone
<1>2. job \in [Job -> JobState]
  BY DEF Init, JobState
<1>3. /\ state \in [Page -> {"none", "pending", "failed", "uploaded"}]
      /\ box \in [Page -> Server!Sealed \cup {Nothing}]
      /\ drafts \in [Session -> SUBSET Page]
  BY DEF Init, NoDrafts
<1>4. fetch \in [on : BOOLEAN, todo : SUBSET Page, got : SUBSET Page]
  BY DEF Init, NoFetch
<1>5. /\ phone \in Device \cup {NoDevice} /\ wire = {} /\ shown = {} /\ registered = {}
      /\ issued = {} /\ revoking \in BOOLEAN /\ loose = {} /\ notes = {} /\ discarded = {}
  BY DEF Init
<1>6. faults \in 0 .. MaxFaults
  BY DeliveryAssumption DEF Init
<1> QED
  BY <1>1, <1>2, <1>3, <1>4, <1>5, <1>6, TypeShape DEF TypeInv

LEMMA TypeSteps == TypeInv /\ [Next]_vars => TypeInv'
<1> SUFFICES ASSUME TypeInv, [Next]_vars PROVE TypeInv'
  OBVIOUS
<1>1. CASE UNCHANGED vars
  BY <1>1 DEF vars, phoneVars, netVars, serviceVars, vaultVars, TypeInv, TypeOK, RunsHaveAPhone
<1> QED
  BY <1>1, PhoneTypes, NetTypes, RefreshTypes, ServiceTypes, TidyTypes DEF Next

LEMMA TypeInvariant == Spec => []TypeInv
  BY TypeAtStart, TypeSteps, PTL DEF Spec

\* Every state has the shape TypeOK gives: in particular the manifest, the network
\* and the drafts never name a page that does not exist, and no more goes wrong
\* than the model's bound (apps/phone/src/store.ts, apps/desktop/service/api.ts).
THEOREM TypeCorrect == Spec => []TypeOK
<1>1. TypeInv => TypeOK
  BY DEF TypeInv
<1> QED
  BY <1>1, TypeInvariant, PTL
-----------------------------------------------------------------------------
(* The inductive invariant *)

\* The request of a run is the one it waits for, and is not answered yet.
OneRequestPerRun ==
    \A m \in wire : m.by \in Loop =>
        /\ loop[m.by].now = m.page
        /\ loop[m.by].dev = m.dev
        /\ loop[m.by].reply = "none"

\* Only a run that waits has an answer, and a good answer tells the truth.
AnswersAreTrue ==
    \A l \in Loop :
        /\ loop[l].now = NoPage => loop[l].reply = "none"
        /\ loop[l].reply = "ok" => loop[l].now \in Settled

\* An approval that is past its commit has its pages in a committed note.
CommitsAreReal ==
    \A j \in Job : job[j].step \in {"committed", "released"} => job[j].pages \subseteq Noted

\* A refresh works on pages that can be accounted for.
FetchIsAccountedFor == fetch.got \subseteq Settled

DeliveryInv ==
    /\ TypeInv
    /\ OneRequestPerRun
    /\ AnswersAreTrue
    /\ CommitsAreReal
    /\ FetchIsAccountedFor
    /\ DraftsAreAccountedFor
    /\ NoPageLost

\* Which steps leave which variables alone.
LEMMA QuietSteps ==
  /\ RefreshNext \/ ServiceNext \/ TidyVault => UNCHANGED <<state, loop, wire>>
  /\ PhoneNext \/ NetNext \/ RefreshNext \/ TidyVault => UNCHANGED job
  /\ PhoneNext \/ NetNext \/ TidyVault => UNCHANGED <<drafts, fetch>>
  /\ PhoneNext \/ RefreshNext \/ TidyVault => UNCHANGED <<box, discarded>>
  /\ PhoneNext \/ NetNext \/ RefreshNext => UNCHANGED <<loose, notes>>
<1> USE DEF phoneVars, netVars, serviceVars, vaultVars
<1>1. PhoneNext => UNCHANGED <<job, drafts, fetch, box, discarded, loose, notes>>
  BY DEF PhoneNext, Pair, Unpair, Shoot, StartUpload, SendPage, ReceiveReply, LoseReply, KillApp
<1>2. NetNext => UNCHANGED <<job, drafts, fetch, loose, notes>>
  BY DEF NetNext, LoseRequest, HandleUpload
<1>3. RefreshNext => UNCHANGED <<state, loop, wire, job, box, discarded, loose, notes>>
  BY DEF RefreshNext, StartRefresh, FetchPage, FetchGone, FailRefresh, FinishRefresh
<1>4. ServiceNext => UNCHANGED <<state, loop, wire>>
  BY DEF ServiceNext, OpenApproval, ApproveStep, CheckTree, WriteFiles, CommitNote, AckArrives,
         AckAnswered, FailCommit, LoseAck, RevokeArrives, RevokeAnswered, LoseRevokeAnswer,
         CrashService
<1>5. TidyVault => UNCHANGED <<state, loop, wire, job, drafts, fetch, box, discarded>>
  BY DEF TidyVault
<1> QED
  BY <1>1, <1>2, <1>3, <1>4, <1>5

\* The steps of the service that touch the box.
LEMMA QuietServiceSteps ==
  /\ ServiceNext /\ ~(\E j \in Job : AckArrives(j)) /\ ~(\E d \in Device : RevokeArrives(d))
       => UNCHANGED <<box, discarded>>
  /\ ServiceNext /\ ~(\E j \in Job : CommitNote(j)) => UNCHANGED notes
  /\ ServiceNext => notes \subseteq notes'
<1> USE DEF phoneVars, netVars, serviceVars, vaultVars
<1>1. ServiceNext /\ ~(\E j \in Job : AckArrives(j)) /\ ~(\E d \in Device : RevokeArrives(d))
        => UNCHANGED <<box, discarded>>
  BY DEF ServiceNext, OpenApproval, ApproveStep, CheckTree, WriteFiles, CommitNote,
         AckAnswered, FailCommit, LoseAck, RevokeAnswered, LoseRevokeAnswer,
         CrashService
<1>2. ServiceNext /\ ~(\E j \in Job : CommitNote(j)) => UNCHANGED notes
  BY DEF ServiceNext, OpenApproval, ApproveStep, CheckTree, WriteFiles, AckArrives,
         AckAnswered, FailCommit, LoseAck, RevokeArrives, RevokeAnswered, LoseRevokeAnswer,
         CrashService
<1>3. ASSUME NEW j \in Job, CommitNote(j) PROVE notes \subseteq notes'
  BY <1>3 DEF CommitNote
<1> QED
  BY <1>1, <1>2, <1>3

\* Notes are never taken back.
LEMMA NotedGrows == [Next]_vars => notes \subseteq notes' /\ Noted \subseteq Noted'
<1>1. [Next]_vars => notes \subseteq notes'
  <2>1. TidyVault => notes \subseteq notes'
    BY DEF TidyVault
  <2>2. UNCHANGED vars => notes \subseteq notes'
    BY DEF vars, vaultVars
  <2> QED
    BY <2>1, <2>2, QuietSteps, QuietServiceSteps DEF Next
<1> QED
  BY <1>1 DEF Noted

\* What has been accounted for once stays accounted for.
LEMMA SettledGrows == TypeInv /\ CommitsAreReal /\ [Next]_vars => Settled \subseteq Settled'
<1> SUFFICES ASSUME TypeOK, CommitsAreReal, [Next]_vars PROVE Settled \subseteq Settled'
  BY DEF TypeInv
<1>a. discarded \subseteq discarded'
  <2>1. ASSUME NEW d \in Device, RevokeArrives(d) PROVE discarded \subseteq discarded'
    BY <2>1 DEF RevokeArrives
  <2>2. ASSUME NEW j \in Job, AckArrives(j) PROVE discarded \subseteq discarded'
    BY <2>2 DEF AckArrives
  <2>3. NetNext => UNCHANGED discarded
    BY DEF NetNext, LoseRequest, HandleUpload
  <2>4. UNCHANGED vars => UNCHANGED discarded
    BY DEF vars
  <2>5. ServiceNext => discarded \subseteq discarded'
    BY <2>1, <2>2, QuietServiceSteps
  <2> QED
    BY <2>3, <2>4, <2>5, QuietSteps DEF Next
<1> SUFFICES ASSUME NEW p \in Held, p \notin Noted
             PROVE  p \in Held' \/ p \in Noted' \/ p \in discarded'
  BY <1>a, NotedGrows DEF Settled
<1>1. box \in [Page -> Server!Sealed \cup {Nothing}] /\ p \in Page /\ box[p] # Nothing
  BY DEF TypeOK, Held, Server!Held
<1>2. UNCHANGED box => p \in Held'
  BY <1>1 DEF Held, Server!Held
<1>3. CASE NetNext
  <2>1. PICK m \in wire : LoseRequest(m) \/ HandleUpload(m)
    BY <1>3 DEF NetNext
  <2>2. m.page \in Page /\ m.dev \in Device
    BY <2>1 DEF TypeOK
  <2>3. CASE UNCHANGED box
    BY <1>2, <2>3
  <2>4. CASE Server!Deposit(m.page, [account |-> Me, from |-> m.dev])
    <3>1. /\ m.page \notin Held
          /\ box' = [box EXCEPT ![m.page] = [account |-> Me, from |-> m.dev]]
      BY <1>1, <2>2, <2>4, BoxSteps
    <3> QED
      BY <1>1, <3>1 DEF Held, Server!Held
  <2> QED
    BY <2>1, <2>3, <2>4 DEF LoseRequest, HandleUpload, netVars
<1>4. ASSUME NEW j \in Job, AckArrives(j) PROVE p \in Held'
  <2>1. job[j].pages \subseteq Noted
    BY <1>4 DEF AckArrives, CommitsAreReal
  <2>2. box' = [q \in Page |-> IF q \in AckedPages(j) \cap Held THEN Nothing ELSE box[q]]
    BY <1>4 DEF AckArrives, Server!Take, Server!Empty
  <2> QED
    BY <1>1, <2>1, <2>2 DEF AckedPages, Held, Server!Held
<1>5. ASSUME NEW d \in Device, RevokeArrives(d) PROVE p \in Held' \/ p \in discarded'
  <2>1. box' = [q \in Page |-> IF q \in {r \in Held : box[r].from = d} THEN Nothing ELSE box[q]]
    BY <1>5 DEF RevokeArrives, Server!DropDevice, Server!Empty, Held
  <2> QED
    BY <1>1, <1>5, <2>1 DEF RevokeArrives, Held, Server!Held
<1> QED
  BY <1>2, <1>3, <1>4, <1>5, QuietSteps, QuietServiceSteps DEF Next, vars, netVars

\* Requests, runs and their answers stay in step.
LEMMA RunsStayInStep ==
  DeliveryInv /\ [Next]_vars => OneRequestPerRun' /\ AnswersAreTrue'
<1> SUFFICES ASSUME DeliveryInv, [Next]_vars PROVE OneRequestPerRun' /\ AnswersAreTrue'
  OBVIOUS
<1> USE DeliveryAssumption
<1>1. /\ loop \in [Loop -> LoopState]
      /\ wire \subseteq [page : Page, dev : Device, by : Loop \cup {NoLoop}]
      /\ NoLoop \notin Loop /\ NoPage \notin Page
  BY TypeShape DEF DeliveryInv, TypeInv
<1>2. OneRequestPerRun /\ AnswersAreTrue
  BY DEF DeliveryInv
<1>3. Settled \subseteq Settled'
  BY SettledGrows DEF DeliveryInv
<1>4. UNCHANGED <<loop, wire>> => OneRequestPerRun' /\ AnswersAreTrue'
  BY <1>2, <1>3 DEF OneRequestPerRun, AnswersAreTrue
\* A run that ends its wait, or an app that dies, abandons its request.
<1>5. ASSUME NEW L \in SUBSET Loop,
             \A m \in wire' : m.by \in Loop => m \in wire /\ m.by \notin L,
             loop' \in [Loop -> LoopState],
             \A l \in Loop \ L : loop'[l] = loop[l],
             \A l \in L : loop'[l].now = NoPage /\ loop'[l].reply = "none"
      PROVE  OneRequestPerRun' /\ AnswersAreTrue'
  <2>1. OneRequestPerRun'
    BY <1>1, <1>2, <1>5 DEF OneRequestPerRun
  <2>2. AnswersAreTrue'
    BY <1>1, <1>2, <1>3, <1>5 DEF AnswersAreTrue
  <2> QED
    BY <2>1, <2>2
<1>6. CASE (\E d \in Device : Pair(d)) \/ Unpair \/ \E p \in Page : Shoot(p)
  BY <1>4, <1>6 DEF Pair, Unpair, Shoot, netVars
<1>7. ASSUME NEW l \in Loop, StartUpload(l) PROVE OneRequestPerRun' /\ AnswersAreTrue'
  <2>1. /\ loop[l].now = NoPage /\ wire' = wire
        /\ loop' = [loop EXCEPT ![l] = [todo |-> shown, now |-> NoPage, reply |-> "none",
                                        dev |-> phone]]
    BY <1>7 DEF StartUpload, Idle, netVars
  <2>2. \A m \in wire : m.by # l
    BY <1>1, <1>2, <2>1 DEF OneRequestPerRun
  <2>3. \A k \in Loop \ {l} : loop'[k] = loop[k]
    BY <1>1, <2>1
  <2>4. loop'[l].now = NoPage /\ loop'[l].reply = "none"
    BY <1>1, <2>1
  <2>5. OneRequestPerRun'
    BY <1>1, <1>2, <2>1, <2>2, <2>3 DEF OneRequestPerRun
  <2>6. AnswersAreTrue'
    BY <1>2, <1>3, <2>3, <2>4 DEF AnswersAreTrue
  <2> QED
    BY <2>5, <2>6
<1>8. ASSUME NEW l \in Loop, NEW p \in Page, SendPage(l, p)
      PROVE  OneRequestPerRun' /\ AnswersAreTrue'
  <2> DEFINE request == [page |-> p, dev |-> loop[l].dev, by |-> l]
  <2>1. /\ loop[l].now = NoPage /\ wire' = wire \cup {request}
        /\ loop' = [loop EXCEPT ![l].todo = @ \ {p}, ![l].now = p]
    BY <1>8 DEF SendPage
  <2>2. \A k \in Loop \ {l} : loop'[k] = loop[k]
    BY <1>1, <2>1
  <2>3. loop'[l].now = p /\ loop'[l].reply = loop[l].reply /\ loop'[l].dev = loop[l].dev
    BY <1>1, <2>1 DEF LoopState
  <2>4. loop[l].reply = "none"
    BY <1>2, <2>1 DEF AnswersAreTrue
  <2>5. \A m \in wire : m.by # l
    BY <1>1, <1>2, <2>1 DEF OneRequestPerRun
  <2>6. OneRequestPerRun'
    BY <1>1, <1>2, <2>1, <2>2, <2>3, <2>4, <2>5 DEF OneRequestPerRun
  <2>7. AnswersAreTrue'
    BY <1>1, <1>2, <1>3, <2>2, <2>3, <2>4 DEF AnswersAreTrue
  <2> QED
    BY <2>6, <2>7
<1>9. ASSUME NEW l \in Loop, NEW outcome, Finish(l, outcome)
      PROVE  /\ loop' \in [Loop -> LoopState]
             /\ \A k \in Loop \ {l} : loop'[k] = loop[k]
             /\ loop'[l].now = NoPage /\ loop'[l].reply = "none"
  <2>1. loop' = [loop EXCEPT ![l] = [loop[l] EXCEPT !.now = NoPage, !.reply = "none"]]
    BY <1>9 DEF Finish
  <2>2. [loop[l] EXCEPT !.now = NoPage, !.reply = "none"] \in LoopState
    BY <1>1 DEF LoopState
  <2> QED
    BY <1>1, <2>1, <2>2 DEF LoopState
<1>10. ASSUME NEW l \in Loop, ReceiveReply(l) PROVE OneRequestPerRun' /\ AnswersAreTrue'
  <2>1. Finish(l, Outcome(l)) /\ wire' = wire /\ loop[l].reply # "none"
    BY <1>10 DEF ReceiveReply, netVars
  <2>2. \A m \in wire' : m.by \in Loop => m \in wire /\ m.by # l
    BY <1>2, <2>1 DEF OneRequestPerRun
  <2>3. /\ {l} \in SUBSET Loop
        /\ \A m \in wire' : m.by \in Loop => m \in wire /\ m.by \notin {l}
        /\ loop' \in [Loop -> LoopState]
        /\ \A k \in Loop \ {l} : loop'[k] = loop[k]
        /\ \A k \in {l} : loop'[k].now = NoPage /\ loop'[k].reply = "none"
    BY <1>9, <2>1, <2>2
  <2> QED
    BY <1>5, <2>3
<1>11. ASSUME NEW l \in Loop, LoseReply(l) PROVE OneRequestPerRun' /\ AnswersAreTrue'
  <2>1. Finish(l, "failed") /\ wire' = Abandon({l})
    BY <1>11 DEF LoseReply
  <2>2. \A m \in wire' : m.by \in Loop => m \in wire /\ m.by # l
    BY <1>1, <2>1 DEF Abandon
  <2>3. /\ {l} \in SUBSET Loop
        /\ \A m \in wire' : m.by \in Loop => m \in wire /\ m.by \notin {l}
        /\ loop' \in [Loop -> LoopState]
        /\ \A k \in Loop \ {l} : loop'[k] = loop[k]
        /\ \A k \in {l} : loop'[k].now = NoPage /\ loop'[k].reply = "none"
    BY <1>9, <2>1, <2>2
  <2> QED
    BY <1>5, <2>3
<1>12. CASE KillApp
  <2>1. loop' = [l \in Loop |-> NoLoopRun] /\ wire' = Abandon(Loop)
    BY <1>12 DEF KillApp
  <2>2. NoLoopRun \in LoopState /\ NoLoopRun.now = NoPage /\ NoLoopRun.reply = "none"
    BY DEF NoLoopRun, LoopState
  <2>3. \A m \in wire' : m.by \notin Loop
    BY <1>1, <2>1 DEF Abandon
  <2> QED
    BY <1>5, <2>1, <2>2, <2>3
<1>13. ASSUME NEW m \in wire, LoseRequest(m) PROVE OneRequestPerRun' /\ AnswersAreTrue'
  <2>1. wire' \subseteq wire /\ loop' = loop
    BY <1>13 DEF LoseRequest, phoneVars
  <2> QED
    BY <1>2, <1>3, <2>1 DEF OneRequestPerRun, AnswersAreTrue
<1>14. ASSUME NEW m \in wire, HandleUpload(m) PROVE OneRequestPerRun' /\ AnswersAreTrue'
  <2>1. m \in [page : Page, dev : Device, by : Loop \cup {NoLoop}] /\ wire' = wire \ {m}
    BY <1>1, <1>14 DEF HandleUpload
  <2>2. PICK answer \in {"ok", "no"} : Reply(m, answer) /\ (answer = "ok" => m.page \in Held')
    <3>1. box \in [Page -> Server!Sealed \cup {Nothing}]
      BY DEF DeliveryInv, TypeInv, TypeOK
    <3>2. ASSUME UNCHANGED box, m.page \in Held PROVE m.page \in Held'
      BY <3>2 DEF Held, Server!Held
    <3>3. ASSUME Server!Deposit(m.page, [account |-> Me, from |-> m.dev]) PROVE m.page \in Held'
      <4>1. box' = [box EXCEPT ![m.page] = [account |-> Me, from |-> m.dev]]
        BY <3>3 DEF Server!Deposit
      <4>2. [account |-> Me, from |-> m.dev] # Nothing
        BY <2>1 DEF Me
      <4> QED
        BY <2>1, <3>1, <4>1, <4>2 DEF Held, Server!Held
    <3> QED
      BY <1>14, <3>2, <3>3 DEF HandleUpload
  <2>3. m.page \in Settled' \/ answer = "no"
    BY <2>2 DEF Settled
  <2>4. CASE m.by = NoLoop
    <3>1. loop' = loop
      BY <2>2, <2>4 DEF Reply
    <3> QED
      BY <1>2, <1>3, <2>1, <3>1 DEF OneRequestPerRun, AnswersAreTrue
  <2>5. CASE m.by \in Loop
    <3>1. loop' = [loop EXCEPT ![m.by].reply = answer]
      BY <1>1, <2>2, <2>5 DEF Reply
    <3>2. \A k \in Loop \ {m.by} : loop'[k] = loop[k]
      BY <1>1, <3>1
    <3>3. loop'[m.by].now = m.page /\ loop'[m.by].reply = answer
      BY <1>1, <1>2, <2>5, <3>1 DEF LoopState, OneRequestPerRun
    <3>4. \A n \in wire' : n.by # m.by
      <4> SUFFICES ASSUME NEW n \in wire', n.by = m.by PROVE FALSE
        OBVIOUS
      <4>1. n \in wire /\ n # m /\ n \in [page : Page, dev : Device, by : Loop \cup {NoLoop}]
        BY <1>1, <2>1
      <4>2. n.page = m.page /\ n.dev = m.dev
        BY <1>2, <2>5, <4>1 DEF OneRequestPerRun
      <4> QED
        BY <2>1, <4>1, <4>2
    <3>5. OneRequestPerRun'
      BY <1>1, <1>2, <2>1, <3>2, <3>4 DEF OneRequestPerRun
    <3>6. AnswersAreTrue'
      BY <1>1, <1>2, <1>3, <2>1, <2>3, <3>2, <3>3 DEF AnswersAreTrue
    <3> QED
      BY <3>5, <3>6
  <2> QED
    BY <2>1, <2>4, <2>5
<1> QED
  <2>1. PhoneNext => OneRequestPerRun' /\ AnswersAreTrue'
    BY <1>6, <1>7, <1>8, <1>10, <1>11, <1>12 DEF PhoneNext
  <2>2. NetNext => OneRequestPerRun' /\ AnswersAreTrue'
    BY <1>13, <1>14 DEF NetNext
  <2>3. UNCHANGED vars => UNCHANGED <<loop, wire>>
    BY DEF vars, phoneVars, netVars
  <2> QED
    BY <1>4, <2>1, <2>2, <2>3, QuietSteps DEF Next

\* An approval is past its commit only when its note has been committed.
LEMMA CommitsStayReal == DeliveryInv /\ [Next]_vars => CommitsAreReal'
<1> SUFFICES ASSUME DeliveryInv, [Next]_vars PROVE CommitsAreReal'
  OBVIOUS
<1>1. job \in [Job -> JobState] /\ CommitsAreReal /\ NoJob.step = "idle"
  BY TypeShape DEF DeliveryInv, TypeInv, NoJob
<1>2. Noted \subseteq Noted'
  BY NotedGrows
<1>3. UNCHANGED job => CommitsAreReal'
  BY <1>1, <1>2 DEF CommitsAreReal
\* Only the step of one approval matters, and only when it gets past the commit.
<1>4. ASSUME NEW j \in Job, \A k \in Job \ {j} : job'[k] = job[k],
             job'[j].step \in {"committed", "released"} => job'[j].pages \subseteq Noted'
      PROVE  CommitsAreReal'
  BY <1>1, <1>2, <1>4 DEF CommitsAreReal
<1>5. ASSUME NEW j \in Job, EndJob(j) PROVE CommitsAreReal'
  BY <1>1, <1>4, <1>5 DEF EndJob
<1>6. ASSUME NEW j \in Job, NEW step, Step(j, step)
      PROVE  /\ \A k \in Job \ {j} : job'[k] = job[k]
             /\ job'[j].pages = job[j].pages
             /\ job[j].step # "idle" => job'[j].step = step
  <2>1. job' = [job EXCEPT ![j] = [job[j] EXCEPT !.step = step]]
    BY <1>6 DEF Step
  <2>2. job'[j] = [job[j] EXCEPT !.step = step] /\ \A k \in Job \ {j} : job'[k] = job[k]
    BY <1>1, <2>1
  <2> QED
    BY <1>1, <2>2 DEF JobState, NoJob
<1>7. ASSUME NEW j \in Job, NEW s \in Session, NEW t \in Title, OpenApproval(j, s, t)
      PROVE  CommitsAreReal'
  BY <1>1, <1>4, <1>7 DEF OpenApproval
<1>8. ASSUME NEW j \in Job, CheckTree(j) \/ WriteFiles(j) PROVE CommitsAreReal'
  <2>1. EndJob(j) \/ (job[j].step # "idle" /\ (Step(j, "checked") \/ Step(j, "written")))
    BY <1>8 DEF CheckTree, WriteFiles
  <2> QED
    BY <1>4, <1>5, <1>6, <2>1
<1>9. ASSUME NEW j \in Job, CommitNote(j) PROVE CommitsAreReal'
  <2>1. CASE EndJob(j)
    BY <1>5, <2>1
  <2>2. CASE Step(j, "committed") /\ notes' = notes \cup {NoteOf(j)}
    <3>1. job[j].pages \subseteq Noted'
      BY <2>2 DEF Noted, NoteOf
    <3> QED
      BY <1>4, <1>6, <2>2, <3>1
  <2> QED
    BY <1>9, <2>1, <2>2 DEF CommitNote
<1>10. ASSUME NEW j \in Job, AckArrives(j) PROVE CommitsAreReal'
  <2>1. job[j].step = "committed" /\ Step(j, "released")
    BY <1>10 DEF AckArrives
  <2>2. job[j].pages \subseteq Noted'
    BY <1>1, <1>2, <2>1 DEF CommitsAreReal
  <2> QED
    BY <1>4, <1>6, <2>1, <2>2
<1>11. ASSUME NEW j \in Job, AckAnswered(j) \/ FailCommit(j) \/ LoseAck(j) PROVE CommitsAreReal'
  BY <1>5, <1>11 DEF AckAnswered, FailCommit, LoseAck
<1>12. CASE CrashService
  BY <1>1, <1>12 DEF CrashService, CommitsAreReal
<1>13. CASE (\E d \in Device : RevokeArrives(d)) \/ RevokeAnswered \/ LoseRevokeAnswer
  BY <1>3, <1>13 DEF RevokeArrives, RevokeAnswered, LoseRevokeAnswer
<1> QED
  <2>1. ServiceNext => CommitsAreReal'
    BY <1>7, <1>8, <1>9, <1>10, <1>11, <1>12, <1>13 DEF ServiceNext, ApproveStep
  <2>2. UNCHANGED vars => UNCHANGED job
    BY DEF vars, serviceVars
  <2> QED
    BY <1>3, <2>1, <2>2, QuietSteps DEF Next

\* The list to review and the refresh in progress hold only accountable pages.
LEMMA DraftsStayAccountedFor ==
  DeliveryInv /\ [Next]_vars => FetchIsAccountedFor' /\ DraftsAreAccountedFor'
<1> SUFFICES ASSUME DeliveryInv, [Next]_vars
             PROVE  FetchIsAccountedFor' /\ DraftsAreAccountedFor'
  OBVIOUS
<1>1. /\ drafts \in [Session -> SUBSET Page]
      /\ fetch \in [on : BOOLEAN, todo : SUBSET Page, got : SUBSET Page]
      /\ FetchIsAccountedFor /\ DraftsAreAccountedFor
  BY DEF DeliveryInv, TypeInv, TypeOK
<1>2. Settled \subseteq Settled'
  BY SettledGrows DEF DeliveryInv
<1>3. UNCHANGED fetch => FetchIsAccountedFor'
  BY <1>1, <1>2 DEF FetchIsAccountedFor
<1>4. UNCHANGED drafts => DraftsAreAccountedFor'
  BY <1>1, <1>2 DEF DraftsAreAccountedFor
<1>5. fetch' = NoFetch => FetchIsAccountedFor'
  BY DEF FetchIsAccountedFor, NoFetch
<1>6. drafts' = NoDrafts => DraftsAreAccountedFor'
  BY DEF DraftsAreAccountedFor, NoDrafts
<1>7. CASE StartRefresh
  <2>1. fetch' = [on |-> TRUE, todo |-> Held, got |-> {}] /\ UNCHANGED drafts
    BY <1>7 DEF StartRefresh
  <2> QED
    BY <1>4, <2>1 DEF FetchIsAccountedFor
<1>8. ASSUME NEW p \in Page, FetchPage(p) PROVE FetchIsAccountedFor' /\ DraftsAreAccountedFor'
  <2>1. /\ p \in Settled /\ UNCHANGED drafts
        /\ fetch' = [fetch EXCEPT !.todo = @ \ {p}, !.got = @ \cup {p}]
    BY <1>8 DEF FetchPage, Settled
  <2>2. fetch'.got = fetch.got \cup {p}
    BY <1>1, <2>1
  <2> QED
    BY <1>1, <1>2, <1>4, <2>1, <2>2 DEF FetchIsAccountedFor
<1>9. CASE FetchGone \/ FailRefresh
  BY <1>4, <1>5, <1>9 DEF FetchGone, FailRefresh, EndRefresh
<1>10. CASE FinishRefresh
  <2>1. /\ fetch' = NoFetch
        /\ drafts' = [s \in Session |-> {p \in fetch.got : SessionOf[p] = s}]
    BY <1>10 DEF FinishRefresh, EndRefresh
  <2>2. \A s \in Session : drafts'[s] \subseteq fetch.got
    BY <2>1
  <2> QED
    BY <1>1, <1>2, <1>5, <2>1, <2>2 DEF FetchIsAccountedFor, DraftsAreAccountedFor
<1>11. ASSUME NEW j \in Job, AckAnswered(j) PROVE FetchIsAccountedFor' /\ DraftsAreAccountedFor'
  <2>1. UNCHANGED fetch /\ drafts' = [drafts EXCEPT ![job[j].sess] = {}]
    BY <1>11 DEF AckAnswered
  <2>2. \A s \in Session : drafts'[s] \subseteq drafts[s]
    BY <1>1, <2>1
  <2> QED
    BY <1>1, <1>2, <1>3, <2>1, <2>2 DEF DraftsAreAccountedFor
<1>12. CASE RevokeAnswered
  BY <1>3, <1>6, <1>12 DEF RevokeAnswered
<1>13. CASE CrashService
  BY <1>5, <1>6, <1>13 DEF CrashService
<1>14. ASSUME ServiceNext, ~RevokeAnswered, ~CrashService, ~(\E j \in Job : AckAnswered(j))
       PROVE  UNCHANGED <<drafts, fetch>>
  BY <1>14 DEF ServiceNext, OpenApproval, ApproveStep, CheckTree, WriteFiles, CommitNote,
               AckArrives, FailCommit, LoseAck, RevokeArrives, LoseRevokeAnswer
<1> QED
  <2>1. RefreshNext => FetchIsAccountedFor' /\ DraftsAreAccountedFor'
    BY <1>7, <1>8, <1>9, <1>10 DEF RefreshNext
  <2>2. ServiceNext => FetchIsAccountedFor' /\ DraftsAreAccountedFor'
    BY <1>3, <1>4, <1>11, <1>12, <1>13, <1>14
  <2>3. UNCHANGED vars => UNCHANGED <<drafts, fetch>>
    BY DEF vars, serviceVars
  <2> QED
    BY <1>3, <1>4, <2>1, <2>2, <2>3, QuietSteps DEF Next

\* The phone gives a page up only on a true answer.
LEMMA PagesStaySettled == DeliveryInv /\ [Next]_vars => NoPageLost'
<1> SUFFICES ASSUME DeliveryInv, [Next]_vars PROVE NoPageLost'
  OBVIOUS
<1>1. /\ state \in [Page -> {"none", "pending", "failed", "uploaded"}]
      /\ loop \in [Loop -> LoopState]
      /\ NoPageLost /\ AnswersAreTrue
  BY TypeShape DEF DeliveryInv, TypeInv
<1>2. Settled \subseteq Settled'
  BY SettledGrows DEF DeliveryInv
<1>3. UNCHANGED state => NoPageLost'
  BY <1>1, <1>2 DEF NoPageLost
<1>4. ASSUME NEW p, NEW s, s # "uploaded" \/ p \in Settled, state' = [state EXCEPT ![p] = s]
      PROVE  NoPageLost'
  BY <1>1, <1>2, <1>4 DEF NoPageLost
<1>5. ASSUME NEW p \in Page, Shoot(p) PROVE NoPageLost'
  BY <1>4, <1>5 DEF Shoot
<1>6. ASSUME NEW l \in Loop, ReceiveReply(l) PROVE NoPageLost'
  <2>1. state' = [state EXCEPT ![loop[l].now] = Outcome(l)]
    BY <1>6 DEF ReceiveReply, Finish
  <2>2. Outcome(l) # "uploaded" \/ loop[l].now \in Settled
    BY <1>1 DEF Outcome, AnswersAreTrue
  <2> QED
    BY <1>4, <2>1, <2>2
<1>7. ASSUME NEW l \in Loop, LoseReply(l) PROVE NoPageLost'
  BY <1>4, <1>7 DEF LoseReply, Finish
<1>8. ASSUME PhoneNext, ~(\E p \in Page : Shoot(p)),
             ~(\E l \in Loop : ReceiveReply(l) \/ LoseReply(l))
      PROVE  UNCHANGED state
  BY <1>8 DEF PhoneNext, Pair, Unpair, StartUpload, SendPage, KillApp
<1> QED
  <2>1. PhoneNext => NoPageLost'
    BY <1>3, <1>5, <1>6, <1>7, <1>8
  <2>2. NetNext => UNCHANGED state
    BY DEF NetNext, LoseRequest, HandleUpload, phoneVars
  <2>3. UNCHANGED vars => UNCHANGED state
    BY DEF vars, phoneVars
  <2> QED
    BY <1>3, <2>1, <2>2, <2>3, QuietSteps DEF Next

LEMMA DeliveryInvariant == Spec => []DeliveryInv
<1>1. Init => DeliveryInv
  <2> SUFFICES ASSUME Init PROVE DeliveryInv
    OBVIOUS
  <2>1. TypeInv
    BY TypeAtStart
  <2>2. OneRequestPerRun /\ AnswersAreTrue /\ CommitsAreReal
    BY DEF Init, OneRequestPerRun, AnswersAreTrue, CommitsAreReal, NoLoopRun, NoJob
  <2>3. FetchIsAccountedFor /\ DraftsAreAccountedFor /\ NoPageLost
    BY DEF Init, FetchIsAccountedFor, DraftsAreAccountedFor, NoPageLost, NoFetch, NoDrafts
  <2> QED
    BY <2>1, <2>2, <2>3 DEF DeliveryInv
<1>2. DeliveryInv /\ [Next]_vars => DeliveryInv'
  BY TypeSteps, RunsStayInStep, CommitsStayReal, DraftsStayAccountedFor, PagesStaySettled
     DEF DeliveryInv
<1> QED
  BY <1>1, <1>2, PTL DEF Spec

\* A page the phone has stopped sending is on the server, in a committed note, or
\* was given up with its phone: an upload run acts on answers, and no answer is
\* good before the page is in (sync.ts, server.ts POST /blobs, api.ts approve).
THEOREM NoPageIsLost == Spec => []NoPageLost
<1>1. DeliveryInv => NoPageLost
  BY DEF DeliveryInv
<1> QED
  BY <1>1, DeliveryInvariant, PTL

\* Every page of every draft on the list to review can be accounted for, however
\* stale the list has become (api.ts /api/refresh and approve).
THEOREM DraftsAlwaysAccountedFor == Spec => []DraftsAreAccountedFor
<1>1. DeliveryInv => DraftsAreAccountedFor
  BY DEF DeliveryInv
<1> QED
  BY <1>1, DeliveryInvariant, PTL
-----------------------------------------------------------------------------
(* What a step may never do *)

\* Pages leave the server's box only through an acknowledgement or a revocation.
LEMMA ReleaseSteps ==
  DeliveryInv /\ [Next]_vars =>
    \A p \in Held : box'[p] = Nothing => p \in Noted \/ box[p].from \notin registered'
<1> SUFFICES ASSUME DeliveryInv, [Next]_vars, NEW p \in Held, box'[p] = Nothing
             PROVE  p \in Noted \/ box[p].from \notin registered'
  OBVIOUS
<1>1. /\ box \in [Page -> Server!Sealed \cup {Nothing}] /\ p \in Page /\ box[p] # Nothing
      /\ wire \subseteq [page : Page, dev : Device, by : Loop \cup {NoLoop}]
  BY DEF DeliveryInv, TypeInv, TypeOK, Held, Server!Held
<1>2. ASSUME NEW j \in Job, AckArrives(j) PROVE p \in Noted
  <2>1. box' = [q \in Page |-> IF q \in AckedPages(j) \cap Held THEN Nothing ELSE box[q]]
    BY <1>2 DEF AckArrives, Server!Take, Server!Empty
  <2>2. AckedPages(j) \subseteq Noted
    BY <1>2 DEF AckArrives, AckedPages, DeliveryInv, CommitsAreReal
  <2> QED
    BY <1>1, <2>1, <2>2
<1>3. ASSUME NEW d \in Device, RevokeArrives(d) PROVE box[p].from \notin registered'
  <2>1. box' = [q \in Page |-> IF q \in {r \in Held : box[r].from = d} THEN Nothing ELSE box[q]]
    BY <1>3 DEF RevokeArrives, Server!DropDevice, Server!Empty, Held
  <2>2. registered' = registered \ {d}
    BY <1>3 DEF RevokeArrives
  <2> QED
    BY <1>1, <2>1, <2>2
<1>4. NetNext => box'[p] # Nothing
  <2> SUFFICES ASSUME NEW m \in wire, HandleUpload(m) PROVE box'[p] # Nothing
    BY <1>1 DEF NetNext, LoseRequest
  <2>1. UNCHANGED box \/ Server!Deposit(m.page, [account |-> Me, from |-> m.dev])
    BY DEF HandleUpload
  <2>2. ASSUME Server!Deposit(m.page, [account |-> Me, from |-> m.dev]) PROVE box'[p] = box[p]
    <3>1. /\ m.page \notin Held
          /\ box' = [box EXCEPT ![m.page] = [account |-> Me, from |-> m.dev]]
      BY <2>2 DEF Server!Deposit, Held
    <3> QED
      BY <1>1, <3>1
  <2> QED
    BY <1>1, <2>1, <2>2
<1>5. UNCHANGED vars => UNCHANGED box
  BY DEF vars, netVars
<1> QED
  BY <1>1, <1>2, <1>3, <1>4, <1>5, QuietSteps, QuietServiceSteps DEF Next

\* The server lets go of a page only when it is in a committed note or when its
\* phone is being revoked (api.ts approve, which acks after approveNote returned).
THEOREM ReleasedWhenCommitted == Spec => ReleasedOnlyWhenCommitted
  BY DeliveryInvariant, ReleaseSteps, PTL DEF Spec, ReleasedOnlyWhenCommitted

\* Approvals that run at once never write over each other: a path of the vault,
\* committed or not, names one note (vault.ts approveNote, whose look and writes
\* are one synchronous stretch).
THEOREM PathsNameOneNote == Spec => []OneNotePerPath
<1>1. Init => OneNotePerPath
  BY DEF Init, OneNotePerPath
<1>2. OneNotePerPath /\ [Next]_vars => OneNotePerPath'
  <2> SUFFICES ASSUME OneNotePerPath, [Next]_vars PROVE OneNotePerPath'
    OBVIOUS
  <2>1. loose' \cup notes' \subseteq loose \cup notes => OneNotePerPath'
    BY DEF OneNotePerPath
  <2>2. ASSUME NEW j \in Job, WriteFiles(j) PROVE OneNotePerPath'
    <3>1. UNCHANGED vaultVars \/ (loose' = loose \cup {NoteOf(j)} /\ notes' = notes /\ ~PathTaken(j))
      BY <2>2 DEF WriteFiles, vaultVars
    <3>2. ~PathTaken(j) => \A n \in loose \cup notes : n.title # NoteOf(j).title
      BY DEF PathTaken, Paths, NoteOf
    <3> QED
      BY <2>1, <3>1, <3>2 DEF OneNotePerPath, vaultVars
  <2>3. ASSUME NEW j \in Job, CommitNote(j) PROVE OneNotePerPath'
    BY <2>1, <2>3 DEF CommitNote, vaultVars
  <2>4. ASSUME ServiceNext, ~(\E j \in Job : WriteFiles(j) \/ CommitNote(j))
        PROVE  UNCHANGED <<loose, notes>>
    BY <2>4 DEF ServiceNext, OpenApproval, ApproveStep, CheckTree, AckArrives, AckAnswered,
         FailCommit, LoseAck, RevokeArrives, RevokeAnswered, LoseRevokeAnswer,
         CrashService, vaultVars
  <2>5. TidyVault => OneNotePerPath'
    BY <2>1 DEF TidyVault
  <2>6. UNCHANGED vars => UNCHANGED <<loose, notes>>
    BY DEF vars, vaultVars
  <2> QED
    BY <2>1, <2>2, <2>3, <2>4, <2>5, <2>6, QuietSteps DEF Next
<1> QED
  BY <1>1, <1>2, PTL DEF Spec
=============================================================================
