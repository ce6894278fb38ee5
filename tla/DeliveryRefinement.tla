------------------------- MODULE DeliveryRefinement -------------------------
(***************************************************************************)
(* Theorem: the phone, the server and the desktop together keep the        *)
(* promise of Courier, for any number of pages, lectures, devices, upload  *)
(* runs, approvals and faults.                                             *)
(***************************************************************************)
EXTENDS DeliveryProofs

Captured == {p \in Page : state[p] # "none"}

\* Whatever the phone shows, sends or has sent is a page it has photographed.
OnlyCapturedTravels ==
    /\ shown \subseteq Captured
    /\ \A l \in Loop : loop[l].todo \subseteq Captured /\ (loop[l].now # NoPage => loop[l].now \in Captured)
    /\ \A m \in wire : m.page \in Captured

\* Whatever an approval works on, or has left in the tree, can be accounted for.
NotesAreAccountedFor ==
    /\ \A j \in Job : job[j].pages \subseteq Settled
    /\ \A n \in loose : n.pages \subseteq Settled

PromiseInv == DeliveryInv /\ OnlyCapturedTravels /\ NotesAreAccountedFor

\* The manifest never forgets a page.
LEMMA CapturedGrows == TypeInv /\ [Next]_vars => Captured \subseteq Captured'
<1> SUFFICES ASSUME TypeInv, [Next]_vars PROVE Captured \subseteq Captured'
  OBVIOUS
<1>1. state \in [Page -> {"none", "pending", "failed", "uploaded"}]
  BY DEF TypeInv, TypeOK
<1>2. ASSUME NEW p, NEW s \in {"pending", "failed", "uploaded"}, state' = [state EXCEPT ![p] = s]
      PROVE  Captured \subseteq Captured'
  BY <1>1, <1>2 DEF Captured
<1>3. UNCHANGED state => Captured \subseteq Captured'
  BY DEF Captured
<1>4. PhoneNext => Captured \subseteq Captured'
  <2>1. ASSUME NEW p \in Page, Shoot(p) PROVE Captured \subseteq Captured'
    BY <1>2, <2>1 DEF Shoot
  <2>2. ASSUME NEW l \in Loop, ReceiveReply(l) PROVE Captured \subseteq Captured'
    <3>1. Outcome(l) \in {"uploaded", "failed"}
      BY DEF Outcome
    <3>2. state' = [state EXCEPT ![loop[l].now] = Outcome(l)]
      BY <2>2 DEF ReceiveReply, Finish
    <3> QED
      BY <1>2, <3>1, <3>2
  <2>3. ASSUME NEW l \in Loop, LoseReply(l) PROVE Captured \subseteq Captured'
    BY <1>2, <2>3 DEF LoseReply, Finish
  <2>4. (\E d \in Device : Pair(d)) \/ Unpair \/ (\E l \in Loop : StartUpload(l))
          \/ (\E l \in Loop, p \in Page : SendPage(l, p)) \/ KillApp
        => UNCHANGED state
    BY DEF Pair, Unpair, StartUpload, SendPage, KillApp
  <2> QED
    BY <1>3, <2>1, <2>2, <2>3, <2>4 DEF PhoneNext
<1>5. NetNext => UNCHANGED state
  BY DEF NetNext, LoseRequest, HandleUpload, phoneVars
<1>6. UNCHANGED vars => UNCHANGED state
  BY DEF vars, phoneVars
<1> QED
  BY <1>3, <1>4, <1>5, <1>6, QuietSteps DEF Next

LEMMA TravelSteps == PromiseInv /\ [Next]_vars => OnlyCapturedTravels'
<1> SUFFICES ASSUME PromiseInv, [Next]_vars PROVE OnlyCapturedTravels'
  OBVIOUS
<1>1. /\ loop \in [Loop -> LoopState]
      /\ wire \subseteq [page : Page, dev : Device, by : Loop \cup {NoLoop}]
      /\ OnlyCapturedTravels
      /\ NoPage \notin Page
  BY TypeShape, DeliveryAssumption DEF PromiseInv, DeliveryInv, TypeInv
<1>2. Captured \subseteq Captured'
  BY CapturedGrows DEF PromiseInv, DeliveryInv
<1>3. Waiting(state) \subseteq Captured /\ Waiting(state)' \subseteq Captured'
  BY DEF Waiting, Captured
<1>4. UNCHANGED <<shown, loop, wire>> => OnlyCapturedTravels'
  BY <1>1, <1>2 DEF OnlyCapturedTravels
\* The three parts, each from what the step did to it.
<1>5. ASSUME shown' \subseteq Captured \cup Waiting(state)',
             \A l \in Loop : loop'[l].todo \subseteq Captured /\
                             (loop'[l].now # NoPage => loop'[l].now \in Captured),
             \A m \in wire' : m.page \in Captured
      PROVE  OnlyCapturedTravels'
  BY <1>2, <1>3, <1>5 DEF OnlyCapturedTravels
<1>6. \A L : \A m \in Abandon(L) : m.page \in Captured
  BY <1>1 DEF Abandon, OnlyCapturedTravels
<1>7. ASSUME NEW l \in Loop, NEW outcome, Finish(l, outcome)
      PROVE  /\ shown' \subseteq Captured \cup Waiting(state)'
             /\ \A k \in Loop : loop'[k].todo \subseteq Captured /\
                             (loop'[k].now # NoPage => loop'[k].now \in Captured)
  <2>1. loop' = [loop EXCEPT ![l] = [loop[l] EXCEPT !.now = NoPage, !.reply = "none"]]
    BY <1>7 DEF Finish
  <2>2. loop'[l].todo = loop[l].todo /\ loop'[l].now = NoPage
    BY <1>1, <2>1 DEF LoopState
  <2>3. \A k \in Loop \ {l} : loop'[k] = loop[k]
    BY <1>1, <2>1
  <2>4. shown' \subseteq Captured \cup Waiting(state)'
    <3>1. shown' = Waiting(state') \/ shown' = shown
      BY <1>7 DEF Finish
    <3>2. Waiting(state') = Waiting(state)'
      BY DEF Waiting
    <3> QED
      BY <1>1, <3>1, <3>2 DEF OnlyCapturedTravels
  <2> QED
    BY <1>1, <2>2, <2>3, <2>4 DEF OnlyCapturedTravels
<1>8. ASSUME NEW l \in Loop, ReceiveReply(l) PROVE OnlyCapturedTravels'
  <2>1. Finish(l, Outcome(l)) /\ wire' = wire
    BY <1>8 DEF ReceiveReply, netVars
  <2> QED
    BY <1>1, <1>5, <1>7, <2>1 DEF OnlyCapturedTravels
<1>9. ASSUME NEW l \in Loop, LoseReply(l) PROVE OnlyCapturedTravels'
  <2>1. Finish(l, "failed") /\ wire' = Abandon({l})
    BY <1>9 DEF LoseReply
  <2> QED
    BY <1>5, <1>6, <1>7, <2>1
<1>10. ASSUME (\E d \in Device : Pair(d)) \/ Unpair \/ (\E p \in Page : Shoot(p))
       PROVE OnlyCapturedTravels'
  <2>1. /\ shown' = shown \/ shown' = Waiting(state) \/ shown' = Waiting(state')
        /\ loop' = loop /\ wire' = wire
    BY <1>10 DEF Pair, Unpair, Shoot, netVars
  <2>2. Waiting(state') = Waiting(state)'
    BY DEF Waiting
  <2> QED
    BY <1>1, <1>3, <1>5, <2>1, <2>2 DEF OnlyCapturedTravels
<1>11. ASSUME NEW l \in Loop, StartUpload(l) PROVE OnlyCapturedTravels'
  <2>1. /\ shown' = shown /\ wire' = wire
        /\ loop' = [loop EXCEPT ![l] = [todo |-> shown, now |-> NoPage, reply |-> "none",
                                        dev |-> phone]]
    BY <1>11 DEF StartUpload, netVars
  <2>2. \A k \in Loop \ {l} : loop'[k] = loop[k]
    BY <1>1, <2>1
  <2>3. loop'[l].todo = shown /\ loop'[l].now = NoPage
    BY <1>1, <2>1
  <2> QED
    BY <1>1, <1>5, <2>1, <2>2, <2>3 DEF OnlyCapturedTravels
<1>12. ASSUME NEW l \in Loop, NEW p \in Page, SendPage(l, p) PROVE OnlyCapturedTravels'
  <2>1. /\ shown' = shown /\ p \in loop[l].todo
        /\ wire' = wire \cup {[page |-> p, dev |-> loop[l].dev, by |-> l]}
        /\ loop' = [loop EXCEPT ![l].todo = @ \ {p}, ![l].now = p]
    BY <1>12 DEF SendPage
  <2>2. \A k \in Loop \ {l} : loop'[k] = loop[k]
    BY <1>1, <2>1
  <2>3. loop'[l].todo = loop[l].todo \ {p} /\ loop'[l].now = p
    BY <1>1, <2>1 DEF LoopState
  <2>4. p \in Captured
    BY <1>1, <2>1 DEF OnlyCapturedTravels
  <2> QED
    BY <1>1, <1>5, <2>1, <2>2, <2>3, <2>4 DEF OnlyCapturedTravels
<1>13. CASE KillApp
  <2>1. shown' = Waiting(state) /\ loop' = [l \in Loop |-> NoLoopRun] /\ wire' = Abandon(Loop)
    BY <1>13 DEF KillApp
  <2> QED
    BY <1>3, <1>5, <1>6, <2>1 DEF NoLoopRun
<1>14. ASSUME NEW m \in wire, LoseRequest(m) \/ HandleUpload(m) PROVE OnlyCapturedTravels'
  <2>1. shown' = shown /\ wire' \subseteq wire
    BY <1>14 DEF LoseRequest, HandleUpload, phoneVars
  <2>2. \A l \in Loop : loop'[l].todo = loop[l].todo /\ loop'[l].now = loop[l].now
    <3>1. CASE loop' = loop
      BY <3>1
    <3>2. ASSUME NEW answer, m.by \in Loop, loop' = [loop EXCEPT ![m.by].reply = answer]
          PROVE  \A l \in Loop : loop'[l].todo = loop[l].todo /\ loop'[l].now = loop[l].now
      BY <1>1, <3>2 DEF LoopState
    <3> QED
      BY <1>1, <1>14, <3>1, <3>2 DEF LoseRequest, HandleUpload, Reply, phoneVars
  <2> QED
    BY <1>1, <1>5, <2>1, <2>2 DEF OnlyCapturedTravels
<1>15. UNCHANGED vars => UNCHANGED <<shown, loop, wire>>
  BY DEF vars, phoneVars, netVars
<1>16. RefreshNext \/ ServiceNext \/ TidyVault => UNCHANGED <<shown, loop, wire>>
  BY QuietSteps
     DEF RefreshNext, StartRefresh, FetchPage, FetchGone, FailRefresh, FinishRefresh,
         ServiceNext, OpenApproval, ApproveStep, CheckTree, WriteFiles, CommitNote, AckArrives,
         AckAnswered, FailCommit, LoseAck, RevokeArrives, RevokeAnswered, LoseRevokeAnswer,
         CrashService,
         TidyVault, phoneVars
<1> QED
  <2>1. PhoneNext => OnlyCapturedTravels'
    BY <1>8, <1>9, <1>10, <1>11, <1>12, <1>13 DEF PhoneNext
  <2>2. NetNext => OnlyCapturedTravels'
    BY <1>14 DEF NetNext
  <2> QED
    BY <1>4, <1>15, <1>16, <2>1, <2>2 DEF Next

LEMMA NoteSteps == PromiseInv /\ [Next]_vars => NotesAreAccountedFor'
<1> SUFFICES ASSUME PromiseInv, [Next]_vars PROVE NotesAreAccountedFor'
  OBVIOUS
<1>1. /\ job \in [Job -> JobState] /\ NoJob.pages = {}
      /\ drafts \in [Session -> SUBSET Page] /\ DraftsAreAccountedFor
      /\ NotesAreAccountedFor
  BY TypeShape DEF PromiseInv, DeliveryInv, TypeInv, NoJob
<1>2. Settled \subseteq Settled'
  BY SettledGrows DEF PromiseInv, DeliveryInv
<1>3. ASSUME NEW j \in Job, \A k \in Job \ {j} : job'[k] = job[k], job'[j].pages \subseteq Settled,
             loose' \subseteq loose \cup {NoteOf(j)}
      PROVE  NotesAreAccountedFor'
  BY <1>1, <1>2, <1>3 DEF NotesAreAccountedFor, NoteOf
<1>4. ASSUME job' = job, loose' \subseteq loose PROVE NotesAreAccountedFor'
  BY <1>1, <1>2, <1>4 DEF NotesAreAccountedFor
<1>5. ASSUME NEW j \in Job, EndJob(j)
      PROVE  /\ \A k \in Job \ {j} : job'[k] = job[k]
             /\ job'[j].pages \subseteq Settled
  BY <1>1, <1>5 DEF EndJob
<1>6. ASSUME NEW j \in Job, NEW step, Step(j, step)
      PROVE  /\ \A k \in Job \ {j} : job'[k] = job[k]
             /\ job'[j].pages \subseteq Settled
  <2>1. job' = [job EXCEPT ![j] = [job[j] EXCEPT !.step = step]]
    BY <1>6 DEF Step
  <2>2. job'[j] = [job[j] EXCEPT !.step = step] /\ \A k \in Job \ {j} : job'[k] = job[k]
    BY <1>1, <2>1
  <2>3. job'[j].pages = job[j].pages
    BY <1>1, <2>2 DEF JobState, NoJob
  <2> QED
    BY <1>1, <2>2, <2>3 DEF NotesAreAccountedFor
<1>7. ASSUME NEW j \in Job, NEW s \in Session, NEW t \in Title, OpenApproval(j, s, t)
      PROVE  NotesAreAccountedFor'
  <2>1. /\ job' = [job EXCEPT ![j] = [step |-> "opened", sess |-> s, pages |-> drafts[s],
                                      title |-> t]]
        /\ loose' = loose
    BY <1>7 DEF OpenApproval, vaultVars
  <2>2. job'[j].pages = drafts[s] /\ \A k \in Job \ {j} : job'[k] = job[k]
    BY <1>1, <2>1
  <2> QED
    BY <1>1, <1>3, <2>1, <2>2 DEF DraftsAreAccountedFor
<1>8. ASSUME NEW j \in Job,
             ApproveStep(j) \/ FailCommit(j) \/ LoseAck(j)
      PROVE  NotesAreAccountedFor'
  <2>1. EndJob(j) \/ \E step : Step(j, step)
    BY <1>8 DEF ApproveStep, CheckTree, WriteFiles, CommitNote, AckArrives, AckAnswered,
                FailCommit, LoseAck
  <2>2. loose' \subseteq loose \cup {NoteOf(j)}
    BY <1>8 DEF ApproveStep, CheckTree, WriteFiles, CommitNote, AckArrives, AckAnswered,
                FailCommit, LoseAck, vaultVars
  <2> QED
    BY <1>3, <1>5, <1>6, <2>1, <2>2
<1>9. CASE CrashService
  <2>1. job' = [j \in Job |-> NoJob] /\ loose' = loose
    BY <1>9 DEF CrashService, vaultVars
  <2> QED
    BY <1>1, <1>2, <2>1 DEF NotesAreAccountedFor
<1>10. CASE (\E d \in Device : RevokeArrives(d)) \/ RevokeAnswered \/ LoseRevokeAnswer
  BY <1>4, <1>10 DEF RevokeArrives, RevokeAnswered, LoseRevokeAnswer, vaultVars
<1>11. CASE TidyVault
  BY <1>4, <1>11, QuietSteps DEF TidyVault
<1>12. UNCHANGED vars => UNCHANGED <<job, loose>>
  BY DEF vars, serviceVars, vaultVars
<1> QED
  <2>1. ServiceNext => NotesAreAccountedFor'
    BY <1>7, <1>8, <1>9, <1>10 DEF ServiceNext
  <2> QED
    BY <1>4, <1>11, <1>12, <2>1, QuietSteps DEF Next
-----------------------------------------------------------------------------
(* The steps of Delivery as steps of Courier *)

Still == UNCHANGED <<Captured, Waiting(state), Held, Noted, discarded>>

LEMMA StillIsStutter == Still => UNCHANGED Promise!vars
BY DEF Still, Promise!vars, Captured

LEMMA PromiseInit == Init => Promise!Init
<1> SUFFICES ASSUME Init PROVE Promise!Init
  OBVIOUS
<1>1. Held = {} /\ Noted = {} /\ Waiting(state) = {}
  BY DEF Init, Held, Server!Held, Noted, Waiting
<1> QED
  BY <1>1 DEF Init, Promise!Init

\* What the phone does: photograph, settle, mean to send again.
LEMMA PhonePromise == PromiseInv /\ PhoneNext => Promise!Next \/ Still
<1> SUFFICES ASSUME PromiseInv, PhoneNext PROVE Promise!Next \/ Still
  OBVIOUS
<1>1. /\ state \in [Page -> {"none", "pending", "failed", "uploaded"}]
      /\ AnswersAreTrue /\ OnlyCapturedTravels
  BY DEF PromiseInv, DeliveryInv, TypeInv, TypeOK
<1>2. UNCHANGED <<box, discarded, notes>>
  BY QuietSteps
<1>3. UNCHANGED <<Held, Noted, discarded>>
  BY <1>2 DEF Held, Server!Held, Noted
<1>4. UNCHANGED state => Still
  BY <1>3 DEF Still, Captured, Waiting
<1>5. ASSUME NEW p \in Page, Shoot(p) PROVE Promise!Next
  <2>1. Captured' = Captured \cup {p} /\ Waiting(state)' = Waiting(state) \cup {p} /\ p \notin Captured
    BY <1>1, <1>5 DEF Shoot, Captured, Waiting
  <2>2. Promise!Capture(p)
    BY <1>3, <2>1 DEF Promise!Capture, Captured
  <2> QED
    BY <2>2 DEF Promise!Next
<1>6. ASSUME NEW p \in Captured, state' = [state EXCEPT ![p] = "failed"] PROVE Promise!Next
  <2>1. Captured' = Captured /\ Waiting(state)' = Waiting(state) \cup {p} /\ p \in Page
    BY <1>1, <1>6 DEF Captured, Waiting
  <2>2. Promise!Recall(p)
    BY <1>3, <1>6, <2>1 DEF Promise!Recall, Captured
  <2> QED
    BY <2>1, <2>2 DEF Promise!Next
<1>7. ASSUME NEW p \in Captured, p \in Settled, state' = [state EXCEPT ![p] = "uploaded"]
      PROVE  Promise!Next \/ Still
  <2>1. Captured' = Captured /\ Waiting(state)' = Waiting(state) \ {p} /\ p \in Page
    BY <1>1, <1>7 DEF Captured, Waiting
  <2>2. CASE p \in Waiting(state)
    <3>1. Promise!Settle(p)
      BY <1>3, <1>7, <2>1, <2>2 DEF Promise!Settle, Promise!Delivered, Settled, Captured
    <3> QED
      BY <2>1, <3>1 DEF Promise!Next
  <2>3. CASE p \notin Waiting(state)
    BY <1>3, <2>1, <2>3 DEF Still
  <2> QED
    BY <2>2, <2>3
<1>8. ASSUME NEW l \in Loop, ReceiveReply(l) PROVE Promise!Next \/ Still
  <2>1. /\ state' = [state EXCEPT ![loop[l].now] = Outcome(l)]
        /\ loop[l].now \in Captured
    BY <1>1, <1>8 DEF ReceiveReply, Finish, OnlyCapturedTravels
  <2>2. CASE loop[l].reply = "ok"
    BY <1>1, <1>7, <2>1, <2>2 DEF Outcome, AnswersAreTrue
  <2>3. CASE loop[l].reply # "ok"
    BY <1>6, <2>1, <2>3 DEF Outcome
  <2> QED
    BY <2>2, <2>3
<1>9. ASSUME NEW l \in Loop, LoseReply(l) PROVE Promise!Next
  BY <1>1, <1>6, <1>9 DEF LoseReply, Finish, OnlyCapturedTravels
<1>10. ASSUME (\E d \in Device : Pair(d)) \/ Unpair \/ (\E l \in Loop : StartUpload(l))
          \/ (\E l \in Loop, p \in Page : SendPage(l, p)) \/ KillApp
       PROVE  UNCHANGED state
  BY <1>10 DEF Pair, Unpair, StartUpload, SendPage, KillApp
<1> QED
  BY <1>4, <1>5, <1>8, <1>9, <1>10 DEF PhoneNext

\* What the server does with a request: deposit a page, or answer only.
LEMMA NetPromise == PromiseInv /\ NetNext => Promise!Next \/ Still
<1> SUFFICES ASSUME PromiseInv, NetNext PROVE Promise!Next \/ Still
  OBVIOUS
<1>1. PICK m \in wire : LoseRequest(m) \/ HandleUpload(m)
  BY DEF NetNext
<1>2. /\ m.page \in Captured /\ m.dev \in Device /\ m.page \in Page
      /\ box \in [Page -> Server!Sealed \cup {Nothing}]
  BY DEF PromiseInv, OnlyCapturedTravels, DeliveryInv, TypeInv, TypeOK
<1>3. UNCHANGED <<state, notes, discarded>>
  BY <1>1, QuietSteps DEF LoseRequest, HandleUpload, phoneVars
<1>4. UNCHANGED <<Captured, Waiting(state), Noted, discarded>>
  BY <1>3 DEF Captured, Waiting, Noted
<1>5. UNCHANGED box => Still
  BY <1>4 DEF Still, Held, Server!Held
<1>6. CASE Server!Deposit(m.page, [account |-> Me, from |-> m.dev])
  <2>1. /\ m.page \notin Held
        /\ box' = [box EXCEPT ![m.page] = [account |-> Me, from |-> m.dev]]
    BY <1>6 DEF Server!Deposit, Held
  <2>2. [account |-> Me, from |-> m.dev] # Nothing
    BY <1>2, DeliveryAssumption DEF Me
  <2>3. Held' = Held \cup {m.page}
    BY <1>2, <2>1, <2>2 DEF Held, Server!Held
  <2>4. Promise!Deposit(m.page)
    BY <1>2, <1>4, <2>1, <2>3 DEF Promise!Deposit, Captured
  <2> QED
    BY <1>2, <2>4 DEF Promise!Next
<1> QED
  BY <1>1, <1>5, <1>6 DEF LoseRequest, HandleUpload

\* What the desktop and the owner do: notes, acknowledgements, revocations.
LEMMA ServicePromise == PromiseInv /\ (ServiceNext \/ TidyVault) => Promise!Next \/ Still
<1> SUFFICES ASSUME PromiseInv, ServiceNext \/ TidyVault PROVE Promise!Next \/ Still
  OBVIOUS
<1>1. /\ box \in [Page -> Server!Sealed \cup {Nothing}] /\ Held \subseteq Page
      /\ NotesAreAccountedFor /\ CommitsAreReal
      /\ loose \subseteq NoteFile /\ job \in [Job -> JobState]
  BY TypeShape DEF PromiseInv, DeliveryInv, TypeInv, TypeOK, Held, Server!Held
<1>2. UNCHANGED <<Captured, Waiting(state)>>
  BY QuietSteps DEF Captured, Waiting
<1>3. UNCHANGED <<box, discarded>> => UNCHANGED <<Held, discarded>>
  BY DEF Held, Server!Held
<1>4. UNCHANGED notes => UNCHANGED Noted
  BY DEF Noted
<1>5. ASSUME NEW S \in SUBSET Page, S \subseteq Settled, Noted' = Noted \cup S,
             UNCHANGED <<box, discarded>>
      PROVE  Promise!Next
  <2>1. Promise!Note(S)
    BY <1>2, <1>3, <1>5 DEF Promise!Note, Promise!Delivered, Settled, Captured
  <2> QED
    BY <2>1 DEF Promise!Next
<1>6. ASSUME NEW j \in Job, CommitNote(j) PROVE Promise!Next \/ Still
  <2>1. UNCHANGED <<box, discarded>>
    BY <1>6 DEF CommitNote, netVars
  <2>2. CASE UNCHANGED vaultVars
    BY <1>2, <1>3, <1>4, <2>1, <2>2 DEF Still, vaultVars
  <2>3. CASE notes' = notes \cup {NoteOf(j)}
    <3>1. Noted' = Noted \cup job[j].pages
      <4> DEFINE n == NoteOf(j)
      <4>1. n.pages = job[j].pages
        BY DEF NoteOf
      <4> HIDE DEF n
      <4>2. Noted' = Noted \cup n.pages
        BY <2>3 DEF Noted, n
      <4> QED
        BY <4>1, <4>2
    <3>2. job[j].pages \subseteq Settled /\ job[j].pages \in SUBSET Page
      BY <1>1 DEF NotesAreAccountedFor, JobState, NoJob
    <3> QED
      BY <1>5, <2>1, <3>1, <3>2
  <2> QED
    BY <1>6, <2>2, <2>3 DEF CommitNote
<1>7. CASE TidyVault
  <2>1. UNCHANGED <<box, discarded>>
    BY <1>7, QuietSteps
  <2>2. CASE notes' = notes
    BY <1>2, <1>3, <1>4, <2>1, <2>2 DEF Still
  <2>3. CASE notes' = notes \cup loose
    <3> DEFINE S == UNION {n.pages : n \in loose}
    <3>1. Noted' = Noted \cup S
      BY <2>3 DEF Noted
    <3>2. S \subseteq Settled /\ S \in SUBSET Page
      BY <1>1 DEF NotesAreAccountedFor, NoteFile
    <3> HIDE DEF S
    <3> QED
      BY <1>5, <2>1, <3>1, <3>2
  <2> QED
    BY <1>7, <2>2, <2>3 DEF TidyVault
<1>8. ASSUME NEW j \in Job, AckArrives(j) PROVE Promise!Next
  <2> DEFINE S == AckedPages(j) \cap Held
  <2>1. box' = [p \in Page |-> IF p \in S THEN Nothing ELSE box[p]]
    BY <1>8 DEF AckArrives, Server!Take, Server!Empty
  <2>2. S \subseteq Held \cap Noted
    BY <1>1, <1>8 DEF AckArrives, AckedPages, CommitsAreReal
  <2>3. UNCHANGED <<Noted, discarded>>
    BY <1>4, <1>8 DEF AckArrives, vaultVars
  <2> HIDE DEF S
  <2>4. Held' = Held \ S
    BY <1>1, <2>1 DEF Held, Server!Held
  <2>5. Promise!Release(S)
    BY <1>2, <2>2, <2>3, <2>4 DEF Promise!Release, Captured
  <2> QED
    BY <1>1, <2>2, <2>5 DEF Promise!Next
<1>9. ASSUME NEW d \in Device, RevokeArrives(d) PROVE Promise!Next
  <2> DEFINE S == {p \in Held : box[p].from = d}
  <2>1. box' = [p \in Page |-> IF p \in S THEN Nothing ELSE box[p]]
    BY <1>9 DEF RevokeArrives, Server!DropDevice, Server!Empty, Held
  <2>2. S \subseteq Held /\ discarded' = discarded \cup S
    BY <1>9 DEF RevokeArrives
  <2>3. UNCHANGED Noted
    BY <1>4, <1>9 DEF RevokeArrives, vaultVars
  <2> HIDE DEF S
  <2>4. Held' = Held \ S
    BY <1>1, <2>1 DEF Held, Server!Held
  <2>5. Promise!Drop(S)
    BY <1>2, <2>2, <2>3, <2>4 DEF Promise!Drop, Captured
  <2> QED
    BY <1>1, <2>2, <2>5 DEF Promise!Next
<1> QED
  BY <1>2, <1>3, <1>4, <1>6, <1>7, <1>8, <1>9, QuietServiceSteps DEF Still

LEMMA PromiseInvariant == Spec => []PromiseInv
<1>1. Init => OnlyCapturedTravels /\ NotesAreAccountedFor
  BY DEF Init, OnlyCapturedTravels, NotesAreAccountedFor, NoLoopRun, NoJob
<1>2. DeliveryInv /\ OnlyCapturedTravels /\ NotesAreAccountedFor /\ [Next]_vars
        => OnlyCapturedTravels' /\ NotesAreAccountedFor'
  BY TravelSteps, NoteSteps DEF PromiseInv
<1>3. DeliveryInv /\ OnlyCapturedTravels /\ NotesAreAccountedFor <=> PromiseInv
  BY DEF PromiseInv
<1> QED
  BY <1>1, <1>2, <1>3, DeliveryInvariant, PTL DEF Spec

\* Every step of the phone, the network, the server, the desktop service, the
\* vault and of what goes wrong between them is a step of Courier or leaves its
\* pages alone: the whole of inkpipe keeps the courier's promise.
THEOREM DeliveryImplementsCourier == Spec => ImplementsCourier
<1>1. PromiseInv /\ [Next]_vars => [Promise!Next]_(Promise!vars)
  <2> SUFFICES ASSUME PromiseInv, [Next]_vars PROVE Promise!Next \/ Still
    BY StillIsStutter
  <2>1. RefreshNext => Still
    BY QuietSteps DEF Still, Captured, Waiting, Held, Server!Held, Noted
  <2>2. UNCHANGED vars => Still
    BY DEF vars, phoneVars, netVars, vaultVars, Still, Captured, Waiting, Held, Server!Held, Noted
  <2> QED
    BY <2>1, <2>2, PhonePromise, NetPromise, ServicePromise DEF Next
<1> QED
  BY <1>1, PromiseInit, PromiseInvariant, PTL DEF Spec, ImplementsCourier, Promise!Spec

\* In the courier's words: every page ever photographed is still to be sent, or
\* was delivered (apps/phone/src/store.ts keeps it until sync.ts says uploaded).
COROLLARY NothingIsLost == Spec => []Promise!NothingLost
<1>1. PromiseInv => Promise!NothingLost
  BY DEF PromiseInv, DeliveryInv, TypeInv, TypeOK, NoPageLost, Settled, Waiting,
         Promise!NothingLost, Promise!Delivered
<1> QED
  BY <1>1, PromiseInvariant, PTL
=============================================================================
