---------------------------- MODULE MCDelivery ----------------------------
(***************************************************************************)
(* Small instances of Delivery.  A run covers several scenarios, each of   *)
(* which leaves out a part of what the constants allow, so that the state  *)
(* spaces add up and do not multiply.                                      *)
(***************************************************************************)
EXTENDS Delivery, TLC

CONSTANT Scenarios

VARIABLE scenario

mcVars == <<vars, scenario>>

\* One lecture: every page belongs to the same capture session.
OneSession == [p \in Page |-> CHOOSE s \in Session : TRUE]

FirstPage == CHOOSE p \in Page : TRUE
FirstDevice == CHOOSE d \in Device : TRUE
FirstLoop == CHOOSE l \in Loop : TRUE

Photographed == {p \in Page : state[p] # "none"}
Uploading == {l \in Loop : loop[l] # NoLoopRun}
Approving == {j \in Job : job[j] # NoJob}

\* overlap: one page, with all that may happen at once, and one fault.
\* batch: all pages of a lecture, and of everything else one at a time.
\* rivals: all pages of a lecture, approvals that overlap, the rest one at a time, one fault.
\* owner: one page, and an owner who keeps at it.
\* lecture: all pages, and such an owner, who wastes no title; nothing fails.
\* alone: all pages, one phone, and nobody who has to do anything.
\* runs: upload runs that overlap, of all pages; refreshes only between them.
Fits ==
    CASE scenario = "overlap" -> Cardinality(Photographed) <= 1 /\ faults <= 1
      [] scenario = "batch" -> \A some \in {issued, Uploading, Approving} : Cardinality(some) <= 1
      [] scenario = "rivals" ->
            (\A some \in {issued, Uploading} : Cardinality(some) <= 1) /\ faults <= 1
      [] scenario = "owner" -> Photographed \subseteq {FirstPage} /\ Uploading \subseteq {FirstLoop}
      [] scenario = "lecture" ->
            issued \subseteq {FirstDevice} /\ Uploading \subseteq {FirstLoop} /\ faults = 0
      [] scenario = "alone" -> issued \subseteq {FirstDevice} /\ Uploading \subseteq {FirstLoop}
      [] scenario = "runs" ->
            issued \subseteq {FirstDevice} /\ Approving = {} /\ (fetch.on => \A l \in Loop : Idle(l))
      [] scenario = "all" -> TRUE

\* The owner of a lecture approves what is new, under a title that is free.
WastesNoTitle ==
    scenario = "lecture" =>
        \A j \in Job : job[j].step = "idle" /\ job'[j].step = "opened" =>
            job'[j].title \notin Paths /\ ~(job'[j].pages \subseteq Noted)

ScenarioInit == Init /\ scenario \in Scenarios

ScenarioNext == Next /\ scenario' = scenario /\ Fits' /\ WastesNoTitle

ScenarioSpec == ScenarioInit /\ [][ScenarioNext]_mcVars

Owned == scenario \in {"owner", "lecture"}

\* LiveSpec for the owner, and FairSpec when the code is alone.
ScenarioLiveSpec ==
    /\ ScenarioSpec
    /\ CodeFairness
    /\ WF_vars(Owned /\ \E d \in Device : Pair(d))
    /\ WF_vars(Owned /\ phone \notin registered /\ Unpair)
    /\ WF_vars(Owned /\ StartUpload(FirstLoop))
    /\ WF_vars(Owned /\ StartRefresh)
    /\ WF_vars(Owned /\ TidyVault)
    /\ SF_vars(Owned /\ \E j \in Job, s \in Session, t \in Title : ApproveNew(j, s, t))

\* An owner who keeps pairing, uploading, collecting and approving gets every page into a
\* committed note (App.tsx of the phone, api.ts:541, 653): EveryPageIsNoted of Delivery.
OwnerGetsEveryPage == Owned => EveryPageIsNoted

Symmetry ==
    Permutations(Page) \cup Permutations(Title) \cup Permutations(Device)
      \cup Permutations(Loop) \cup Permutations(Job)
=============================================================================
