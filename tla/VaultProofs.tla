----------------------------- MODULE VaultProofs -----------------------------
(***************************************************************************)
(* What holds of the vault for all notes, files, pushes and crashes: no    *)
(* commit is dropped from either branch, an acknowledged note is in the    *)
(* history, and a push that says it succeeded is on the remote.            *)
(*                                                                         *)
(* All rests on one fact about every step: both histories only grow.  The  *)
(* invariant adds when an approval is past its commit, and that a push     *)
(* owes only what the branch has.                                          *)
(***************************************************************************)
EXTENDS Vault, TLAPS

\* From its commit on, a note is in the history of the vault.
CommittedNotesAreInHistory ==
    \A n \in Note : approval[n] \in {"committed", "acked"} => n \in Paths(branch)

\* A push is about commits the vault has.
OwedIsCommitted == \A j \in Job : owed[j] \subseteq branch

VaultInv ==
    /\ VaultTypeOK
    /\ CommittedNotesAreInHistory
    /\ OwedIsCommitted
    /\ PushedIsThere

Histories == branch \subseteq branch' /\ remote \subseteq remote'

\* A step of the vault is one of these.
Approving(n) ==
    CheckTree(n) \/ WriteFiles(n) \/ StageFiles(n) \/ CommitNote(n) \/ AckNote(n) \/ AckFails(n)

Pushing(j) ==
    \/ StartPush(j) \/ PushAccepted(j) \/ PushFails(j) \/ PushRejected(j)
    \/ PullRebases(j) \/ PullConflicts(j) \/ PullFails(j) \/ AbortRebase(j)

Others ==
    \/ \E f \in File : EditFile(f)
    \/ UserCommits \/ UserRebases \/ UserContinues \/ KillVault
    \/ \E p \in Path : PushElsewhere(p)

LEMMA StepsOfVault ==
    ASSUME VaultNext
    PROVE  (\E n \in Note : Approving(n)) \/ (\E j \in Job : Pushing(j)) \/ Others
BY DEF VaultNext, Approving, Pushing, Others

\* Paths grow with the history they are of.
LEMMA PathsGrow ==
    ASSUME NEW h1, NEW h2, h1 \subseteq h2
    PROVE  Paths(h1) \subseteq Paths(h2)
BY DEF Paths

LEMMA HistoriesGrow == VaultNext => Histories
<1> SUFFICES ASSUME VaultNext PROVE Histories
  OBVIOUS
<1>1. ASSUME NEW n \in Note, Approving(n) PROVE Histories
  BY <1>1 DEF Approving, CheckTree, WriteFiles, StageFiles, CommitNote, AckNote, AckFails,
              Committed, Histories
<1>2. ASSUME NEW j \in Job, Pushing(j) PROVE Histories
  BY <1>2 DEF Pushing, StartPush, PushAccepted, PushFails, PushRejected, PullRebases,
              PullConflicts, PullFails, AbortRebase, FastForward, Replay, Histories
<1>3. CASE Others
  BY <1>3 DEF Others, EditFile, UserCommits, UserRebases, UserContinues, KillVault,
              PushElsewhere, Histories, tree
<1> QED
  BY <1>1, <1>2, <1>3, StepsOfVault

LEMMA VaultStarts == VaultInit => VaultInv
BY DEF VaultInit, VaultInv, VaultTypeOK, CommittedNotesAreInHistory, OwedIsCommitted, PushedIsThere

LEMMA VaultTypeSteps == VaultTypeOK /\ VaultNext => VaultTypeOK'
<1> SUFFICES ASSUME VaultTypeOK, VaultNext PROVE VaultTypeOK'
  OBVIOUS
<1> USE DEF VaultTypeOK
<1>1. ASSUME NEW n \in Note, Approving(n) PROVE VaultTypeOK'
  <2>1. n \in Path /\ By("inkpipe", {n}) \subseteq Commit
    BY DEF Path, By, Commit
  <2>2. CASE CheckTree(n) \/ WriteFiles(n) \/ StageFiles(n)
    BY <2>2 DEF CheckTree, WriteFiles, StageFiles, Reaches, tree, pushes
  <2>3. CASE CommitNote(n)
    BY <2>1, <2>3 DEF CommitNote, Committed, Reaches, tree, pushes
  <2>4. CASE AckNote(n) \/ AckFails(n)
    BY <2>4 DEF AckNote, AckFails, Reaches, tree, pushes
  <2> QED
    BY <1>1, <2>2, <2>3, <2>4 DEF Approving
<1>2. ASSUME NEW j \in Job, Pushing(j) PROVE VaultTypeOK'
  <2>1. CASE StartPush(j)
    BY <2>1 DEF StartPush, Moves, tree
  <2>2. CASE PushAccepted(j) \/ PushFails(j)
    BY <2>2 DEF PushAccepted, PushFails, FastForward, Ends, tree
  <2>3. CASE PushRejected(j) \/ PullRebases(j) \/ PullConflicts(j) \/ PullFails(j)
    BY <2>3 DEF PushRejected, PullRebases, PullConflicts, PullFails, Replay, Moves, tree
  <2>4. CASE AbortRebase(j)
    BY <2>4 DEF AbortRebase, Ends
  <2> QED
    BY <1>2, <2>1, <2>2, <2>3, <2>4 DEF Pushing
<1>3. CASE Others
  <2>1. ASSUME NEW p \in Path, NEW who \in {"user", "elsewhere"} PROVE By(who, {p}) \subseteq Commit
    BY DEF By, Commit
  <2>2. ASSUME NEW f \in File, EditFile(f) PROVE VaultTypeOK'
    BY <2>2 DEF EditFile, pushes
  <2>3. CASE UserCommits
    <3>1. edits \cup Staged \cup Untracked \subseteq Path
      BY DEF Staged, Untracked, Path
    <3>2. By("user", edits \cup Staged \cup Untracked) \subseteq Commit
      BY <3>1 DEF By, Commit
    <3> QED
      BY <2>3, <3>2 DEF UserCommits, pushes
  <2>4. CASE UserRebases
    BY <2>4 DEF UserRebases, pushes
  <2>7. CASE UserContinues
    <3>1. edits \cup Staged \subseteq Path
      BY DEF Staged, Path
    <3>2. By("user", edits \cup Staged) \subseteq Commit
      BY <3>1 DEF By, Commit
    <3> QED
      BY <2>7, <3>2 DEF UserContinues, pushes
  <2>5. CASE KillVault
    BY <2>5 DEF KillVault, tree
  <2>6. ASSUME NEW p \in Path, PushElsewhere(p) PROVE VaultTypeOK'
    BY <2>1, <2>6 DEF PushElsewhere, tree, pushes
  <2> QED
    BY <1>3, <2>2, <2>3, <2>4, <2>5, <2>6, <2>7 DEF Others
<1> QED
  BY <1>1, <1>2, <1>3, StepsOfVault

-----------------------------------------------------------------------------
(* Notes in the history *)

\* Only a commit of its own brings an approval past it.
LEMMA CommittedSteps == VaultInv /\ VaultNext => CommittedNotesAreInHistory'
<1> SUFFICES ASSUME VaultInv, VaultNext, NEW m \in Note, approval'[m] \in {"committed", "acked"}
             PROVE  m \in Paths(branch')
  BY DEF CommittedNotesAreInHistory
<1> USE DEF VaultInv, VaultTypeOK
<1>1. ASSUME approval[m] \in {"committed", "acked"} PROVE m \in Paths(branch')
  <2>1. m \in Paths(branch)
    BY <1>1 DEF CommittedNotesAreInHistory
  <2>2. branch \subseteq branch'
    BY HistoriesGrow DEF Histories
  <2> QED
    BY <2>1, <2>2, PathsGrow
<1>2. ASSUME NEW n \in Note, Approving(n) PROVE m \in Paths(branch')
  <2>1. CASE CommitNote(n) /\ m = n
    <3>1. branch' = Committed(n) \/ approval'[n] = "draft"
      BY <2>1 DEF CommitNote, Reaches
    <3>2. [by |-> "inkpipe", path |-> n] \in Committed(n)
      BY DEF Committed, By
    <3> QED
      BY <2>1, <3>1, <3>2 DEF Paths
  <2>2. CASE ~(CommitNote(n) /\ m = n)
    <3>1. approval[m] \in {"committed", "acked"}
      BY <1>2, <2>2 DEF Approving, CheckTree, WriteFiles, StageFiles, CommitNote, AckNote,
                        AckFails, Reaches
    <3> QED
      BY <3>1, <1>1
  <2> QED
    BY <2>1, <2>2
<1>3. ASSUME NEW j \in Job, Pushing(j) PROVE m \in Paths(branch')
  <2>1. approval' = approval
    BY <1>3 DEF Pushing, StartPush, PushAccepted, PushFails, PushRejected, PullRebases,
                PullConflicts, PullFails, AbortRebase
  <2> QED
    BY <2>1, <1>1
<1>4. CASE Others
  <2>1. approval'[m] = approval[m]
    BY <1>4 DEF Others, EditFile, UserCommits, UserRebases, UserContinues, KillVault, PushElsewhere
  <2> QED
    BY <2>1, <1>1
<1> QED
  BY <1>2, <1>3, <1>4, StepsOfVault
-----------------------------------------------------------------------------
(* Pushes *)

\* What a push owes is the branch as it began, or nothing.
LEMMA OwedSteps == VaultInv /\ VaultNext => OwedIsCommitted'
<1> SUFFICES ASSUME VaultInv, VaultNext, NEW k \in Job PROVE owed'[k] \subseteq branch'
  BY DEF OwedIsCommitted
<1> USE DEF VaultInv, VaultTypeOK
<1>1. branch \subseteq branch'
  BY HistoriesGrow DEF Histories
<1>2. owed[k] \subseteq branch
  BY DEF OwedIsCommitted
<1>3. owed'[k] \in {owed[k], branch, {}}
  <2>1. ASSUME NEW n \in Note, Approving(n) PROVE owed' = owed
    BY <2>1 DEF Approving, CheckTree, WriteFiles, StageFiles, CommitNote, AckNote, AckFails, pushes
  <2>2. ASSUME NEW j \in Job, Pushing(j) PROVE owed'[k] \in {owed[k], branch, {}}
    BY <2>2 DEF Pushing, StartPush, PushAccepted, PushFails, PushRejected, PullRebases,
                PullConflicts, PullFails, AbortRebase, Ends
  <2>3. CASE Others
    BY <2>3 DEF Others, EditFile, UserCommits, UserRebases, UserContinues, KillVault,
                PushElsewhere, pushes
  <2> QED
    BY <2>1, <2>2, <2>3, StepsOfVault
<1> QED
  BY <1>1, <1>2, <1>3

\* The remote takes a push only when it becomes the branch, and what it owes is there.
LEMMA PushedSteps == VaultInv /\ VaultNext => PushedIsThere'
<1> SUFFICES ASSUME VaultInv, VaultNext, NEW k \in Job, result'[k] = "pushed"
             PROVE  owed'[k] \subseteq remote'
  BY DEF PushedIsThere
<1> USE DEF VaultInv, VaultTypeOK
<1>1. remote \subseteq remote'
  BY HistoriesGrow DEF Histories
<1>2. ASSUME result[k] = "pushed", owed'[k] = owed[k] PROVE owed'[k] \subseteq remote'
  BY <1>1, <1>2 DEF PushedIsThere
<1>3. ASSUME NEW n \in Note, Approving(n) PROVE owed'[k] \subseteq remote'
  <2>1. result' = result /\ owed' = owed
    BY <1>3 DEF Approving, CheckTree, WriteFiles, StageFiles, CommitNote, AckNote, AckFails, pushes
  <2> QED
    BY <2>1, <1>2
<1>4. ASSUME NEW j \in Job, Pushing(j) PROVE owed'[k] \subseteq remote'
  <2>1. CASE PushAccepted(j) /\ k = j
    <3>1. owed'[k] = owed[k] /\ remote' = branch
      BY <2>1 DEF PushAccepted, FastForward, Ends
    <3> QED
      BY <3>1 DEF OwedIsCommitted
  <2>2. CASE ~(PushAccepted(j) /\ k = j)
    <3>1. result[k] = "pushed" /\ owed'[k] = owed[k]
      BY <1>4, <2>2 DEF Pushing, StartPush, PushAccepted, PushFails, PushRejected, PullRebases,
                        PullConflicts, PullFails, AbortRebase, Ends, Moves
    <3> QED
      BY <3>1, <1>2
  <2> QED
    BY <2>1, <2>2
<1>5. CASE Others
  <2>1. result' = result /\ owed' = owed
    BY <1>5 DEF Others, EditFile, UserCommits, UserRebases, UserContinues, KillVault,
                PushElsewhere, pushes
  <2> QED
    BY <2>1, <1>2
<1> QED
  BY <1>3, <1>4, <1>5, StepsOfVault
-----------------------------------------------------------------------------
LEMMA VaultStutters == VaultInv /\ UNCHANGED vaultVars => VaultInv'
BY DEF VaultInv, VaultTypeOK, CommittedNotesAreInHistory, OwedIsCommitted, PushedIsThere,
       Paths, vaultVars, tree, pushes

LEMMA VaultInvHolds == VaultSpec => []VaultInv
<1>1. VaultInv /\ [VaultNext]_vaultVars => VaultInv'
  <2> SUFFICES ASSUME VaultInv, [VaultNext]_vaultVars PROVE VaultInv'
    OBVIOUS
  <2>1. CASE VaultNext
    BY <2>1, VaultTypeSteps, CommittedSteps, OwedSteps, PushedSteps DEF VaultInv
  <2>2. CASE UNCHANGED vaultVars
    BY <2>2, VaultStutters
  <2> QED
    BY <2>1, <2>2
<1> QED
  BY <1>1, VaultStarts, PTL DEF VaultSpec

\* Every reachable state of the vault is well typed.
THEOREM VaultTypeCorrect == VaultSpec => []VaultTypeOK
BY VaultInvHolds, PTL DEF VaultInv

\* Pages are released only for notes in the history of the vault, and there they stay: for
\* any number of notes and pushes, wherever the service dies and whatever the user does to
\* the tree between git add and git commit (vault.ts:151-160, api.ts:699-701).
THEOREM AckedAlwaysInHistory == VaultSpec => []AckedNotesAreInHistory
<1>1. VaultInv => AckedNotesAreInHistory
  BY DEF VaultInv, CommittedNotesAreInHistory, AckedNotesAreInHistory
<1> QED
  BY <1>1, VaultInvHolds, PTL

\* A push that says so has brought every commit the vault had to the remote, whoever else
\* pushes, rebases and commits (vault.ts:169-208).
THEOREM PushedAlwaysThere == VaultSpec => []PushedIsThere
<1>1. VaultInv => PushedIsThere
  BY DEF VaultInv
<1> QED
  BY <1>1, VaultInvHolds, PTL

\* No step of inkpipe takes a commit out of either history (vault.ts:164-205).
THEOREM NoCommitIsLost == VaultSpec => NothingCommittedIsLost
<1>1. [VaultNext]_vaultVars => [branch \subseteq branch' /\ remote \subseteq remote']_vaultVars
  BY HistoriesGrow DEF Histories
<1> QED
  BY <1>1, PTL DEF VaultSpec, NothingCommittedIsLost
=============================================================================
