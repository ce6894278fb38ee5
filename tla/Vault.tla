------------------------------- MODULE Vault --------------------------------
(***************************************************************************)
(* The vault as the git repository it is (agent vault.ts, and the approve  *)
(* and push handlers of the desktop service's api.ts): notes that are      *)
(* written and committed, pushes with one rebase, and the others who use   *)
(* the same working tree and the same remote.                              *)
(*                                                                         *)
(* Every git command that vault.ts runs is a step of its own, also `pull   *)
(* --rebase`, which fetches and replays; one that stops at a conflict is   *)
(* there between steps.  Between two commands the user edits and commits   *)
(* in Obsidian, obsidian-git commits what it finds,                        *)
(* another machine pushes, another window pushes or approves, or the       *)
(* service is killed.                                                      *)
(*                                                                         *)
(* A history is the set of its commits, each of which changes one path; a  *)
(* rebase keeps what a commit changes.  git itself is external: what its   *)
(* commands refuse is taken from how vault.ts uses them.  Left out: which  *)
(* pages a note is made of (Delivery), file names, the branch name.        *)
(***************************************************************************)
EXTENDS Integers, FiniteSets

CONSTANTS
    Note,          \* the paths of the notes to approve
    File,          \* the other files of the vault
    Job,           \* pushes that may run at once, one for each window
    MaxCrashes     \* bound of the model

Path == Note \cup File
Commit == [by : {"inkpipe", "user", "elsewhere"}, path : Path]

ASSUME VaultAssumption ==
    /\ Note \cap File = {}
    /\ MaxCrashes \in Nat

VARIABLES
    branch,      \* the commits of the branch in the vault
    remote,      \* the commits of the branch on the remote
    edits,       \* files the user has changed and not committed
    file,        \* each note's file, while it is not committed
    rebase,      \* a rebase that stopped at a conflict: ours, or the user's
    approval,    \* how far each approval has come
    job,         \* how far each push has come
    owed,        \* the commits of the branch when it began
    result,      \* whether it ended well
    crashes

tree == <<edits, file, rebase>>
pushes == <<job, owed, result>>
vaultVars == <<branch, remote, tree, approval, pushes, crashes>>

VaultTypeOK ==
    /\ branch \subseteq Commit
    /\ remote \subseteq Commit
    /\ edits \subseteq File
    /\ file \in [Note -> {"none", "untracked", "staged"}]
    /\ rebase \in {"none", "ours", "users"}
    /\ approval \in [Note -> {"draft", "checked", "written", "staged", "committed", "acked"}]
    /\ job \in [Job -> {"idle", "push", "pull", "abort", "again"}]
    /\ owed \in [Job -> SUBSET Commit]
    /\ result \in [Job -> {"none", "pushed"}]
    /\ crashes \in Nat

VaultInit ==
    /\ branch = {}
    /\ remote = {}
    /\ edits = {}
    /\ file = [n \in Note |-> "none"]
    /\ rebase = "none"
    /\ approval = [n \in Note |-> "draft"]
    /\ job = [j \in Job |-> "idle"]
    /\ owed = [j \in Job |-> {}]
    /\ result = [j \in Job |-> "none"]
    /\ crashes = 0

Paths(history) == {c.path : c \in history}
By(who, paths) == [by : {who}, path : paths]
Staged == {n \in Note : file[n] = "staged"}
Untracked == {n \in Note : file[n] = "untracked"}
-----------------------------------------------------------------------------
(* writeNote, and the rest of approve *)

\* isDirty: git status has something to say.
Dirty == edits # {} \/ Staged # {} \/ Untracked # {} \/ rebase # "none"

Reaches(n, stage) == approval' = [approval EXCEPT ![n] = stage]

CheckTree(n) ==
    /\ approval[n] = "draft"
    /\ ~Dirty
    /\ Reaches(n, "checked")
    /\ UNCHANGED <<branch, remote, tree, pushes, crashes>>

\* The note is refused when its path is taken, and otherwise it and its images are written.
WriteFiles(n) ==
    /\ approval[n] = "checked"
    /\ IF file[n] # "none" \/ n \in Paths(branch)
       THEN Reaches(n, "draft") /\ UNCHANGED file
       ELSE Reaches(n, "written") /\ file' = [file EXCEPT ![n] = "untracked"]
    /\ UNCHANGED <<branch, remote, edits, rebase, pushes, crashes>>

\* git add of these paths; it has nothing to do when someone committed them.
StageFiles(n) ==
    /\ approval[n] = "written"
    /\ Reaches(n, "staged")
    /\ file' = [file EXCEPT ![n] = IF @ = "untracked" THEN "staged" ELSE @]
    /\ UNCHANGED <<branch, remote, edits, rebase, pushes, crashes>>

Committed(n) == branch \cup By("inkpipe", {n})

\* git commit of these paths fails in the middle of a rebase, and when there is nothing to
\* commit: the approval fails, and what was staged stays.
CommitNote(n) ==
    /\ approval[n] = "staged"
    /\ IF file[n] = "staged" /\ rebase = "none"
       THEN /\ branch' = Committed(n)
            /\ file' = [file EXCEPT ![n] = "none"]
            /\ Reaches(n, "committed")
       ELSE Reaches(n, "draft") /\ UNCHANGED <<branch, file>>
    /\ UNCHANGED <<remote, edits, rebase, pushes, crashes>>

\* The server releases the pages.
AckNote(n) ==
    /\ approval[n] = "committed"
    /\ Reaches(n, "acked")
    /\ UNCHANGED <<branch, remote, tree, pushes, crashes>>

AckFails(n) ==
    /\ approval[n] = "committed"
    /\ Reaches(n, "draft")
    /\ UNCHANGED <<branch, remote, tree, pushes, crashes>>
-----------------------------------------------------------------------------
(* push *)

Moves(j, to) == job' = [job EXCEPT ![j] = to]

Ends(j, how) ==
    /\ job' = [job EXCEPT ![j] = "idle"]
    /\ result' = [result EXCEPT ![j] = how]
    /\ owed' = [owed EXCEPT ![j] = IF how = "pushed" THEN @ ELSE {}]

StartPush(j) ==
    /\ job[j] = "idle"
    /\ Moves(j, "push")
    /\ owed' = [owed EXCEPT ![j] = branch]
    /\ result' = [result EXCEPT ![j] = "none"]
    /\ UNCHANGED <<branch, remote, tree, approval, crashes>>

\* mutant: the push is forced
ForcedPush == remote' = branch

\* The remote takes what it can fast-forward to.
FastForward == remote \subseteq branch /\ remote' = branch

PushAccepted(j) ==
    /\ job[j] \in {"push", "again"}
    /\ FastForward
    /\ Ends(j, "pushed")
    /\ UNCHANGED <<branch, tree, approval, crashes>>

\* The remote cannot be reached, or it moved again after the rebase.
PushFails(j) ==
    /\ job[j] \in {"push", "again"}
    /\ Ends(j, "none")
    /\ UNCHANGED <<branch, remote, tree, approval, crashes>>

\* classifyPushFailure finds no other reason: the remote has moved.
PushRejected(j) ==
    /\ job[j] = "push"
    /\ ~(remote \subseteq branch)
    /\ Moves(j, "pull")
    /\ UNCHANGED <<branch, remote, tree, approval, owed, result, crashes>>

\* git will not begin: there are changes, a file in the way, or a rebase.
PullRefuses ==
    \/ edits # {} \/ Staged # {} \/ rebase # "none"
    \/ Untracked \cap Paths(remote \ branch) # {}

Conflict == Paths(branch \ remote) \cap Paths(remote \ branch) # {}

\* mutant: what is not on the remote is given up
TakeTheirs == branch' = remote

Replay == branch' = branch \cup remote

PullRebases(j) ==
    /\ job[j] = "pull"
    /\ ~PullRefuses
    /\ ~Conflict
    /\ Replay
    /\ Moves(j, "again")
    /\ UNCHANGED <<remote, tree, approval, owed, result, crashes>>

PullConflicts(j) ==
    /\ job[j] = "pull"
    /\ ~PullRefuses
    /\ Conflict
    /\ rebase' = "ours"
    /\ Moves(j, "abort")
    /\ UNCHANGED <<branch, remote, edits, file, approval, owed, result, crashes>>

\* It is refused, or the remote can no longer be reached.
PullFails(j) ==
    /\ job[j] = "pull"
    /\ Moves(j, "abort")
    /\ UNCHANGED <<branch, remote, tree, approval, owed, result, crashes>>

\* mutant: the failure of a rebase is taken for a push
AbortAsPushed(j) ==
    /\ job[j] = "abort"
    /\ rebase' = "none"
    /\ Ends(j, "pushed")
    /\ UNCHANGED <<branch, remote, edits, file, approval, crashes>>

\* git rebase --abort, whether or not there is a rebase and whoever began it: the tree is
\* set back, with what was changed in it since.
AbortRebase(j) ==
    /\ job[j] = "abort"
    /\ rebase' = "none"
    /\ IF rebase = "none"
       THEN UNCHANGED <<edits, file>>
       ELSE /\ edits' = {}
            /\ file' = [n \in Note |-> IF file[n] = "staged" THEN "none" ELSE file[n]]
    /\ Ends(j, "none")
    /\ UNCHANGED <<branch, remote, approval, crashes>>
-----------------------------------------------------------------------------
(* The others *)

EditFile(f) ==
    /\ f \notin edits
    /\ By("user", {f}) \cap branch = {}      \* bound of the model: once
    /\ edits' = edits \cup {f}
    /\ UNCHANGED <<branch, remote, file, rebase, approval, pushes, crashes>>

\* Obsidian's git commits all it finds, a note that inkpipe just wrote among it.
UserCommits ==
    /\ rebase = "none"
    /\ edits # {}
    /\ branch' = branch \cup By("user", edits \cup Staged \cup Untracked)
    /\ edits' = {}
    /\ file' = [n \in Note |-> "none"]
    /\ UNCHANGED <<remote, rebase, approval, pushes, crashes>>

PushElsewhere(p) ==
    /\ By("elsewhere", {p}) \cap remote = {}
    /\ remote' = remote \cup By("elsewhere", {p})
    /\ UNCHANGED <<branch, tree, approval, pushes, crashes>>

\* The user pulls, has a conflict, and is resolving it.
UserRebases ==
    /\ ~PullRefuses
    /\ Conflict
    /\ rebase' = "users"
    /\ UNCHANGED <<branch, remote, edits, file, approval, pushes, crashes>>

\* The user is done, or helps a rebase on that a killed service left behind.  What is changed
\* and what is staged, a note of inkpipe among it, goes into the commit that was stopped at.
UserContinues ==
    /\ rebase = "users" \/ (rebase = "ours" /\ \A j \in Job : job[j] # "abort")
    /\ rebase' = "none"
    /\ branch' = branch \cup remote \cup By("user", edits \cup Staged)
    /\ edits' = {}
    /\ file' = [n \in Note |-> IF file[n] = "staged" THEN "none" ELSE file[n]]
    /\ UNCHANGED <<remote, approval, pushes, crashes>>

\* The service dies with its requests.  What it released stays released.
KillVault ==
    /\ crashes < MaxCrashes
    /\ crashes' = crashes + 1
    /\ approval' = [n \in Note |-> IF approval[n] = "acked" THEN "acked" ELSE "draft"]
    /\ job' = [j \in Job |-> "idle"]
    /\ owed' = [j \in Job |-> {}]
    /\ result' = [j \in Job |-> "none"]
    /\ UNCHANGED <<branch, remote, tree>>

VaultNext ==
    \/ \E n \in Note : CheckTree(n) \/ WriteFiles(n) \/ StageFiles(n) \/ CommitNote(n)
                       \/ AckNote(n) \/ AckFails(n)
    \/ \E j \in Job : StartPush(j) \/ PushAccepted(j) \/ PushFails(j) \/ PushRejected(j)
                      \/ PullRebases(j) \/ PullConflicts(j) \/ PullFails(j) \/ AbortRebase(j)
    \/ \E f \in File : EditFile(f)
    \/ UserCommits \/ UserRebases \/ UserContinues \/ KillVault
    \/ \E p \in Path : PushElsewhere(p)

VaultSpec == VaultInit /\ [][VaultNext]_vaultVars
-----------------------------------------------------------------------------
\* The pages of a note are released only when it is in the history of the vault, and there
\* it stays, whatever is pushed, rebased, aborted or killed afterwards (api.ts:699-701,
\* vault.ts:151-160).
AckedNotesAreInHistory == \A n \in Note : approval[n] = "acked" => n \in Paths(branch)

\* No commit is ever taken out of the vault's branch or the remote's: nothing is forced,
\* and no side of a conflict is given up (vault.ts:164-205).
NothingCommittedIsLost == [][branch \subseteq branch' /\ remote \subseteq remote']_vaultVars

\* When a push says it succeeded, every commit the vault had when it began is on the
\* remote, whoever pushed, rebased and committed in between (vault.ts:169-208).
PushedIsThere == \A j \in Job : result[j] = "pushed" => owed[j] \subseteq remote
=============================================================================
