# Verification of inkpipe in TLA+

inkpipe takes photographs of handwritten pages on a phone, seals them to a
desktop's key, queues them on a small server, and lets the desktop transcribe,
tidy and explain them and commit a note to a git vault. This directory models that
path from the shutter to the remote of the vault, checks small instances of it with
TLC, and proves theorems about it, for instances of every size, with TLAPS. Source paths
below are relative to the repository, or file names where those are unambiguous.

## 1. Inventory

| component | state it keeps | operations | talks to |
|---|---|---|---|
| queue server (`apps/server`) | SQLite tables `accounts`, `devices`, `pairings`, `blobs`; a directory of `<blobId>.bin` files | register-pc, pair/create, pair/complete, list and revoke devices, upload, list, download, ack, retention sweep | phone and desktop, over signed HTTP |
| protocol (`packages/protocol`) | none | limits and request schemas | everybody |
| client (`packages/client`) | none | one signed request, an `ApiError` or a network error | server |
| phone (`apps/phone`) | `manifest.json` (what it says of every page), photo files, the stored pairing and key, React state | pair, unpair, shoot, upload run, prune (written, called by nothing) | server |
| desktop service (`apps/desktop/service`) | in memory: drafts, `refreshing`, progress, `pull`; on disk: config, keystore, secrets, research cache, feedback | setup, restore, refresh, approve, revoke, push, settings, model pull | server, agent, vault |
| pipeline (`apps/agent/src/pipeline.ts`) | none | collect pending pages into drafts, render a note | server, model |
| vault writer (`apps/agent/src/vault.ts`) | a git working tree | write and commit a note, push with one rebase | git |
| research (`search.ts`, `research.ts`) | a JSON file with a cache and a daily budget | lookup, spend | a search provider |
| model runtime (`ollama.ts`, `/api/ollama/*`) | the record of the last download, in memory | detect, pull, probe | Ollama |
| desktop interface (`ui/src`) | what each window shows | wizard, dashboard polling, preview and approval | service |
| transcription, cleaning, expansion | none | ladders of prompts with quality gates and a deadline | model, research |
| text, crypto, imaging, launcher, installer | none that outlives a call | pure functions, rendering, process start | |

What is hard in it:

* **Interleaving.** The server is one thread, but a request is authenticated in
  one step and handled in a later one (`server.ts:117-131` and each handler); the
  desktop service awaits git, the server and a model in the middle of every
  operation; the phone's `busy` flags belong to screens that unmount, so two
  upload runs can overlap.
* **Crashes.** The server writes a file, then a row; it deletes a row, then a
  file. The service writes files, then commits, then acks, then forgets the draft.
* **Messages.** An upload or an ack may be lost, or handled with its answer lost,
  and is then sent again, possibly after somebody else has moved on.
* **Boundaries.** Quota, blob size, token expiry, retention, pages per session, the
  daily budget at midnight, drawings at the edge of a photograph.
* **Windows.** The desktop is a service with any number of browser windows, which
  learn of each other only by polling, and may be closed, reloaded or left stale.
* **Models that answer anything.** Every ladder of prompts has several ways down and
  must end; doubt that is found on one of them has to reach the note.
* **Others in the vault.** The user, obsidian-git and other machines work in the same
  tree and on the same remote, between any two git commands of inkpipe.

`PROJECT.json` lists each of these as a hazard at the line where it bites, with
the properties that would catch it going wrong or the reason none does yet.

What makes each component correct:

* server: rows and files never part the wrong way, a row belongs to a live phone
  of its own account, a token buys one device, no phone is stranded without a
  desktop, the quota holds, pages go only for a lawful reason;
* phone, service and vault together: a page that the phone stopped sending is on
  the server, in a committed note, or was knowingly discarded; notes never
  overwrite notes; the server lets go only of committed pages; runs and refreshes
  end; an owner who keeps going gets every page into a note;
* phone storage: no photograph of an unsent page is deleted, no page is called
  uploaded that is not, places in a session are unique, retention follows its rules;
* notes: the approved record of every page survives, a term is explained once, doubt is
  shown, sources vote and never veto, a late failure costs nothing earlier, a refresh ends;
* drawings: every one that was found is on a crop of the photograph;
* vault: pages are released only for notes in the history, nothing committed is lost,
  "pushed" is true;
* research: no day is charged more than its budget;
* setup: keys are never replaced, a configuration names the keys on disk, a recovery
  phrase stays shown until it is written down;
* model downloads: an outcome is not overwritten; review: the feedback file holds what
  the reader said last, and nothing unseen is written (which fails, section 4).

## 2. Modules

| module | models | kind |
|---|---|---|
| `MailBox` | what the server promises: places that hold pages of accounts | abstract specification |
| `BlobQueue` | `server.ts` and `db.ts` as they are written | detailed specification |
| `MCBlobQueue` | constants' symmetry for TLC | instance |
| `InductionLemmas` | least elements, recursion along a chain, sums over finite sets | lemmas |
| `BlobQueueProofs` | type invariant, registry invariant, rows, files, lawful exits, quota; `BlobQueue` implements `MailBox` | proofs |
| `Courier` | what the person with the phone is promised | abstract specification |
| `Delivery` | phone, network, server (as a `MailBox`), service, vault, composed | detailed specification |
| `MCDelivery` | one lecture, symmetry | instance |
| `PhoneStore` | the phone's manifest, photographs, retention policy and screens (`store.ts`, `retention.ts`, `App.tsx`) | detailed specification |
| `MCPhoneStore` | photographs of two sizes, symmetry | instance |
| `PhoneStoreProofs` | types, truth of the manifest, only copies, places, the plan of a prune | proofs |
| `DeliveryProofs` | type invariant, no page lost, drafts, releases, paths | proofs |
| `DeliveryRefinement` | `Delivery` implements `Courier` | proofs |
| `Notes` | transcription, tidying and explanation of one session, the edits, the note (`pipeline.ts`, `transcribe.ts`, `clean.ts`, `complete.ts`, `injection.ts`, `expand.ts`, `evidence.ts`) | detailed specification |
| `Crops` | drawings found, padded, merged and cut (`diagram.ts`) | detailed specification |
| `Places` | the numbers of a set in their order, the part of a list that a filter keeps | operators |
| `Research` | the settings of the search, lookups, cache and budget (`research.ts`, `search.ts`) | detailed specification |
| `Vault` | notes, pushes and everybody else in one git repository (`vault.ts`) | detailed specification |
| `Setup` | setup and restore, the wizards, keys and configuration (`api.ts`, `keystore.ts`, `config.ts`, `Wizard.tsx`) | detailed specification |
| `Models` | detection, downloads and the probe, and the wizards' model step (`ollama.ts`, `api.ts`, `Wizard.tsx`) | detailed specification |
| `Review` | dashboard windows, drafts, approvals, feedback (`App.tsx`, `api.ts`, `feedbackStore.ts`) | detailed specification |
| `MCDesktop` | `Notes` and the six after it side by side, with boxes, settings, lectures | instance |
| `VaultProofs`, `NotesProofs` | types and safety of `Vault`, of `Notes` | proofs |
| `DesktopProofs` | types and safety of `Research`, `Setup`, `Models`, `Crops` and `Review`; the types of `MCDesktop` | proofs |

### BlobQueue

`account`, `device`, `pairing` and `blob` are the four tables, `disk` the
directory. `authed` holds the requests between their preHandler and their
handler, each with the copy of the device row the preHandler read
(`request.device`): between the two, the body is parsed and other handlers run,
so `RevokeDevice` may come in between. A handler body has no `await` before its
last write and is one action. `clock` stands for `now()` and stored times are its
values. `retired` and `bought` are history: what happened, for the properties.

Every route that changes state is an action (`RegisterPc`, `CreatePairing`,
`CompletePairing`, `RevokeDevice`, `PostBlob`, `AckBlobs`, and the sweep
`PruneExpired`, which exists and is unscheduled, `docs/SPEC.md:278`); all
read-only answers and all refusals are `AnswerOnly`. For each handler with more
than one write there is a second action in which the process dies between two of
them; `TornDelete` describes a row-then-file loop that stops anywhere. SQLite's
constraints are in `RowFits` and `KeyTaken` (foreign key, primary key, unique
identity key): an INSERT that throws leaves what was written before it.

Identifiers come from `randomUUID`, so `Fresh` never returns one that was used.
A page's size may exceed the limit by one, to exercise the refusal. Left
out because a request that fails them changes nothing: signatures, skew, schemas,
the join token. Left out because no other state depends on them: labels,
`last_seen_at`, session and sequence of a blob. A device has at most one request between its
preHandler and its handler at a time (`Authenticate`); requests of different devices interleave
freely.

### Delivery

The server is `Server == INSTANCE MailBox`, one account, nothing old: section 5
says why that is sound. The other variables and their code:

| variable | code |
|---|---|
| `state` | `manifest.json`, `Capture.state` (`uploading` is never written, `App.tsx:355-359`) |
| `shown` | `App`'s `captures`, read again after a shot, an upload run, a pairing |
| `phone` | the stored pairing (`store.ts:78-90`) |
| `loop` | one running `uploadPending`: pages to go, the page on its way, its answer, the pairing it was called with |
| `wire` | requests the server has not handled; `by` is who still waits |
| `registered`, `issued` | the device rows, and every id ever given out |
| `drafts` | `let drafts` (`api.ts:73`), the pages of each session's draft |
| `fetch` | `refreshing` and the local state of `collectDrafts` |
| `job` | an approve request: opened, tree checked, files written, committed, ack handled |
| `revoking` | a revocation the server handled and the service has not heard of |
| `loose`, `notes` | untracked notes in the tree, committed notes |
| `discarded`, `faults` | history and the bound on what goes wrong |

Steps that are separated by an `await` in the code are separate actions: the
dirty check, then the existence check with the writes (one synchronous stretch),
then the commit, the ack, the answer. A refresh assigns its drafts at the end,
whatever happened meanwhile. Merged into one step: a manifest update (its
read and its write), the two SecureStore writes of a pairing, the page list
request with the start of its refresh. `RevokeArrives` and every loss (of a
request, of an answer, of an ack, of the answer to a revocation), crash or failed commit
spend one of `MaxFaults`; so does the owner tidying the tree under
a running approval.

Left out of `Delivery`: what a page says, quota and size refusals (to the phone
they are one more failed upload), the retention sweep (nothing schedules it), the
feedback and glossary an approval saves after the ack, images as files of their
own.

### PhoneStore

`Delivery` takes a change of the manifest as one step. Here it is two, because
`readManifest` awaits: `ReadManifest` takes a copy into the change, `WriteManifest`
writes what the change makes of that copy (`Patched`), with the deletions of a prune
in the same stretch. A change is an `add` (`addCapture`), a `mark` (`updateCapture`)
or a `prune` (`pruneCaptures`), and up to `Slot` of them are in flight. An upload run
does not wait for its marks (`onProgress` is not awaited, `upload.ts:86`), and a shot
goes on when its screen is left; `ShotOfThisScreen` says whose counter and shutter it
still moves.

Data: `pending` and `failed` are one state, since the code only ever asks whether a
page is uploaded; a photograph has a constant size and a turn in time (`at`), and a
prune is called with any `cutoff`, which stands for `now - days` under any clock.
`planPrune` is `Counted` (a recursive function, newest first) and `Evicted`. Merged
into one step: a capture added and the list read again for the screen; the call of a
prune and its read (the call changes nothing). Nothing calls `pruneCaptures`; it is
modelled as callable at any time, except where `Cutoffs` is empty.

A fault is a kill between any two steps or inside a write (what is left does not parse
and `readManifest` answers `[]`), a kill between two deletions of a prune, or a write
that fails.

### Notes

One refresh of one session, and the note that is approved from it. `at` is the stage,
`page` and `rung` where in it the loop is; every model call is one action, and its answer
is any of the kinds of answer the code tells apart, chosen freely: degenerate or not,
captured (only on a `Hostile` page), too long, contradicting the page, or none at all. So
the properties hold for a model that answers whatever it likes. `out` is the result of
`expandTerms` on this page, `all` that of the pages before; an `Outcome` remembers, next
to the confidence it was given, what was found out on the way (`contradicts`, `against`,
`wavers`), which is how the properties can ask whether a doubt was dropped.
`CombinedConfidence` is `combine`, `Verdict` is `judge`. `Approve` renders the note:
`PageShown` is the branch of `renderNote` that chooses the body, the quote and the warning.

### Crops

Two loops: `TakeBox` is one accepted box of `parseDiagrams`, `MergeBand` one round of
`dropOverlapping`; `Scaled` and `Cut` are `scaleToOriginal` and the filter of
`cropDiagrams`. Heights and rounding are those of the code, in integers. That the reduced
copy is no larger than the photograph (`withoutEnlargement`), that the padding of the least
band is more than a pixel and that a band that passes `MinPixels` passes `MinScaled` are
assumptions (`CropsAssumption`), which the sizes of the code satisfy. Nothing is rotated: the
desktop service sets no `rotate` (`api.ts:565`). With it, `prepForModel` and `cropRegion` would
turn the photograph first (`imaging/src/index.ts:22`, `57`) while `scaleToOriginal` takes the size of the
photograph as it lies (`pipeline.ts:277`), so for a quarter turn `DetectedIsCropped` says nothing.

### Research

The budget is read when a query is sent (`Ask`) and spent when it is answered
(`Answered`, `RateLimited`), each time through the file that the cache rewrites too.
`charged` counts what each day was charged in truth. One refresh runs at a time
(`refreshing` in `api.ts`), and `GET /api/status` builds the provider as a refresh does.
The filter of the entries, as that of `appendFeedback` in `Review`, is written by the places
it keeps (`Those`), in which a proof can follow an element.

### Vault

A history is the set of its commits, each of which changes one path; a rebase keeps what
a commit changes. `writeNote` is `CheckTree`, `WriteFiles`, `StageFiles`, `CommitNote`,
then the ack of `api.ts`; `push` is `PushAccepted`, `PushRejected`, `PullRebases`,
`AbortRebase` and so on, for each window. Between any two of them the user edits,
commits (as obsidian-git does, with whatever inkpipe has staged), rebases and resolves, another
machine pushes, or the service dies. `git pull --rebase` is one command and one step, although it
fetches and replays: a commit that lands inside a rebase without a conflict is not explored, only
one that lands before it, after it, or while it stands at a conflict.
`Delivery` has the same `writeNote` against the server; here it is against
the others in the repository.

### Setup

A window is at its splash, wizard or dashboard; the wizard is decided on once, as the
ref of `App.tsx` does. A handler runs `checking` (until the keys are written) and
`registering` (until the server answered and the configuration is saved): the awaits are
between them. A phrase and the keys derived from it are one number. `LoseFiles` is the
user moving the keys aside, which the refusal to overwrite asks for.

### Models

`pull` is the service's one record, `streams` the downloads Ollama streams to it,
`answer` a snapshot of `pull` on its way to a wizard that polls.

### Review

A window has the drafts it loaded (`listed`), the number it last heard (`count`) and the
pages its preview took the text of (`pages`); an approval carries the draft that the
service had, the pages that the window showed, the window that waits for it (`by`), and the window whose
preview has its buttons disabled by it (`locks`). A reload empties both: the handler goes on, and
the window may approve again beside it. A list that comes without the lecture unmounts the preview
and empties `locks` only: when the lecture is drafted again, the same window may approve it while
it still waits for its first answer. `log` is the history of reviews that
`FeedbackIsTheLatest` compares the file with.

## 3. Runs

| run | module, configuration | question | distinct states |
|---|---|---|---|
| `blob_queue` | `MCBlobQueue`, `BlobQueue.cfg` | does the server keep its invariants and implement the box? | 76,522 |
| `blob_queue_prune` | `BlobQueuePrune.cfg` | is a file without a row removed by pruning, as a comment says? no | violation |
| `blob_queue_revoke` | `BlobQueueRevoke.cfg` | does revocation remove ciphertext, as a comment says? no | violation |
| `delivery_overlap` | `MCDelivery`, `DeliveryOverlap.cfg` | do overlapping runs and approvals with a fault, or a lecture of pages with two faults or with rival approvals, lose a page, mix up notes, or release pages that are not committed? no | 1,063,653 |
| `delivery_live` | `DeliveryLive.cfg` | do refreshes and upload runs always end, also when runs overlap, and does a persistent owner get every page noted? yes | 214,948 |
| `delivery_twice` | `DeliveryTwice.cfg` | can a retried upload arrive twice, against the documentation? yes | violation |
| `delivery_stale_draft` | `DeliveryStaleDraft.cfg` | can discarded pages come back for review, against a comment? yes | violation |
| `phone_store` | `MCPhoneStore`, `PhoneStore.cfg` | with overlapping changes, stale prunes, screens that are left and one fault, is an unsent photograph deleted, a page called uploaded that is not, a place given twice, a plan wrong? no | 1,317,276 |
| `phone_lost_update` | `PhoneLostUpdate.cfg` | does the list keep every waiting page, as the documentation says? no | violation |
| `desktop` | `MCDesktop`, `Desktop.cfg` | does any of the seven parts of the desktop break its promises, whatever models, windows, users and crashes do? no | 927,337 |
| `edits_win` | `DesktopEditsWin.cfg` | do the reader's edits always win, as a comment says? no | violation |
| `unseen_pages` | `DesktopUnseenPages.cfg` | does nothing reach the vault that no window showed, as a comment says? no | violation |

**One run for several instances.** `Notes`, `Crops`, `Research`, `Vault`, `Setup`, `Models`
and `Review` share no variable. `MCDesktop` runs each by itself in one state space: `part`
says which of them moves while the others rest in their initial states, so the state
spaces add up. An interleaving of them would reach every combination of their states and
no other state of any of them, and every property is about one part. `Review` moves in two
of them: `review` (three photographs, one approval at a time) and `overlap` (approvals
that overlap, of one photograph). In the same way
`MCDelivery` has scenarios: `overlap` (one page, two of everything that may overlap, one
fault), `batch` (two pages, two faults, one at a time of the rest), `rivals` (two pages,
approvals that overlap, one fault), `owner` (one page, a fault, and an owner who keeps at it),
`lecture` (two pages and such an owner, nothing fails), `alone` (two pages, nobody has to do
anything) and `runs` (two pages, upload runs that overlap). A scenario only leaves steps out of
`Next`; `all`, in the violations, leaves out none.

**Properties of `BlobQueue`.** `RowHasItsFile` (a crash never leaves a row without
the file that came with it), `RowHasItsDevice` (although a handler acts on a copy
of the device row), `PhoneHasItsDesktop`, `TokenBuysOneDevice`, `QuotaHolds`,
`PagesLeaveLawfully` (an action property: a stored page is never altered, and goes
only by age, revocation, or while a desktop of its own account is answered),
`RegistryInv` (the strengthening the proofs use, checked here first), and
`ImplementsMailBox`.

**Properties of `Delivery`.** `NoPageLost`, `DraftsAreAccountedFor`,
`OneNotePerPath`, `ReleasedOnlyWhenCommitted`, `ImplementsCourier`, and the
liveness properties `RefreshEnds`, `UploadEnds` and, for the owner of the scenario,
`OwnerGetsEveryPage` (`EveryPageIsNoted` of `Delivery`).

**Properties of `PhoneStore`.** `OnlyCopyIsKept` and `UploadedIsTrue` hold although
updates are lost; `PlacesAreUnique` although a place is given again after a shot that
failed, because the failed one is never listed; `PlanIsExact` compares the loop of
`planPrune` with a definition that sums over the pages that stay.

**Properties of the desktop.** Of `Notes`: `RecordIsKept` (the approved text of every page
is in the note, whichever of three models failed), `ExplainedOnce`, `DoubtIsShown`,
`SourcesNeverVeto`, `EarlierPagesKept`, `CollectEnds` (every ladder is left). Of `Crops`:
`DetectedIsCropped`, which follows a box through padding, merging and two roundings. Of
`Research`: `BudgetHolds`, although a query is charged after the budget was read. Of
`Vault`: `AckedNotesAreInHistory`, `NothingCommittedIsLost`, `PushedIsThere`, although a
rebase may stop, be aborted by either side, or be left behind by a crash. Of `Setup`:
`KeysNeverReplaced`, `ConfigNamesTheKeys` (two windows, two awaits, and keys that go
missing in between two requests), `PhraseStaysShown` (although every poll already says
"configured"). Of `Models`: `OutcomeStays`. Of `Review`: `FeedbackIsTheLatest` (a file
that replaces and drops records, against the whole history of reviews).

**Bounds.** `PhoneStore`: two pages, because an update is lost between two; two changes
in flight, because two is where they overlap; two sessions, so that a shot lands on the
next screen; sizes 1 and 2 against a limit of 1, so that a page that fits, one that does
not, and one that is skipped before an older one that fits all occur; every cutoff that
tells two pages apart; one fault. Overlapping upload runs are in `Delivery`; here there
is one. `BlobQueue`: two accounts so that one may try to reach into the other;
three devices and two tokens so that a desktop has a phone, a phone is revoked
and another is paired; two pages; sizes 1, 2 and the refused 3 against a quota of
3, so that the quota is met exactly and exceeded; retention 1 and clock up to 2,
so that a page is young, at the limit, and past it. `Delivery`: `overlap` has
two of everything that can overlap (upload runs, approvals, pairings) and one
page, because losing a page concerns one page at a time; `batch` has two
pages of one lecture, so that drafts go stale by part, and two faults, so that a
retry may fail as well; in `rivals` two approvals run at once of drafts with different pages, so
that one that writes over the other shows (`OneNotePerPath`: two notes of the same page under
one title are one value). `runs` has two upload runs in flight, the second with a list the first
has outdated, and no refresh or approval beside them, which no run waits for.
`MaxFaults` bounds faults only; everything else repeats
without limit. `Notes`: two pages, because terms, failures and seen terms are carried from
one to the next; one term on both, one underlined on the second only, one too general; two
per page, so that underlined ones leave room and do not; two samples, so that none, some
or all are clean. `Crops`: ten boxes that are at, above and below each limit or run off
the page, up to `MaxDiagrams`, the code's 4; the heights are those of a photograph and of
its reduced copy, chosen so that both roundings occur. `Research`: two days, a budget of
two, a cache of one entry that ages in a day, settings with and without the token the
code wants. `Vault`: a note and a file, each of which may conflict, two pushes, one crash.
`Setup`: two windows, two phrases, of which one may be on paper from another computer, one
kill. `Models`: two models and contexts, one wizard, since two wizards meet only in
`pull`. `Review`: three photographs of two lectures, two uploads, and one window that may
be reloaded while the service works for it: the reloaded window is a second one, whose
refreshes and approvals meet the first one's; two approvals, because two is where they
overlap; two records, one of which is there at first, so that the oldest is dropped.

**Deadlock.** Most configurations switch the check off: device ids, tokens, the
clock and titles are finite in an instance, and a server or an owner with nothing
left to do is at rest, not stuck. `DeliveryLive` checks it.

**Fairness.** `CodeFairness` is what the program and the network do unasked: a
request that was sent and not lost is answered (each upload run's by itself: with fairness
for "some request" one run could starve the other), a loop sends its next page, a
refresh and an approval take their next step. It is weak fairness on each, which
a JavaScript event loop gives; losing an answer stays possible but is bounded.
`OwnerFairness` is what only the owner can do: pair a phone the server knows,
press Upload and Collect, tidy the tree, and approve a draft with an unnoted page
under a free title. The last is strong fairness, since a refresh may take the
draft away between two attempts. `RefreshEnds` and `UploadEnds` need only the
first, `EveryPageIsNoted` both: `ScenarioLiveSpec` gives the owner's fairness to the scenarios
`owner` and `lecture` only. `CollectEnds` needs weak fairness on the next step of a refresh: every call
of a model ends, with its answer or when its timer aborts it (`transcribe.ts:126-147`,
`180-207`), and so does a search, whose `fetch` has only Node's own limit. Nothing is
assumed of the answers. The scenario `owner` has one page, because titles are
finite in an instance: with two pages, notes of pages that are drafted again may
use up every title, which the code, whose titles are unbounded, does not meet. `lecture` has
two, and an owner who approves only what holds a new page, under a title that is free: there an
ack may forget a newer draft of the lecture, made while the approval ran (`api.ts:702`), and the
page that only this draft had must come back with a later refresh.

**Mutants.** For every property of a passing run, `PROJECT.json` names a mutated
definition (a dropped guard, a forgotten UPDATE, an ack sent before the commit)
under which TLC finds the property violated.

## 4. Findings

1. **Garbage that pruning does not remove** (`PruningRemovesGarbage`). `db.ts:305`
   calls a file with no row "merely garbage that pruning will remove"; `pruneExpired`
   walks rows, so no sweep ever sees such a file.
2. **Revocation leaves the ciphertext** (`RevocationRemovesCiphertext`).
   `deleteDevice` looks for `<blobId>`, but files are named `<blobId>.bin`.
3. **A retried upload may arrive twice** (`NoPageArrivesTwice`). The idempotency
   check knows only pages that are still stored. An upload whose answer was lost,
   and that is retried after its note was committed and acked, is stored again and
   drafted again. `ImplementsCourier` still holds: nothing is lost.
4. **A refresh brings revoked pages back** (`NoDraftOfDiscardedPages`). The drafts
   of a refresh that had downloaded them are assigned after the list was emptied.
5. **The phone's list loses a waiting page** (`CapturesStayListed`). Two changes of the
   manifest overlap and the later write undoes the earlier: a shot that ends during
   the marks of an upload run that was left, or two shots of two screens. The page
   is then on the phone's disk and on nobody's list. The run has no crash and no
   prune. A kill inside a write loses the whole list, which `store.ts:116` accepts.
6. **An edit of a tidied page does not win** (`EditsWin`). The preview edits the column as
   written; `renderNote` makes the tidied text the body whenever there is one. So the
   reader's correction ends in the folded quote, and the body still has the model's text.
   `RecordIsKept` holds: the edit is in the note.
7. **A page nobody saw is committed** (`NothingUnseenIsWritten`). An approval names the
   lecture. If a refresh has added a page to its draft since the window loaded it, that page
   goes into the note with the model's text and is released. The window reloads its drafts
   only when their number changes.

Not a run of its own: `planPrune` skips a page that does not fit and goes on, so an
older, smaller page may stay when a newer one goes, where `retention.ts:57` says
"evicting oldest uploaded first"; `PlanIsExact` states what it does. Met while
modelling and of no run, because they turn on data that is left out, or because nothing
in the repository says otherwise:

* the 101st page of a session is refused with 400 on every retry (`protocol/src/index.ts:111`);
  the phone measures the plaintext, the server the longer sealed page (`upload.ts:67`);
* an approval saves the configuration it read before its awaits, so a `PUT /api/config` or
  another approval's glossary in between is undone (`api.ts:735`);
* a vision model that fails on one page fails the whole refresh (`pipeline.ts:190`), and a
  page that failed but was approved blank counts as good, so its warning is not printed (`api.ts:674`);
* a search host with `http` and a token makes `buildResearch` throw, and with it
  `GET /api/status` (`research.ts:155`; in `Research` as `BuildThrows`, of which no property speaks);
* if the configuration is lost and the keys are not, every setup is refused (`RefuseKeys`),
  and if the answer of a setup is lost, its phrase is never shown;
* a service that is killed during a download leaves the wizard at "Downloading"
  (`Wizard.tsx:309`; in `Models` as `Idle`), and a pull has no timeout;
* a probe "fits" without the headroom its suggestion adds (`ollama.ts:263`);
* a note that obsidian-git commits between `git add` and `git commit` fails its approval,
  and every retry finds the path taken (in `Vault`: `CommitNote`, `WriteFiles`); nothing is lost;
* `git rebase --abort` after a refused pull also ends a rebase of the user's (`vault.ts:184`);
* the preview matches texts to pages by position (`App.tsx:478`), so pages that changed
  places carry each other's text.

## 5. How the modules fit together

`BlobQueue` implements `MailBox` (`ImplementsMailBox`, checked and proved). The
mapping: a place holds the account and device of its row, `old` is the set of
expired rows, `asking` the accounts of the desktops between authentication and
answer. `Delivery` then uses `MailBox` in place of the server, restricted to one
account and to no sweep: every step it takes is `Deposit`, `Take` or `DropDevice`
of the box. `Delivery` in turn implements `Courier`, in which a page is captured,
kept, queued, noted or dropped, and no step loses it.

`PhoneStore` details what `Delivery` has as `state` and `shown`, and does not implement
it: an update of the manifest that is lost is no step of `Delivery`. `NoPageLost` is
about pages the phone stopped sending because it was answered; that a page may drop off
the phone's list unsent is finding 5, and that its photograph stays is `OnlyCopyIsKept`.

The modules of the desktop detail what `Delivery` takes as one step or as data: `Notes` and
`Crops` its refresh and what a note says, `Vault` its tree and notes, `Review` its drafts
and the windows around them. They are joined by what they promise and not by a mapping: a
step of `Notes` is no step of `Delivery`, and `Vault` adds people `Delivery` leaves out.
`ReleasedOnlyWhenCommitted` of `Delivery` says that an ack comes after its commit;
`AckedNotesAreInHistory` says that the commit stays. `Research` is what `Notes` calls a
search, and `Setup` and `Models` come before the first refresh.

## 6. Proofs

All theorems hold for every value of the constants. They rest on nothing but the
constants' assumptions: `LimitsAssumption` (the limits are numbers, tokens live at
least one tick), `MarkersAssumption` and the marker part of `DeliveryAssumption`
(`NoRow`, `NoPage`, ... are not values of the kind they mark), `SessionOf` is a
function, the fault budget `MaxFaults` is a number, any number, and the assumptions of the
desktop's modules (`NotesAssumption`: there are finitely many terms and the settings are numbers;
`VaultAssumption`: notes and other files have different paths; `ResearchAssumption`,
`SetupAssumption`, `ModelsAssumption`: markers are not values, limits are numbers, there is a
day after the first; `CropsAssumption`: see section 2; `ReviewAssumption`: there are finitely
many photographs, and the feedback at first has a page once and no more than its limit).

**`BlobQueueProofs`.** `TypeOK` is inductive as it stands. The promises about
phones and tokens are not: that a phone keeps its desktop depends on why a desktop
cannot be revoked, which depends on `register-pc` always making a new account, on
ids never being reused, and on what a handler may still believe of a device row it
read before. `RegistryInv` is the conjunction of those facts
(`RetiredAreGone`, `DesktopsRuleAlone`, `TokensComeFromDesktops`, `TokensAreSpent`,
`CallersAreKnown` and the two promises) and is inductive (`RegistryKept`, one step
per action, one part at a time). Its consequences: `PhonesKeepTheirDesktop`,
`TokensBuyOneDevice`, and, with the effect of each action on rows and files
(`BlobSteps`, `UploadStep`), `RowsHaveTheirFile`, `RowsHaveTheirDevice` and the
action property `PagesNeverVanish`. `QuotaAlwaysHolds` is about a sum over rows:
`QuotaInv` adds that there are finitely many rows, whatever the ids. Rows that go make room
(`DeletionMakesRoom`), and an upload adds one row of a size that was weighed against the sum in
the same step. Sums are unfolded by the lemmas `Total...` of `InductionLemmas`.

`ServerImplementsMailBox` is the refinement: a lemma for each kind of
step (`BoxDeposit`, `BoxTake`, `BoxExpire`, `BoxDrop`, `BoxAsk`, `BoxAge`,
`BoxQuiet`) shows that it is a step of the box, torn and crashed versions included.
`CallersAreKnown` is needed for one of them: a revocation drops only pages of the
desktop's own account.

**`DeliveryProofs`.** The inductive invariant is `DeliveryInv`. Its heart is
`SettledGrows`: a page that is on the server, in a committed note or discarded with
its phone never stops being so, because an acknowledgement only leaves an approval
that is past its commit (`CommitsAreReal`). A run's good answer is true when it is
given and so stays true until the run acts on it (`AnswersAreTrue`), and it is the
answer to the page the run waits for, because a run has one request at a time and
an abandoned request answers nobody (`OneRequestPerRun`). `FetchIsAccountedFor`
carries the same fact through a refresh that ends long after the pages it fetched
have gone. From it: `NoPageIsLost`, `DraftsAlwaysAccountedFor` and
`ReleasedWhenCommitted`. `PathsNameOneNote` is inductive by itself: the look at the
path and the writes are one step, and commits and the owner only move files.

**`DeliveryRefinement`.** `DeliveryImplementsCourier`, with two more invariants:
only pages that were photographed travel (`OnlyCapturedTravels`), and what an
approval works on or has left in the tree can be accounted for
(`NotesAreAccountedFor`). Then the phone's steps are `Capture`, `Settle` and
`Recall`, the server's `Deposit`, the service's and the owner's `Note`, `Release`
and `Drop`, and every other step leaves the courier's pages alone. `NothingIsLost`
restates the promise in the courier's words.

**`PhoneStoreProofs`.** `StoreInv` adds to the types that a change in flight already has
the server's answer for what it will call uploaded and for what it will delete
(`ChangesAreTrue`): `planPrune` names only pages its copy calls uploaded
(`EvictedAreUploaded`), and a copy, however stale, was true when it was read and
answers are not taken back. From it `UploadedIsAlwaysTrue` and `OnlyCopyIsAlwaysKept`,
for any sizes, limits, clocks and any number of changes in flight. `PlacesInv` is the
argument about places: every page that any memory of the app may bring up again
(`Known`) or that is being added (`Live`) was photographed and has its place alone;
known pages of the mounted screen's session lie before its counter, and the one shot on
its way has the counter itself, with the shutter disabled. From it
`PlacesAlwaysUnique`. They rest on `StoreAssumption`: there are finitely many pages,
sizes and limits are numbers, markers are not values. `PlanIsAlwaysExact` is about the loop
of `planPrune`, a recursion from the newest page to the oldest: `TimesApart` (no two captures
have the same time, since each is stamped with the count of those before) makes the pages a chain,
on which the recursion has one solution (`ChainExists`), and `CountedIsBytes` shows along it
that the running sum is the bytes of the newer pages that stay.

**`VaultProofs`.** The argument is that both histories only grow: `FastForward` sets the
remote to a branch that contains it, `Replay` adds to the branch, an abort touches the tree
only. What an approval has committed, and what a push owes, were in the branch at some
moment and so still are; at `PushAccepted` the remote becomes that branch. `VaultInv` says
this of every stage after the commit and of every result. From it `AckedAlwaysInHistory`
and `PushedAlwaysThere`; `NoCommitIsLost` is the growing itself. Crashes, stopped rebases and
the user's commands are steps like any other.

**`NotesProofs`.** `NotesInv` adds to the types: where the loop stands is a page whose text
is usable (`AtAPage`, by `LeastOf`: a nonempty set of page numbers has a least element), the
terms to do are of the page it stands at (`HalfExplained`), an explained term was taken up
before and is not to do again (`ExplainedIsSeen`), and every outcome is `Sound`: the confidence it was given goes
with the doubts it remembers. `ExplainedOnce` is of two outcomes at a time, of which at
most one is new. `RecordIsKept` holds of the state after `Approve`, and no step but another
approval touches the note.

**`DesktopProofs`.** For `Research`, what a day is charged is covered by what the file says of
it, days to come are charged nothing, and the day a query is under way for has room for
one more (`ChargesCovered`): so a query sent before midnight and answered after it is spent
on the new day and charged to the old one without going over either. For `Models`, there is
one stream at a time and no outcome while there is one (`OneStream`). For `Setup`, a handler
that registers has the keys on disk, since keys are written only where there are none and
`LoseFiles` waits for handlers; a phrase that is shown was made for this window, which is at
its recovery step. That the cache has each term once (`ResearchTypeCorrect`) is a fact about
the filter of `Remember`: what is kept comes from different places of a list that had each
term once.

For `Crops`, `CropsInv` says that every padded band contains its box with the padding to
spare (`BandsShow`), and that every box merged so far lies in a kept band (`KeptShow`).
`dropOverlapping` either skips a band that is kept already or replaces a kept one by the hull of both, and hulls
only grow (`HullShows`). Of the two roundings of a cut each moves an edge by less than a
pixel of its own scale, and the padding is at least one pixel of the smaller
(`PaddedShows`, `ScaledShows`): `DetectedIsAlwaysCropped`, for all boxes and sizes. The
products are isolated in steps with few facts, where the arithmetic solver finds them.

For `Review`, the file is compared with a history of all reviews, by counting. The invariant is
easier to keep when it lists instead: `OnRecord` says that there is an increasing list `e` of
the reviews that no later one of their page replaces, and that the file has the last
`MaxRecords` of them (`Latest`). One more review appends to `e` and takes the earlier review of
the page out, wherever it is, or finds none, in the file or only in the history
(`NewPage`, `PageAgain`); an approval is a run of such reviews (`RunIsLatest`, an induction
along the pages of the draft). At the end `LatestIsCounted` returns from the list to the
counts of `FeedbackIsTheLatest`. The types of `Review` need that no two drafts are of one
lecture (`DraftsApart`), so that a status never counts more drafts than there are lectures.

`PartsBehave` puts the parts together as `MCDesktop` does: a step of the desktop is a step of
one part and leaves the others, so each behaves as its own specification says, and
`DesktopTypeCorrect` follows from the types of the parts.

**Left to TLC.** The liveness properties (`RefreshEnds`, `UploadEnds`, `OwnerGetsEveryPage`,
`CollectEnds`), which rest on fairness: the prover has no rules for it. Every safety invariant
and every action property that a passing run checks is a theorem. Induction over data is done
by descent (`InductionLemmas`): the library's induction theorems take an operator, which none
of the provers can instantiate, so the claims are about least counterexamples, in sets of
numbers or of finite sets. The composition `Delivery` with `BlobQueue` in place of `MailBox`
is not checked as one model: `ServerImplementsMailBox` and the use of `MailBox`'s actions in
`Delivery` stand for it.

## 7. Not modelled

* **Cryptography and imaging**: pure functions of bytes. That a sealed page can be opened by
  its desktop only is assumed, and a page that cannot be opened fails its refresh (`RefreshFails`).
* **Formatting, sanitising, arithmetic** (`format.ts`, `sanitize.ts`, `arithmetic.ts`, the word
  statistics of `clean.ts` and `expand.ts`): pure functions of strings, whose results are free
  choices in `Notes`. Their unit tests reach further than a small set of strings would.
* **Single settings and the glossary** (`PUT /api/config`, the merge of an approval's
  corrections): data that no property tells apart; the stale write is noted in section 4.
* **Layout, the device list, the launcher, the installer, the corpus tools**: no state that
  another part depends on. The launcher starts the service and opens a window, which are
  `KillDesktop` and `OpenWindow` as far as the models can tell.
* **Schemas and signatures**: a request that fails them changes nothing.

Worth doing next: a refinement from `Vault` and `Review` to the tree and the drafts of
`Delivery`, once `Delivery` has the user's commits; and `Delivery` with the server's refusals
of a size or a quota, which `QuotaAlwaysHolds` is about.
