------------------------------- MODULE Review -------------------------------
(***************************************************************************)
(* Reviewing drafts: what the windows of the dashboard show (ui App.tsx    *)
(* Dashboard, Preview, Devices), the service that holds the drafts in      *)
(* memory (api.ts), and what an approval tells of the pages that were      *)
(* reviewed (feedbackStore.ts).                                            *)
(*                                                                         *)
(* A window polls the status and loads the drafts when their NUMBER has    *)
(* changed, or after a refresh or an approval of its own.  A preview takes *)
(* the text of the pages when it is opened, and sends it for the pages     *)
(* that the draft has when it is approved.  Meanwhile another window, or   *)
(* this one after it was reloaded, refreshes and approves.                 *)
(*                                                                         *)
(* The drafts of a lecture are the photographs of it, in their order.      *)
(* Left out: the server's and the vault's own state (Delivery, Vault),     *)
(* what the text is (Notes), titles, and corrections of words.             *)
(***************************************************************************)
EXTENDS Places

CONSTANTS
    Reader,        \* windows
    MaxApprovals,  \* bound of the model: the approvals that run at once
    Photo,         \* numbers, in the order they were taken
    TakenIn,       \* TakenIn[p]: the lecture of photo p
    NoLecture,
    MaxRecords,    \* MAX_RECORDS of the feedback
    Earlier,       \* the reviews that feedback.json has at first
    MaxUploads     \* bound of the model: uploads, of a photo once or again

Handler == 1 .. MaxApprovals

Lecture == {TakenIn[p] : p \in Photo}

ASSUME ReviewAssumption ==
    /\ Photo \subseteq Nat /\ IsFiniteSet(Photo)
    /\ TakenIn \in [Photo -> Lecture]
    /\ NoLecture \notin Lecture
    /\ MaxRecords \in Nat \ {0}
    /\ Earlier \in Seq([photo : Photo, verdict : {"good", "bad"}])
    /\ Len(Earlier) <= MaxRecords
    /\ \A i, j \in 1 .. Len(Earlier) : i # j => Earlier[i].photo # Earlier[j].photo
    /\ {MaxApprovals, MaxUploads} \subseteq Nat

Draft == (SUBSET Photo) \ {{}}
Opinion == {"good", "bad"}      \* of the reader; of all pages of a draft alike

\* A page of a note: its photograph, and whether the preview that was approved showed it.
NotePage == [photo : Photo, shown : BOOLEAN]

VARIABLES
    held,       \* the photographs on the server
    uploads,    \* how many came there, again or for the first time
    drafts,     \* the drafts of the service
    refreshing, \* a refresh is running: the photographs it was told of
    listed,     \* each window's drafts
    count,      \* the number of drafts in its last status
    news,       \* whether that status had photographs that are in no draft
    open,       \* the lecture whose preview is open
    pages,      \* the pages whose text the preview took, in their order
    waits,      \* whether the window waits for the end of a refresh
    stale,      \* it is about to load the drafts
    approving,  \* the approvals in the service: the draft, what was sent, and for whom
    written,    \* the pages of all notes
    records,    \* feedback.json: the reviews of pages, newest last
    log         \* history: all reviews, the dropped and the replaced ones too

service == <<drafts, refreshing, approving>>
window == <<listed, count, news, open, pages, waits, stale>>
feedback == <<records, log>>
reviewVars == <<held, uploads, service, window, written, feedback>>

\* by is the window that waits for the answer, if it still does; locks is that window as
\* long as the preview that asked is there, with its buttons disabled.
Approval == [draft : Draft, shown : Draft, verdict : Opinion, by : SUBSET Reader,
             locks : SUBSET Reader]

ReviewTypeOK ==
    /\ held \subseteq Photo
    /\ uploads \in 0 .. MaxUploads
    /\ drafts \subseteq Draft
    /\ \A d1, d2 \in drafts, p \in Photo : p \in d1 \cap d2 => d1 = d2
    /\ refreshing \in SUBSET (SUBSET Photo) /\ Cardinality(refreshing) <= 1
    /\ listed \in [Reader -> SUBSET Draft]
    /\ count \in [Reader -> 0 .. Cardinality(Lecture)]
    /\ news \in [Reader -> BOOLEAN]
    /\ open \in [Reader -> Lecture \cup {NoLecture}]
    /\ pages \in [Reader -> SUBSET Photo]
    /\ waits \in [Reader -> BOOLEAN]
    /\ stale \in [Reader -> BOOLEAN]
    /\ approving \in [Handler -> SUBSET Approval]
    /\ \A h \in Handler : Cardinality(approving[h]) <= 1
    /\ written \subseteq NotePage
    /\ records \in Seq([photo : Photo, verdict : Opinion])
    /\ Len(records) <= MaxRecords
    /\ log \in Seq([photo : Photo, verdict : Opinion])

ReviewInit ==
    /\ held = {}
    /\ uploads = 0
    /\ drafts = {}
    /\ refreshing = {}
    /\ listed = [w \in Reader |-> {}]
    /\ count = [w \in Reader |-> 0]
    /\ news = [w \in Reader |-> FALSE]
    /\ open = [w \in Reader |-> NoLecture]
    /\ pages = [w \in Reader |-> {}]
    /\ waits = [w \in Reader |-> FALSE]
    /\ stale = [w \in Reader |-> TRUE]
    /\ approving = [h \in Handler |-> {}]
    /\ written = {}
    /\ records = Earlier
    /\ log = Earlier
-----------------------------------------------------------------------------
(* Helpers *)

Set(f, w, v) == f' = [f EXCEPT ![w] = v]

\* groupBySession: one draft for each lecture.
Grouped(photos) == {{p \in photos : TakenIn[p] = l} : l \in Lecture} \ {{}}

OfLecture(ds, l) == {d \in ds : \E p \in d : TakenIn[p] = l}

\* The draft a window shows in its preview, if it has it.
Current(ds, w) == OfLecture(ds, open[w])

\* The preview of the window has approved, and its buttons are disabled.
AwaitsApproval(w) == \E h \in Handler : \E a \in approving[h] : w \in a.locks

\* The previews of these windows are gone, and with them what they had disabled.
Unlocked(as, gone) == {[a EXCEPT !.locks = @ \ gone] : a \in as}

\* A request takes the first handler that is free: they are all alike.
FirstFree(h) == approving[h] = {} /\ \A g \in Handler : g < h => approving[g] # {}

\* Preview.approve sends, for the i-th page of the draft, the i-th text it took.
EveryPageHasText(d, taken) == \A p \in d : \E q \in taken : Place(q, taken) = Place(p, d)
-----------------------------------------------------------------------------
(* The windows *)

\* GET /api/status, every few seconds: the drafts are loaded when their number changed.
PollDashboard(w) ==
    /\ Set(count, w, Cardinality(drafts))
    /\ Set(news, w, held \ UNION drafts # {})
    /\ Set(stale, w, stale[w] \/ count[w] # Cardinality(drafts))
    /\ UNCHANGED <<held, uploads, service, listed, open, pages, waits, written, feedback>>

\* GET /api/drafts.  A preview whose draft is gone is closed with what was typed into it,
\* and one that is there again begins anew, with its buttons enabled although an approval may
\* be under way; any other keeps its text.
LoadDrafts(w) ==
    /\ stale[w]
    /\ Set(stale, w, FALSE)
    /\ Set(listed, w, drafts)
    /\ Set(pages, w, IF Current(drafts, w) = {} THEN {}
                     ELSE IF pages[w] = {} THEN UNION Current(drafts, w) ELSE pages[w])
    /\ approving' = [h \in Handler |-> IF Current(drafts, w) = {} THEN Unlocked(approving[h], {w})
                                       ELSE approving[h]]
    /\ UNCHANGED <<held, uploads, drafts, refreshing, count, news, open, waits, written, feedback>>

OpenPreview(w, d) ==
    /\ d \in listed[w]
    /\ Current(listed[w], w) = {}
    /\ Set(open, w, TakenIn[CHOOSE p \in d : TRUE])
    /\ Set(pages, w, d)
    /\ UNCHANGED <<held, uploads, service, listed, count, news, waits, stale, written, feedback>>

ClosePreview(w) ==
    /\ pages[w] # {}
    /\ ~AwaitsApproval(w)
    /\ Set(open, w, NoLecture)
    /\ Set(pages, w, {})
    /\ UNCHANGED <<held, uploads, service, listed, count, news, waits, stale, written, feedback>>

\* The window is reloaded, and shows the dashboard when it has a status: what the service
\* does for it goes on.
ReloadWindow(w) ==
    /\ Set(listed, w, {})
    /\ Set(count, w, Cardinality(drafts))
    /\ Set(news, w, held \ UNION drafts # {})
    /\ Set(open, w, NoLecture)
    /\ Set(pages, w, {})
    /\ Set(waits, w, FALSE)
    /\ Set(stale, w, TRUE)
    /\ approving' = [h \in Handler |->
                        {[a EXCEPT !.by = @ \ {w}, !.locks = @ \ {w}] : a \in approving[h]}]
    /\ UNCHANGED <<held, uploads, drafts, refreshing, written, feedback>>
-----------------------------------------------------------------------------
(* Refreshing *)

\* POST /api/refresh: beside one that is running it only says so.
PressRefresh(w) ==
    /\ ~waits[w]
    /\ news[w]
    /\ IF refreshing = {}
       THEN refreshing' = {held} /\ Set(waits, w, TRUE) /\ UNCHANGED stale
       ELSE Set(stale, w, TRUE) /\ UNCHANGED <<refreshing, waits>>
    /\ UNCHANGED <<held, uploads, drafts, approving, listed, count, news, open, pages,
                   written, feedback>>

\* It ends with drafts of all it was told of, or breaks and leaves those there are.  The
\* window that began it, if it still waits, is answered, and loads the drafts if it did not
\* break.
EndOfRefresh(drafts2, loading) ==
    /\ drafts' = drafts2
    /\ refreshing' = {}
    /\ stale' = [w \in Reader |-> stale[w] \/ w \in loading]
    /\ waits' = [w \in Reader |-> FALSE]
    /\ UNCHANGED <<held, uploads, approving, listed, count, news, open, pages, written, feedback>>

RefreshSucceeds ==
    \E photos \in refreshing :
        EndOfRefresh(Grouped(photos), {w \in Reader : waits[w]})
RefreshBreaks == refreshing # {} /\ EndOfRefresh(drafts, {})
-----------------------------------------------------------------------------
(* Approving *)

\* POST /api/drafts/:sessionId/approve.  It is refused when a page has no text, and when
\* the service has no draft of the lecture; otherwise the handler works on the draft that
\* the service has then.
PressApprove(w, h, verdict) ==
    /\ pages[w] # {}
    /\ ~AwaitsApproval(w)
    /\ FirstFree(h)
    /\ \E d \in Current(listed[w], w), mine \in Current(drafts, w) :
          /\ EveryPageHasText(d, pages[w])
          /\ Set(approving, h, {[draft |-> mine, shown |-> d, verdict |-> verdict,
                                 by |-> {w}, locks |-> {w}]})
    /\ UNCHANGED <<held, uploads, drafts, refreshing, window, written, feedback>>

\* mutant: an earlier review of the page is kept beside the new one
Added(rs, p, verdict) == Append(rs, [photo |-> p, verdict |-> verdict])

\* appendFeedback: in the place of an earlier review of the page, and the newest only.
Appended(rs, p, verdict) ==
    LET others == {i \in 1 .. Len(rs) : rs[i].photo # p}
        all == Append(Those(others, rs), [photo |-> p, verdict |-> verdict])
    IN  IF Len(all) > MaxRecords THEN SubSeq(all, Len(all) - MaxRecords + 1, Len(all)) ELSE all

\* The reviews of the pages of a draft, one after the other.
Reviewed(rs, d, verdict) ==
    LET after[n \in 0 .. Cardinality(d)] ==
            IF n = 0 THEN rs
            ELSE Appended(after[n - 1], AtPlace(n, d), verdict)
    IN  after[Cardinality(d)]

\* The note is committed and its photographs are released; whatever draft of the lecture
\* there is now goes, and the pages that were sent are on record.  The window that waits
\* closes its preview and loads the drafts.
ApprovalSucceeds(h) ==
    \E a \in approving[h] :
        LET sent == a.draft \cap a.shown
        IN  /\ written' = written \cup
                   {[photo |-> p, shown |-> p \in a.shown] : p \in a.draft}
            /\ held' = held \ a.draft
            /\ drafts' = drafts \ {d \in drafts : \E p \in d : \E q \in a.draft : TakenIn[p] = TakenIn[q]}
            /\ records' = Reviewed(records, sent, a.verdict)
            /\ log' = log \o [n \in 1 .. Cardinality(sent) |->
                                 [photo |-> AtPlace(n, sent), verdict |-> a.verdict]]
            /\ approving' = [g \in Handler |-> IF g = h THEN {} ELSE Unlocked(approving[g], a.by)]
            /\ open' = [w \in Reader |-> IF w \in a.by THEN NoLecture ELSE open[w]]
            /\ pages' = [w \in Reader |-> IF w \in a.by THEN {} ELSE pages[w]]
            /\ stale' = [w \in Reader |-> stale[w] \/ w \in a.by]
            /\ UNCHANGED <<uploads, refreshing, listed, count, news, waits>>

\* The vault or the server refuses: the drafts and the preview stay.
ApprovalFails(h) ==
    /\ approving[h] # {}
    /\ Set(approving, h, {})
    /\ UNCHANGED <<held, uploads, drafts, refreshing, window, written, feedback>>
-----------------------------------------------------------------------------
(* Around them *)

\* A phone uploads a page, or one again whose answer it did not get.
UploadPhoto(p) ==
    /\ p \notin held
    /\ uploads < MaxUploads
    /\ held' = held \cup {p}
    /\ uploads' = uploads + 1
    /\ UNCHANGED <<service, window, written, feedback>>

\* DELETE /api/devices/:id: its photographs are gone, and all drafts.
RevokePhone ==
    /\ held' = {}
    /\ drafts' = {}
    /\ UNCHANGED <<uploads, refreshing, approving, window, written, feedback>>

\* The service is killed, and with it what it has in memory.
KillDesktop ==
    /\ drafts' = {}
    /\ refreshing' = {}
    /\ approving' = [h \in Handler |-> {}]
    /\ waits' = [w \in Reader |-> FALSE]
    /\ UNCHANGED <<held, uploads, listed, count, news, open, pages, stale, written, feedback>>

ReviewNext ==
    \/ \E w \in Reader :
          \/ PollDashboard(w) \/ LoadDrafts(w) \/ ClosePreview(w) \/ ReloadWindow(w)
          \/ \E d \in listed[w] : OpenPreview(w, d)
          \/ PressRefresh(w)
          \/ \E h \in Handler, verdict \in Opinion : PressApprove(w, h, verdict)
    \/ \E h \in Handler : ApprovalSucceeds(h) \/ ApprovalFails(h)
    \/ RefreshSucceeds \/ RefreshBreaks
    \/ \E p \in Photo : UploadPhoto(p)
    \/ RevokePhone \/ KillDesktop

ReviewSpec == ReviewInit /\ [][ReviewNext]_reviewVars
-----------------------------------------------------------------------------
(* Properties *)

\* What feedback.json says of the pages is what the reader said of them last: of the reviews
\* that no later one of the same page replaces it has the newest, in their order.  Two
\* approvals may be in the service at once, and a page that is uploaded again is reviewed
\* again (feedbackStore.ts:44-63).
FeedbackIsTheLatest ==
    LET last == {i \in 1 .. Len(log) : \A j \in i + 1 .. Len(log) : log[j].photo # log[i].photo}
        newest == {i \in last : Cardinality({j \in last : j >= i}) <= MaxRecords}
    IN  /\ Len(records) = Cardinality(newest)
        /\ \A i \in newest : records[Cardinality({j \in newest : j <= i})] = log[i]

\* "CLAUDE.md rule 7: nothing reaches the vault without a human" (pipeline.ts:5-6): every
\* page of a note was in the preview that was approved.  Not so: an approval names the
\* lecture and not the pages, so it is for the draft that the service has by then
\* (api.ts:653-676), and a window that shows an earlier one of the same lecture learns of
\* the change only from the number of drafts (App.tsx:299).
NothingUnseenIsWritten == \A page \in written : page.shown
=============================================================================
