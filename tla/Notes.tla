------------------------------- MODULE Notes --------------------------------
(***************************************************************************)
(* From the photographs of one session to the note in the vault: what      *)
(* collectDrafts (agent pipeline.ts) does with the pages it fetched, what  *)
(* the models may answer, what the preview lets the reader change, and the *)
(* note that is rendered from it.                                          *)
(*                                                                         *)
(* A page is transcribed (transcribe.ts), tidied (clean.ts, complete.ts),  *)
(* and its terms are explained (expand.ts, evidence.ts).  Every step is    *)
(* one call of a model, whose answer is any of the kinds of answer the     *)
(* code tells apart, or no answer at all.                                  *)
(*                                                                         *)
(* Left out: the texts themselves, what decides that a text is degenerate, *)
(* captured or too long, sums and titles; the drawings (Crops); the search *)
(* (Research); fetching, approving and releasing the pages (Delivery).     *)
(***************************************************************************)
EXTENDS Integers, FiniteSets, FiniteSetsExt

CONSTANTS
    Last,         \* the pages of the session are 1 .. Last
    Term, NoWork,
    Written,      \* Written[p]: the terms on page p, give or take a corrected spelling
    Bold,         \* Bold[p]: those that are underlined
    General,      \* words too general to be explained
    Hostile,      \* pages with an instruction aimed at a model
    PerPage,      \* expansion.maxTermsPerNote, which holds for each page
    Samples,      \* expansion.samples
    Modes         \* "off", "model", "research": what the settings allow

Page == 1 .. Last
Rungs == 1 .. 2            \* of both ladders: PROMPT_LADDER, and unguarded or guarded

Confidence == {"high", "low", "unsupported", "disputed", "contradicted", "refused", "sourced"}

\* An Expansion, and for reference what was found out on the way: whether the model
\* explained the term itself, whether that contradicts the page, whether a source argues
\* against it, and whether the samples wavered.
Outcome == [term : Term, page : Page, confidence : Confidence, cited : BOOLEAN, own : BOOLEAN,
            contradicts : BOOLEAN, against : BOOLEAN, wavers : BOOLEAN]

\* What is known of the term at work.
Work == [term : Term, partial : BOOLEAN, many : BOOLEAN, contradicts : BOOLEAN, unstable : BOOLEAN]

ASSUME NotesAssumption ==
    /\ {Last, PerPage, Samples} \subseteq Nat \ {0}
    /\ Written \in [Page -> SUBSET Term]
    /\ Bold \in [Page -> SUBSET Term]
    /\ \A p \in Page : Bold[p] \subseteq Written[p]
    /\ IsFiniteSet(Term)
    /\ Hostile \subseteq Page
    /\ Modes \subseteq {"off", "model", "research"}
    /\ NoWork \notin Work

\* A page as the note shows it, always with its photograph.
Shown == [page : Page, body : {"none", "written", "edited", "tidied"},
          quote : {"none", "written", "edited"}, warning : BOOLEAN]

VARIABLES
    at,       \* where the refresh is
    allowed,  \* what the settings allowed when it began
    page,     \* the page it is at
    rung,     \* the rung of the ladder it is on
    read,     \* how each transcription came out
    tidy,     \* and each tidy-up
    seen,     \* the terms taken up on this page and earlier ones
    terms,    \* the terms of this page still to explain
    work,     \* the term at work
    out,      \* what is explained on this page: expandTerms' result so far
    all,      \* what is explained on the pages before it
    error,    \* expansionError is set
    text,     \* the text of each page when the note was approved
    note      \* the pages of the approved note

reading == <<read, tidy>>
explaining == <<seen, terms, work, out, all, error>>
approved == <<text, note>>
notesVars == <<at, allowed, page, rung, reading, explaining, approved>>

NotesTypeOK ==
    /\ at \in {"idle", "reading", "tidying", "terms", "draft", "gate", "weigh", "sources",
               "ready", "failed", "approved"}
    /\ allowed \in Modes
    /\ page \in 1 .. Last + 1
    /\ rung \in Rungs
    /\ read \in [Page -> {"unread", "text", "blank", "garbled"}]
    /\ tidy \in [Page -> {"none", "tidied", "completed", "kept"}]
    /\ seen \subseteq Term
    /\ terms \subseteq seen
    /\ work \in Work \cup {NoWork}
    /\ work = NoWork <=> at \notin {"gate", "weigh", "sources"}
    /\ out \subseteq Outcome
    /\ all \subseteq Outcome
    /\ error \in BOOLEAN
    /\ text \in [Page -> {"none", "written", "edited"}]
    /\ note \subseteq Shown

NotesInit ==
    /\ at = "idle"
    /\ allowed \in Modes
    /\ page = 1
    /\ rung = 1
    /\ read = [p \in Page |-> "unread"]
    /\ tidy = [p \in Page |-> "none"]
    /\ seen = {}
    /\ terms = {}
    /\ work = NoWork
    /\ out = {}
    /\ all = {}
    /\ error = FALSE
    /\ text = [p \in Page |-> "none"]
    /\ note = {}

\* The first page after p whose transcript is worth tidying and explaining, or Last + 1:
\* failed pages are excluded, and so are empty ones.
NextUsable(r, p) == Min({q \in Page : q > p /\ r[q] = "text"} \cup {Last + 1})
-----------------------------------------------------------------------------
(* Transcription *)

\* POST /api/refresh, and expansionFor the settings of that moment.  What an earlier
\* refresh made of the pages is not kept.
Refresh ==
    /\ at \in {"idle", "failed", "ready"}
    /\ allowed' \in Modes
    /\ at' = "reading"
    /\ page' = 1
    /\ rung' = 1
    /\ read' = [p \in Page |-> "unread"]
    /\ tidy' = [p \in Page |-> "none"]
    /\ seen' = {}
    /\ all' = {}
    /\ error' = FALSE
    /\ UNCHANGED <<terms, work, out, approved>>

\* The refresh waits for the vision model, which may be unreachable or take too long.
AskingVision == at = "reading"

\* A page that cannot be downloaded or opened throws, and so does the model: nothing
\* catches it, and the refresh is lost.
RefreshFails ==
    /\ AskingVision
    /\ at' = "failed"
    /\ UNCHANGED <<allowed, page, rung, reading, explaining, approved>>

\* After a page, the next one; after the last, tidying if the settings allow it.
PageRead(result) ==
    /\ read' = [read EXCEPT ![page] = result]
    /\ rung' = 1
    /\ page' = IF page < Last THEN page + 1 ELSE NextUsable(read', 0)
    /\ at' = IF page < Last THEN at
             ELSE IF allowed = "off" \/ page' > Last THEN "ready" ELSE "tidying"

\* The vision model's answer has nothing degenerate: an empty one neither.
Transcribed ==
    /\ AskingVision
    /\ \E result \in {"text", "blank"} : PageRead(result)
    /\ UNCHANGED <<allowed, tidy, explaining, approved>>

\* It has: the next prompt of the ladder, and after the last one the page has failed.
Degenerate ==
    /\ AskingVision
    /\ IF rung = 1 THEN rung' = 2 /\ UNCHANGED <<at, page, read>> ELSE PageRead("garbled")
    /\ UNCHANGED <<allowed, tidy, explaining, approved>>
-----------------------------------------------------------------------------
(* Tidying *)

PageTidied(result) ==
    LET next == NextUsable(read, page)
    IN  /\ tidy' = [tidy EXCEPT ![page] = result]
        /\ rung' = 1
        /\ page' = IF next > Last THEN NextUsable(read, 0) ELSE next
        /\ at' = IF next > Last THEN "terms" ELSE at

\* completeOpenLists fills in the lists of the tidied text that trail off, or leaves them.
Completions == {"tidied", "completed"}

\* The tidied text passes every check.
Tidied ==
    /\ at = "tidying"
    /\ \E result \in Completions : PageTidied(result)
    /\ UNCHANGED <<allowed, read, explaining, approved>>

\* It is too long, repeats itself, drops too much, is empty, or there is none: the page
\* stays as it was written.
NotTidied ==
    /\ at = "tidying"
    /\ PageTidied("kept")
    /\ UNCHANGED <<allowed, read, explaining, approved>>

\* What tells that an answer follows an instruction of the page finds one there only.
MayCapture(p) == p \in Hostile

\* mutant: a captured answer is asked for again without end
CapturedAgain ==
    /\ at = "tidying"
    /\ MayCapture(page)
    /\ rung' = 3 - rung
    /\ UNCHANGED <<at, allowed, page, reading, explaining, approved>>

\* The answer follows an instruction on the page: once more, with a prompt that names it.
Captured ==
    /\ at = "tidying"
    /\ MayCapture(page)
    /\ rung = 1
    /\ rung' = 2
    /\ UNCHANGED <<at, allowed, page, reading, explaining, approved>>
-----------------------------------------------------------------------------
(* Explaining *)

\* expandTerms is done with the page; these are all its outcomes.
PageExplained(outcomes) ==
    /\ page' = NextUsable(read, page)
    /\ at' = IF page' > Last THEN "ready" ELSE "terms"
    /\ all' = all \cup outcomes
    /\ out' = {}

\* mutant: a term of an earlier page is explained again
AllTerms(chosen) == chosen

Unseen(chosen) == chosen \ seen

\* What the model may name: it is on the page, or nearly, and not too general.
Listable(p) == Written[p] \ (Bold[p] \cup General)

\* The underlined terms come first, as many as fit, and the model fills up.
ChooseTerms ==
    /\ at = "terms"
    /\ \E marked \in SUBSET Bold[page], listed \in SUBSET Listable(page) :
          /\ Cardinality(marked) = Min({PerPage, Cardinality(Bold[page])})
          /\ Cardinality(marked \cup listed) <= PerPage
          /\ terms' = Unseen(marked \cup listed)
    /\ seen' = seen \cup terms'
    /\ IF terms' = {} THEN PageExplained({}) ELSE at' = "draft" /\ UNCHANGED <<page, all, out>>
    /\ UNCHANGED <<allowed, rung, reading, work, error, approved>>

\* expandTerm returns.
Explained(outcome) ==
    /\ terms' = terms \ {outcome.term}
    /\ work' = NoWork
    /\ IF terms' = {}
       THEN PageExplained(out \cup {outcome})
       ELSE at' = "draft" /\ out' = out \cup {outcome} /\ UNCHANGED <<page, all>>
    /\ UNCHANGED <<allowed, rung, reading, seen, error, approved>>

Refused(t) ==
    [term |-> t, page |-> page, confidence |-> "refused", cited |-> FALSE, own |-> FALSE,
     contradicts |-> FALSE, against |-> FALSE, wavers |-> FALSE]

GoOn(step, w) ==
    /\ at' = step
    /\ work' = w
    /\ UNCHANGED <<allowed, page, rung, reading, seen, terms, out, all, error, approved>>

\* The model drafts an explanation several times.  If each time it does not know the term,
\* the sources may explain it; if what it says is captured each time, nothing may.
DraftTerm(t, answered, clean) ==
    LET w == [term |-> t, partial |-> clean < Samples, many |-> answered >= 2,
              contradicts |-> FALSE, unstable |-> FALSE]
    IN  /\ at = "draft"
        /\ IF answered = 0 /\ allowed = "research" THEN GoOn("sources", w)
           ELSE IF clean = 0 THEN Explained(Refused(t))
           ELSE GoOn("gate", w)

\* judge: what the snippets say together.
Verdict(supports, refutes) ==
    CASE supports /\ refutes -> "mixed"
      [] supports /\ ~refutes -> "supported"
      [] ~supports /\ refutes -> "refuted"
      [] OTHER -> "unverified"

\* mutant: a refutation deletes what the page does not contradict
VetoedConfidence(contradicts, verdict, wavers) ==
    CASE contradicts /\ verdict = "supported" -> "disputed"
      [] contradicts \/ verdict = "refuted" -> "contradicted"
      [] verdict = "mixed" -> "unsupported"
      [] OTHER -> IF wavers THEN "low" ELSE "high"

\* mutant: support by a source settles that the samples differ
SettledConfidence(contradicts, verdict, wavers) ==
    CASE contradicts /\ verdict = "supported" -> "disputed"
      [] contradicts -> "contradicted"
      [] verdict \in {"refuted", "mixed"} -> "unsupported"
      [] OTHER -> IF wavers /\ verdict # "supported" THEN "low" ELSE "high"

\* combine: the page has a veto unless the sources support what it contradicts; the
\* sources have a vote.  No search and a search that finds nothing come to the same.
CombinedConfidence(contradicts, verdict, wavers) ==
    CASE contradicts /\ verdict = "supported" -> "disputed"
      [] contradicts /\ verdict # "supported" -> "contradicted"
      [] ~contradicts /\ verdict \in {"refuted", "mixed"} -> "unsupported"
      [] OTHER -> IF wavers THEN "low" ELSE "high"

Combined(w, supports, refutes) ==
    LET wavers == w.unstable \/ w.partial
        confidence == CombinedConfidence(w.contradicts, Verdict(supports, refutes), wavers)
    IN  [term |-> w.term, page |-> page, confidence |-> confidence,
         cited |-> (supports \/ refutes) /\ confidence # "contradicted", own |-> TRUE,
         contradicts |-> w.contradicts, against |-> refutes, wavers |-> wavers]

\* The longest clean draft is held against the page, and the drafts against each other.
JudgeDraft(contradicts, unstable) ==
    LET w == [work EXCEPT !.contradicts = contradicts, !.unstable = unstable]
    IN  /\ at = "gate"
        /\ unstable => work.many
        /\ IF allowed = "research" THEN GoOn("weigh", w) ELSE Explained(Combined(w, FALSE, FALSE))

\* The term is looked up, and each snippet read against the draft.
WeighDraft(supports, refutes) ==
    /\ at = "weigh"
    /\ Explained(Combined(work, supports, refutes))

\* explainFromSources: no results, or none that explain the term, or none about it, or
\* only such as refute what was made of them.
NotInSources ==
    /\ at = "sources"
    /\ Explained(Refused(work.term))

\* What the sources say is not refuted by them, and is held against the page.
FromSources(contradicts, refutes) ==
    /\ at = "sources"
    /\ Explained([term |-> work.term, page |-> page,
                  confidence |-> IF contradicts THEN "disputed" ELSE "sourced", cited |-> TRUE,
                  own |-> FALSE, contradicts |-> contradicts, against |-> refutes, wavers |-> FALSE])

\* The refresh waits for the text model, or for a search.
Asking == at \in {"terms", "draft", "gate", "weigh", "sources"}

\* mutant: the failure of one page costs the explanations of all
LosingAll ==
    /\ Asking
    /\ at' = "ready"
    /\ error' = TRUE
    /\ terms' = {}
    /\ work' = NoWork
    /\ out' = {}
    /\ all' = {}
    /\ UNCHANGED <<allowed, page, rung, reading, seen, approved>>

\* A model that does not answer: expandDraft gives up, and returns what it has of the
\* pages before this one.
ExplainingFails ==
    /\ Asking
    /\ at' = "ready"
    /\ error' = TRUE
    /\ terms' = {}
    /\ work' = NoWork
    /\ out' = {}
    /\ UNCHANGED <<allowed, page, rung, reading, seen, all, approved>>
-----------------------------------------------------------------------------
(* The preview and the note *)

\* The pages Preview sends with its approval, edited or not; each then counts as read.
Sent == Page

\* mutant: the tidied text stands alone
WithoutQuote(p, ok) ==
    [page |-> p, warning |-> ~ok, quote |-> "none",
     body |-> IF ok /\ tidy[p] \in {"tidied", "completed"} THEN "tidied" ELSE text'[p]]

\* renderNote: a tidied page quotes what was written below it; a failed one has a warning.
PageShown(p, ok) ==
    IF ok /\ tidy[p] \in {"tidied", "completed"}
    THEN [page |-> p, body |-> "tidied", quote |-> text'[p], warning |-> FALSE]
    ELSE [page |-> p, body |-> text'[p], quote |-> "none", warning |-> ~ok]

\* The reader changes the text of some pages, in the column as written.
Edits == SUBSET Page

\* And approves.
Approve(edited) ==
    /\ at = "ready"
    /\ at' = "approved"
    /\ text' = [p \in Page |-> IF p \in edited THEN "edited"
                               ELSE IF read[p] = "text" THEN "written" ELSE "none"]
    /\ note' = {PageShown(p, p \in Sent \/ read[p] # "garbled") : p \in Page}
    /\ UNCHANGED <<allowed, page, rung, reading, explaining>>

CollectStep ==
    \/ RefreshFails \/ Transcribed \/ Degenerate
    \/ Tidied \/ NotTidied \/ Captured
    \/ ChooseTerms
    \/ \E t \in terms, answered \in 0 .. Samples : \E clean \in 0 .. answered : DraftTerm(t, answered, clean)
    \/ \E contradicts, unstable \in BOOLEAN : JudgeDraft(contradicts, unstable)
    \/ \E supports, refutes \in BOOLEAN : WeighDraft(supports, refutes)
    \/ NotInSources
    \/ \E contradicts, refutes \in BOOLEAN : FromSources(contradicts, refutes)
    \/ ExplainingFails

NotesNext ==
    \/ Refresh
    \/ CollectStep
    \/ \E edited \in Edits : Approve(edited)

\* Every call of a model ends: it answers, or its timeout aborts it (transcribe.ts:126-147,
\* 180-207).  So does a search, whose fetch has no limit but Node's own.
NotesSpec == NotesInit /\ [][NotesNext]_notesVars /\ WF_notesVars(CollectStep)
-----------------------------------------------------------------------------
Explanations == all \cup out

\* How renderExpansions marks an entry; only one of high confidence goes unmarked.
Marker(confidence) ==
    CASE confidence = "high" -> "none"
      [] confidence = "low" -> "uncertain"
      [] confidence = "sourced" -> "from sources"
      [] confidence \in {"refused", "contradicted"} -> "not explained"
      [] OTHER -> confidence

\* Every page is in the note with its photograph and the text that was approved, as the
\* body or in the quote below a tidied version: however the page fared on the way, the
\* record of what was on the paper survives (pipeline.ts:476-546).
RecordIsKept ==
    at = "approved" => \A p \in Page : \E s \in note : s.page = p /\ text[p] \in {s.body, s.quote}

\* A term is explained once in a note, on the first page that asks for it, though every
\* page is asked for its terms by itself (pipeline.ts:444-449).
ExplainedOnce == \A o1, o2 \in Explanations : o1.term = o2.term => o1 = o2

\* No doubt is lost on the way to the reader: an explanation the page contradicts is shown
\* only as disputed and with the sources that support it, and one that a source argues
\* against, or that differs from sample to sample, is marked (expand.ts:518-603, 719-783).
DoubtIsShown == \A o \in Explanations :
    /\ o.contradicts => o.confidence = "contradicted" \/ (o.confidence = "disputed" /\ o.cited)
    /\ o.against \/ o.wavers => Marker(o.confidence) # "none"

\* Sources have a vote and no veto: what the model explains by itself and the page does
\* not contradict reaches the reader, whatever the search brought (expand.ts:562-602).
SourcesNeverVeto == \A o \in Explanations :
    o.own /\ ~o.contradicts => o.confidence \notin {"refused", "contradicted"}

\* What is explained of the pages before stays, whatever fails on a later page
\* (pipeline.ts:469-473): only another refresh begins anew.
EarlierPagesKept == [][at' = "reading" \/ all \subseteq all']_notesVars

\* A refresh ends: no ladder is climbed for ever, and no failure leaves the desktop
\* refreshing (transcribe.ts:89-102, clean.ts:227-240, api.ts:583-585).
CollectEnds == at = "reading" ~> at \in {"ready", "failed"}

\* api.ts:667 says that the user's edits win over the model's proposal, always: so the
\* body of a page that was edited is what the user wrote.
EditsWin == \A s \in note : text[s.page] = "edited" => s.body = "edited"
=============================================================================
