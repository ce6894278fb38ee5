----------------------------- MODULE NotesProofs -----------------------------
(***************************************************************************)
(* Theorems of Notes, for any number of pages, terms and samples and       *)
(* whatever the models answer: its types, that a term is explained once,   *)
(* that no doubt about an explanation is lost and none is deleted by a     *)
(* source, and that the approved text of every page is in the note.        *)
(*                                                                         *)
(* The strengthening says where the refresh is: the page it is at has a    *)
(* transcript, nothing is half explained outside the explaining steps, and *)
(* what is explained was seen and is no longer to do.                      *)
(***************************************************************************)
EXTENDS Notes, InductionLemmas

-----------------------------------------------------------------------------
(* The page the refresh looks for *)

\* The next usable page is one, and it is the first; or there is none.
LEMMA NextUsablePage ==
    ASSUME NEW r, NEW p \in Nat
    PROVE  /\ NextUsable(r, p) \in 1 .. Last + 1
           /\ NextUsable(r, p) <= Last =>
                 NextUsable(r, p) \in Page /\ r[NextUsable(r, p)] = "text"
           /\ \A q \in Page : q > p /\ r[q] = "text" => NextUsable(r, p) <= q
<1> DEFINE S == {q \in Page : q > p /\ r[q] = "text"} \cup {Last + 1}
<1>1. Last \in Nat /\ S \in SUBSET Nat /\ S # {}
  BY NotesAssumption DEF Page
<1>2. Min(S) \in S /\ \A n \in S : Min(S) <= n
  <2> HIDE DEF S
  <2> QED
    BY <1>1, LeastOf
<1>3. NextUsable(r, p) = Min(S)
  BY DEF NextUsable
<1>4. \A n \in S : n \in 1 .. Last + 1 /\ (n <= Last => n \in Page /\ r[n] = "text")
  BY <1>1 DEF Page
<1>5. \A q \in Page : q > p /\ r[q] = "text" => q \in S
  OBVIOUS
<1> HIDE DEF S
<1> QED
  BY <1>2, <1>3, <1>4, <1>5
-----------------------------------------------------------------------------
(* The invariant *)

AtAPage ==
    /\ at \in {"reading", "tidying", "terms", "draft", "gate", "weigh", "sources"} => page \in Page
    /\ at \in {"tidying", "terms", "draft", "gate", "weigh", "sources"} => read[page] = "text"

\* Terms are to do, and outcomes of a page are held, only while it is explained.
HalfExplained ==
    /\ at \notin {"draft", "gate", "weigh", "sources"} => terms = {} /\ out = {}
    /\ work # NoWork => work.term \in terms

ExplainedIsSeen == \A o \in Explanations : o.term \in seen /\ o.term \notin terms

\* What every single outcome must be like.
Sound(o) ==
    /\ o.contradicts => o.confidence = "contradicted" \/ (o.confidence = "disputed" /\ o.cited)
    /\ o.against \/ o.wavers => Marker(o.confidence) # "none"
    /\ o.own /\ ~o.contradicts => o.confidence \notin {"refused", "contradicted"}

AllSound == \A o \in Explanations : Sound(o)

NotesInv ==
    /\ NotesTypeOK
    /\ AtAPage
    /\ HalfExplained
    /\ ExplainedIsSeen
    /\ ExplainedOnce
    /\ AllSound
    /\ RecordIsKept
-----------------------------------------------------------------------------
(* Outcomes *)

LEMMA RefusedOutcome ==
    ASSUME NEW t \in Term, page \in Page
    PROVE  Refused(t) \in Outcome /\ Sound(Refused(t)) /\ Refused(t).term = t
BY DEF Refused, Outcome, Confidence, Sound

\* combine, in every combination of what the page, the samples and the sources say.
LEMMA CombinedOutcome ==
    ASSUME NEW w \in Work, page \in Page, NEW supports \in BOOLEAN, NEW refutes \in BOOLEAN
    PROVE  /\ Combined(w, supports, refutes) \in Outcome
           /\ Sound(Combined(w, supports, refutes))
           /\ Combined(w, supports, refutes).term = w.term
<1> DEFINE wavers == w.unstable \/ w.partial
           c == CombinedConfidence(w.contradicts, Verdict(supports, refutes), wavers)
           cited == (supports \/ refutes) /\ c # "contradicted"
           o == Combined(w, supports, refutes)
<1>1. w.term \in Term /\ w.contradicts \in BOOLEAN /\ wavers \in BOOLEAN /\ cited \in BOOLEAN
  BY DEF Work
<1>2. o = [term |-> w.term, page |-> page, confidence |-> c, cited |-> cited, own |-> TRUE,
           contradicts |-> w.contradicts, against |-> refutes, wavers |-> wavers]
  BY DEF Combined
<1>3. c \in Confidence
  BY DEF CombinedConfidence, Confidence
<1>4. CASE w.contradicts
  <2>1. (c = "disputed" /\ supports) \/ c = "contradicted"
    BY <1>4 DEF CombinedConfidence, Verdict
  <2> HIDE DEF c, wavers
  <2>2. o \in Outcome
    BY <1>1, <1>2, <1>3 DEF Outcome
  <2>3. Sound(o)
    BY <1>2, <1>4, <2>1 DEF Sound, Marker
  <2> QED
    BY <1>2, <2>2, <2>3
<1>5. CASE ~w.contradicts
  <2>1. /\ c \in {"unsupported", "low", "high"}
        /\ refutes => c = "unsupported"
        /\ wavers => c # "high"
    BY <1>5 DEF CombinedConfidence, Verdict
  <2> HIDE DEF c, wavers
  <2>2. o \in Outcome
    BY <1>1, <1>2, <1>3 DEF Outcome
  <2>3. Sound(o)
    BY <1>2, <1>5, <2>1 DEF Sound, Marker
  <2> QED
    BY <1>2, <2>2, <2>3
<1> QED
  BY <1>1, <1>4, <1>5

LEMMA SourcedOutcome ==
    ASSUME NEW t \in Term, page \in Page, NEW contradicts \in BOOLEAN, NEW refutes \in BOOLEAN,
           NEW o,
           o = [term |-> t, page |-> page,
                confidence |-> IF contradicts THEN "disputed" ELSE "sourced", cited |-> TRUE,
                own |-> FALSE, contradicts |-> contradicts, against |-> refutes, wavers |-> FALSE]
    PROVE  o \in Outcome /\ Sound(o) /\ o.term = t
BY DEF Outcome, Confidence, Sound, Marker
-----------------------------------------------------------------------------
(* Steps *)

LEMMA NotesStart == NotesInit => NotesInv
<1> SUFFICES ASSUME NotesInit PROVE NotesInv
  OBVIOUS
<1>1. 1 \in 1 .. Last + 1 /\ 1 \in Rungs
  BY NotesAssumption DEF Rungs
<1>2. NotesTypeOK
  BY <1>1 DEF NotesInit, NotesTypeOK
<1> QED
  BY <1>2 DEF NotesInit, NotesInv, AtAPage, HalfExplained, ExplainedIsSeen, ExplainedOnce,
              AllSound, RecordIsKept, Explanations

LEMMA RefreshSteps == NotesInv /\ Refresh => NotesInv'
<1> SUFFICES ASSUME NotesInv, Refresh PROVE NotesInv'
  OBVIOUS
<1>1. 1 \in Page /\ 1 \in 1 .. Last + 1 /\ 1 \in Rungs
  BY NotesAssumption DEF Rungs, Page
<1>2. terms = {} /\ out = {} /\ work = NoWork
  BY DEF NotesInv, Refresh, HalfExplained, NotesTypeOK
<1>3. NotesTypeOK'
  BY <1>1, <1>2 DEF NotesInv, NotesTypeOK, Refresh, approved
<1> QED
  BY <1>1, <1>2, <1>3 DEF NotesInv, Refresh, AtAPage, HalfExplained, ExplainedIsSeen,
     ExplainedOnce, AllSound, RecordIsKept, Explanations, approved

\* A step that touches neither the explanations nor the note keeps what is said of them.
LEMMA ReadingSteps ==
    ASSUME NotesInv, NotesTypeOK', AtAPage', UNCHANGED <<explaining, approved>>,
           at \in {"reading", "tidying"},
           at' \in {"reading", "tidying", "terms", "ready", "failed"}
    PROVE  NotesInv'
BY DEF NotesInv, NotesTypeOK, HalfExplained, ExplainedIsSeen, ExplainedOnce, AllSound,
       RecordIsKept, Explanations, explaining, approved

LEMMA TranscribingSteps == NotesInv /\ (RefreshFails \/ Transcribed \/ Degenerate) => NotesInv'
<1> SUFFICES ASSUME NotesInv, RefreshFails \/ Transcribed \/ Degenerate PROVE NotesInv'
  OBVIOUS
<1>0. at = "reading" /\ page \in Page
  BY DEF NotesInv, AtAPage, RefreshFails, Transcribed, Degenerate, AskingVision
<1>1. CASE RefreshFails
  <2>1. NotesTypeOK' /\ AtAPage'
    BY <1>0, <1>1 DEF NotesInv, NotesTypeOK, AtAPage, RefreshFails, reading, explaining, approved
  <2> QED
    BY <1>0, <1>1, <2>1, ReadingSteps DEF RefreshFails
<1>2. ASSUME NEW result \in {"text", "blank", "garbled"}, PageRead(result),
             UNCHANGED <<allowed, tidy, explaining, approved>>
      PROVE  NotesInv'
  <2>1. Last \in Nat /\ page \in Nat /\ 0 \in Nat
    BY <1>0, NotesAssumption DEF Page
  <2>2. /\ NextUsable(read', 0) \in 1 .. Last + 1
        /\ NextUsable(read', 0) <= Last =>
              NextUsable(read', 0) \in Page /\ read'[NextUsable(read', 0)] = "text"
    BY <2>1, NextUsablePage
  <2>3. CASE page < Last
    <3>1. at' = "reading" /\ page' = page + 1
      BY <1>0, <1>2, <2>3 DEF PageRead
    <3>2. page' \in Page /\ page' \in 1 .. Last + 1
      BY <1>0, <2>1, <2>3, <3>1 DEF Page
    <3>3. NotesTypeOK' /\ AtAPage'
      BY <1>0, <1>2, <3>1, <3>2 DEF PageRead, NotesInv, NotesTypeOK, AtAPage, Rungs, explaining, approved
    <3> QED
      BY <1>0, <1>2, <3>1, <3>3, ReadingSteps
  <2>4. CASE ~(page < Last)
    <3>1. page' = NextUsable(read', 0)
      BY <1>2, <2>4 DEF PageRead
    <3>2. at' = "ready" \/ (at' = "tidying" /\ ~(page' > Last))
      BY <1>2, <2>4 DEF PageRead
    <3>3. at' = "tidying" => page' \in Page /\ read'[page'] = "text"
      <4>1. ~(page' > Last) => page' <= Last
        BY <2>1, <2>2, <3>1
      <4> QED
        BY <2>2, <3>1, <3>2, <4>1
    <3>4. NotesTypeOK' /\ AtAPage'
      BY <1>0, <1>2, <2>2, <3>1, <3>2, <3>3 DEF PageRead, NotesInv, NotesTypeOK, AtAPage, Rungs, explaining, approved
    <3> QED
      BY <1>0, <1>2, <3>2, <3>4, ReadingSteps
  <2> QED
    BY <2>3, <2>4
<1>3. CASE Transcribed
  BY <1>2, <1>3 DEF Transcribed
<1>4. CASE Degenerate
  <2>1. CASE rung = 1
    <3>1. NotesTypeOK' /\ AtAPage' /\ at' = at
      BY <1>0, <1>4, <2>1 DEF Degenerate, NotesInv, NotesTypeOK, AtAPage, Rungs, explaining, approved
    <3> QED
      BY <1>0, <1>4, <3>1, ReadingSteps DEF Degenerate
  <2>2. CASE rung # 1
    BY <1>2, <1>4, <2>2 DEF Degenerate
  <2> QED
    BY <2>1, <2>2
<1> QED
  BY <1>1, <1>3, <1>4

LEMMA TidyingSteps == NotesInv /\ (Tidied \/ NotTidied \/ Captured) => NotesInv'
<1> SUFFICES ASSUME NotesInv, Tidied \/ NotTidied \/ Captured PROVE NotesInv'
  OBVIOUS
<1>0. at = "tidying" /\ page \in Page /\ read[page] = "text"
  BY DEF NotesInv, AtAPage, Tidied, NotTidied, Captured
<1>1. ASSUME NEW result \in {"tidied", "completed", "kept"}, PageTidied(result),
             UNCHANGED <<allowed, read, explaining, approved>>
      PROVE  NotesInv'
  <2>1. Last \in Nat /\ page \in Nat /\ 0 \in Nat /\ page > 0 /\ page <= Last
    BY <1>0, NotesAssumption DEF Page
  <2>2. /\ NextUsable(read, page) \in 1 .. Last + 1
        /\ NextUsable(read, page) <= Last =>
              NextUsable(read, page) \in Page /\ read[NextUsable(read, page)] = "text"
    BY <2>1, NextUsablePage
  <2>3. /\ NextUsable(read, 0) \in 1 .. Last + 1
        /\ NextUsable(read, 0) <= Last =>
              NextUsable(read, 0) \in Page /\ read[NextUsable(read, 0)] = "text"
        /\ NextUsable(read, 0) <= page
    BY <1>0, <2>1, NextUsablePage
  <2>4. CASE NextUsable(read, page) > Last
    <3>1. page' = NextUsable(read, 0) /\ at' = "terms"
      BY <1>1, <2>4 DEF PageTidied
    <3>2. NextUsable(read, 0) <= Last
      BY <2>1, <2>3
    <3>3. page' \in Page /\ read[page'] = "text"
      BY <2>3, <3>1, <3>2
    <3>4. NotesTypeOK' /\ AtAPage'
      BY <1>0, <1>1, <2>3, <3>1, <3>3 DEF PageTidied, NotesInv, NotesTypeOK, AtAPage, Rungs, explaining, approved
    <3> QED
      BY <1>0, <1>1, <3>1, <3>4, ReadingSteps
  <2>5. CASE ~(NextUsable(read, page) > Last)
    <3>1. page' = NextUsable(read, page) /\ at' = "tidying"
      BY <1>0, <1>1, <2>5 DEF PageTidied
    <3>2. NextUsable(read, page) <= Last
      BY <2>1, <2>2, <2>5
    <3>3. page' \in Page /\ read[page'] = "text"
      BY <2>2, <3>1, <3>2
    <3>4. NotesTypeOK' /\ AtAPage'
      BY <1>0, <1>1, <2>2, <3>1, <3>3 DEF PageTidied, NotesInv, NotesTypeOK, AtAPage, Rungs, explaining, approved
    <3> QED
      BY <1>0, <1>1, <3>1, <3>4, ReadingSteps
  <2> QED
    BY <2>4, <2>5
<1>2. CASE Tidied
  BY <1>1, <1>2 DEF Tidied, Completions
<1>3. CASE NotTidied
  BY <1>1, <1>3 DEF NotTidied
<1>4. CASE Captured
  <2>1. NotesTypeOK' /\ AtAPage' /\ at' = at
    BY <1>0, <1>4 DEF Captured, NotesInv, NotesTypeOK, AtAPage, Rungs, reading, explaining, approved
  <2> QED
    BY <1>0, <1>4, <2>1, ReadingSteps DEF Captured
<1> QED
  BY <1>2, <1>3, <1>4
-----------------------------------------------------------------------------
(* Explaining *)

\* After a page there is the next, and after the last the drafts are ready.
LEMMA AfterPage ==
    ASSUME NotesInv, page \in Page, NEW outcomes, PageExplained(outcomes), UNCHANGED read
    PROVE  /\ page' \in 1 .. Last + 1
           /\ at' \in {"ready", "terms"}
           /\ at' = "terms" => page' \in Page /\ read'[page'] = "text"
<1>1. Last \in Nat /\ page \in Nat
  BY NotesAssumption DEF Page
<1>2. /\ page' \in 1 .. Last + 1
      /\ page' <= Last => page' \in Page /\ read[page'] = "text"
  BY <1>1, NextUsablePage DEF PageExplained
<1>3. at' = (IF page' > Last THEN "ready" ELSE "terms")
  BY DEF PageExplained
<1>4. ~(page' > Last) => page' <= Last
  BY <1>1, <1>2
<1> QED
  BY <1>2, <1>3, <1>4

\* An outcome of a term that was to do joins the explanations.
LEMMA ExplainedSteps ==
    ASSUME NotesInv, NEW o \in Outcome, Sound(o), o.term \in terms, Explained(o),
           at \in {"draft", "gate", "weigh", "sources"}
    PROVE  NotesInv'
<1>1. page \in Page /\ read[page] = "text" /\ UNCHANGED read
  BY DEF NotesInv, AtAPage, Explained, reading
<1>2. terms' = terms \ {o.term} /\ seen' = seen /\ work' = NoWork
  BY DEF Explained
<1>3. Explanations' = Explanations \cup {o}
  BY DEF Explained, Explanations, PageExplained
<1>4. \/ terms' = {} /\ PageExplained(out \cup {o})
      \/ terms' # {} /\ at' = "draft" /\ out' = out \cup {o} /\ UNCHANGED <<page, all>>
  BY DEF Explained
<1>5. /\ page' \in 1 .. Last + 1
      /\ at' \in {"ready", "terms", "draft"}
      /\ at' # "ready" => page' \in Page /\ read'[page'] = "text"
      /\ at' # "draft" => terms' = {} /\ out' = {}
      /\ out' \subseteq Outcome /\ all' \subseteq Outcome
  <2>1. CASE terms' = {} /\ PageExplained(out \cup {o})
    <3>1. out' = {} /\ all' = all \cup (out \cup {o})
      BY <2>1 DEF PageExplained
    <3> QED
      BY <1>1, <2>1, <3>1, AfterPage DEF NotesInv, NotesTypeOK
  <2>2. CASE terms' # {} /\ at' = "draft" /\ out' = out \cup {o} /\ UNCHANGED <<page, all>>
    BY <1>1, <2>2 DEF NotesInv, NotesTypeOK
  <2> QED
    BY <1>4, <2>1, <2>2
<1>6. NotesTypeOK'
  BY <1>2, <1>5 DEF NotesInv, NotesTypeOK, Explained, reading, approved
<1>7. AtAPage' /\ HalfExplained'
  BY <1>2, <1>5 DEF AtAPage, HalfExplained
<1>8. ExplainedIsSeen'
  BY <1>2, <1>3 DEF NotesInv, NotesTypeOK, ExplainedIsSeen
<1>9. ExplainedOnce'
  BY <1>3 DEF NotesInv, ExplainedIsSeen, ExplainedOnce
<1>10. AllSound' /\ RecordIsKept'
  BY <1>3, <1>5 DEF NotesInv, AllSound, Sound, RecordIsKept, Explained, approved
<1> QED
  BY <1>6, <1>7, <1>8, <1>9, <1>10 DEF NotesInv

\* A step that goes on with the term at work explains nothing yet.
LEMMA GoOnSteps ==
    ASSUME NotesInv, at \in {"draft", "gate"}, NEW step \in {"gate", "weigh", "sources"},
           NEW w \in Work, w.term \in terms, GoOn(step, w)
    PROVE  NotesInv'
<1>1. w # NoWork
  BY NotesAssumption
<1>2. /\ at' = step /\ work' = w
      /\ UNCHANGED <<allowed, page, rung, reading, seen, terms, out, all, error, approved>>
  BY DEF GoOn
<1>3. NotesTypeOK' /\ AtAPage' /\ HalfExplained'
  BY <1>1, <1>2 DEF NotesInv, NotesTypeOK, AtAPage, HalfExplained, reading, approved
<1>4. Explanations' = Explanations
  BY <1>2 DEF Explanations
<1>5. ExplainedIsSeen' /\ ExplainedOnce' /\ AllSound' /\ RecordIsKept'
  BY <1>2, <1>4 DEF NotesInv, ExplainedIsSeen, ExplainedOnce, AllSound, RecordIsKept, approved
<1> QED
  BY <1>3, <1>5 DEF NotesInv

\* The terms of a page that were not seen before: none of them is explained already.
LEMMA ChoosingSteps == NotesInv /\ ChooseTerms => NotesInv'
<1> SUFFICES ASSUME NotesInv, ChooseTerms PROVE NotesInv'
  OBVIOUS
<1>1. at = "terms" /\ page \in Page /\ read[page] = "text" /\ UNCHANGED read
  BY DEF NotesInv, AtAPage, ChooseTerms, reading
<1>2. terms = {} /\ out = {} /\ work = NoWork
  BY <1>1 DEF NotesInv, HalfExplained, NotesTypeOK
<1>3. /\ seen' = seen \cup terms' /\ terms' \subseteq Term /\ terms' \cap seen = {}
      /\ work' = NoWork
  <2>1. PICK marked \in SUBSET Bold[page], listed \in SUBSET Listable(page) :
            terms' = Unseen(marked \cup listed)
    BY DEF ChooseTerms
  <2>2. Bold[page] \subseteq Term /\ Listable(page) \subseteq Term
    BY <1>1, NotesAssumption DEF Listable
  <2> QED
    BY <1>2, <2>1, <2>2 DEF Unseen, ChooseTerms
<1>4. Explanations' = Explanations
  BY <1>2 DEF ChooseTerms, Explanations, PageExplained
<1>5. /\ page' \in 1 .. Last + 1
      /\ at' \in {"ready", "terms", "draft"}
      /\ at' # "ready" => page' \in Page /\ read'[page'] = "text"
      /\ at' # "draft" => terms' = {}
      /\ out' = {} /\ all' = all
  <2>1. CASE terms' = {}
    <3>1. PageExplained({})
      BY <2>1 DEF ChooseTerms
    <3> QED
      BY <1>1, <2>1, <3>1, AfterPage DEF PageExplained
  <2>2. CASE terms' # {}
    BY <1>1, <1>2, <2>2 DEF ChooseTerms, NotesInv, NotesTypeOK
  <2> QED
    BY <2>1, <2>2
<1>6. NotesTypeOK'
  BY <1>3, <1>5 DEF NotesInv, NotesTypeOK, ChooseTerms, reading, approved
<1>7. AtAPage' /\ HalfExplained'
  BY <1>3, <1>5 DEF AtAPage, HalfExplained
<1>8. ExplainedIsSeen'
  BY <1>3, <1>4 DEF NotesInv, ExplainedIsSeen
<1>9. ExplainedOnce' /\ AllSound' /\ RecordIsKept'
  BY <1>4, <1>5 DEF NotesInv, ExplainedOnce, AllSound, RecordIsKept, ChooseTerms, approved
<1> QED
  BY <1>6, <1>7, <1>8, <1>9 DEF NotesInv

LEMMA DraftingSteps ==
    ASSUME NotesInv, NEW t \in terms, NEW answered \in 0 .. Samples, NEW clean \in 0 .. answered,
           DraftTerm(t, answered, clean)
    PROVE  NotesInv'
<1> DEFINE w == [term |-> t, partial |-> clean < Samples, many |-> answered >= 2,
                 contradicts |-> FALSE, unstable |-> FALSE]
<1>1. at = "draft" /\ page \in Page /\ t \in Term
  BY DEF NotesInv, NotesTypeOK, AtAPage, DraftTerm
<1>2. w \in Work /\ w.term = t
  BY <1>1 DEF Work
<1>3. GoOn("sources", w) \/ GoOn("gate", w) \/ Explained(Refused(t))
  BY DEF DraftTerm
<1>4. CASE Explained(Refused(t))
  BY <1>1, <1>4, RefusedOutcome, ExplainedSteps
<1>5. ASSUME NEW step \in {"sources", "gate"}, GoOn(step, w) PROVE NotesInv'
  <2> HIDE DEF w
  <2> QED
    BY <1>1, <1>2, <1>5, GoOnSteps
<1> QED
  BY <1>3, <1>4, <1>5

LEMMA JudgingSteps ==
    ASSUME NotesInv, NEW contradicts \in BOOLEAN, NEW unstable \in BOOLEAN,
           JudgeDraft(contradicts, unstable)
    PROVE  NotesInv'
<1> DEFINE w == [work EXCEPT !.contradicts = contradicts, !.unstable = unstable]
<1>1. at = "gate" /\ page \in Page /\ work \in Work /\ work.term \in terms
  BY DEF NotesInv, NotesTypeOK, AtAPage, HalfExplained, JudgeDraft
<1>2. w \in Work /\ w.term = work.term
  BY <1>1 DEF Work
<1>3. GoOn("weigh", w) \/ Explained(Combined(w, FALSE, FALSE))
  BY DEF JudgeDraft
<1> HIDE DEF w
<1>4. CASE GoOn("weigh", w)
  BY <1>1, <1>2, <1>4, GoOnSteps
<1>5. CASE Explained(Combined(w, FALSE, FALSE))
  <2>1. /\ Combined(w, FALSE, FALSE) \in Outcome
        /\ Sound(Combined(w, FALSE, FALSE))
        /\ Combined(w, FALSE, FALSE).term = w.term
    BY <1>1, <1>2, CombinedOutcome
  <2> QED
    BY <1>1, <1>2, <1>5, <2>1, ExplainedSteps
<1> QED
  BY <1>3, <1>4, <1>5

LEMMA WeighingSteps ==
    ASSUME NotesInv, NEW supports \in BOOLEAN, NEW refutes \in BOOLEAN, WeighDraft(supports, refutes)
    PROVE  NotesInv'
<1>1. at = "weigh" /\ page \in Page /\ work \in Work /\ work.term \in terms
  BY DEF NotesInv, NotesTypeOK, AtAPage, HalfExplained, WeighDraft
<1>2. /\ Combined(work, supports, refutes) \in Outcome
      /\ Sound(Combined(work, supports, refutes))
      /\ Combined(work, supports, refutes).term = work.term
  BY <1>1, CombinedOutcome
<1> QED
  BY <1>1, <1>2, ExplainedSteps DEF WeighDraft

LEMMA SourcingSteps ==
    ASSUME NotesInv,
           NotInSources \/ \E contradicts, refutes \in BOOLEAN : FromSources(contradicts, refutes)
    PROVE  NotesInv'
<1>1. at = "sources" /\ page \in Page /\ work \in Work /\ work.term \in terms /\ work.term \in Term
  BY DEF NotesInv, NotesTypeOK, AtAPage, HalfExplained, NotInSources, FromSources, Work
<1>2. CASE NotInSources
  BY <1>1, <1>2, RefusedOutcome, ExplainedSteps DEF NotInSources
<1>3. ASSUME NEW contradicts \in BOOLEAN, NEW refutes \in BOOLEAN, FromSources(contradicts, refutes)
      PROVE  NotesInv'
  <2> DEFINE o == [term |-> work.term, page |-> page,
                   confidence |-> IF contradicts THEN "disputed" ELSE "sourced", cited |-> TRUE,
                   own |-> FALSE, contradicts |-> contradicts, against |-> refutes, wavers |-> FALSE]
  <2>1. Explained(o)
    BY <1>3 DEF FromSources
  <2>2. o \in Outcome /\ Sound(o) /\ o.term = work.term
    BY <1>1, SourcedOutcome
  <2> HIDE DEF o
  <2> QED
    BY <1>1, <2>1, <2>2, ExplainedSteps
<1> QED
  BY <1>2, <1>3

LEMMA GivingUpSteps == NotesInv /\ ExplainingFails => NotesInv'
<1> SUFFICES ASSUME NotesInv, ExplainingFails PROVE NotesInv'
  OBVIOUS
<1>1. Explanations' \subseteq Explanations /\ at' = "ready" /\ terms' = {} /\ seen' = seen
  BY DEF ExplainingFails, Explanations
<1>2. NotesTypeOK' /\ AtAPage' /\ HalfExplained'
  BY DEF NotesInv, NotesTypeOK, AtAPage, HalfExplained, ExplainingFails, reading, approved
<1>3. ExplainedIsSeen' /\ ExplainedOnce' /\ AllSound' /\ RecordIsKept'
  BY <1>1 DEF NotesInv, ExplainedIsSeen, ExplainedOnce, AllSound, RecordIsKept
<1> QED
  BY <1>2, <1>3 DEF NotesInv

\* The record of every page: as the body of the page, or in the quote.
LEMMA ApprovingSteps ==
    ASSUME NotesInv, NEW edited \in Edits, Approve(edited)
    PROVE  NotesInv'
<1>1. Explanations' = Explanations /\ at' = "approved" /\ at = "ready"
  BY DEF Approve, Explanations, explaining
<1>2. text' \in [Page -> {"none", "written", "edited"}]
  BY DEF Approve
<1>3. \A p \in Page : /\ PageShown(p, p \in Sent \/ read[p] # "garbled") \in Shown
                     /\ PageShown(p, p \in Sent \/ read[p] # "garbled").page = p
                     /\ text'[p] \in {PageShown(p, p \in Sent \/ read[p] # "garbled").body,
                                     PageShown(p, p \in Sent \/ read[p] # "garbled").quote}
  <2> SUFFICES ASSUME NEW p \in Page, NEW ok \in BOOLEAN
               PROVE  /\ PageShown(p, ok) \in Shown
                      /\ PageShown(p, ok).page = p
                      /\ text'[p] \in {PageShown(p, ok).body, PageShown(p, ok).quote}
    OBVIOUS
  <2>1. text'[p] \in {"none", "written", "edited"}
    BY <1>2
  <2> QED
    BY <2>1 DEF PageShown, Shown
<1>4. note' \subseteq Shown
  BY <1>3 DEF Approve
<1>5. RecordIsKept'
  BY <1>3 DEF Approve, RecordIsKept
<1>6. NotesTypeOK' /\ AtAPage' /\ HalfExplained'
  BY <1>1, <1>2, <1>4 DEF NotesInv, NotesTypeOK, AtAPage, HalfExplained, Approve, reading, explaining
<1>7. ExplainedIsSeen' /\ ExplainedOnce' /\ AllSound'
  BY <1>1 DEF NotesInv, ExplainedIsSeen, ExplainedOnce, AllSound, Approve, explaining
<1> QED
  BY <1>5, <1>6, <1>7 DEF NotesInv
-----------------------------------------------------------------------------
(* Theorems *)

LEMMA NotesSteps == NotesInv /\ [NotesNext]_notesVars => NotesInv'
<1> SUFFICES ASSUME NotesInv, [NotesNext]_notesVars PROVE NotesInv'
  OBVIOUS
<1>1. CASE CollectStep
  <2>1. ASSUME NEW t \in terms, NEW answered \in 0 .. Samples, NEW clean \in 0 .. answered,
               DraftTerm(t, answered, clean)
        PROVE  NotesInv'
    BY <2>1, DraftingSteps
  <2>2. ASSUME NEW contradicts \in BOOLEAN, NEW unstable \in BOOLEAN, JudgeDraft(contradicts, unstable)
        PROVE  NotesInv'
    BY <2>2, JudgingSteps
  <2>3. ASSUME NEW supports \in BOOLEAN, NEW refutes \in BOOLEAN, WeighDraft(supports, refutes)
        PROVE  NotesInv'
    BY <2>3, WeighingSteps
  <2>4. CASE NotInSources \/ \E contradicts, refutes \in BOOLEAN : FromSources(contradicts, refutes)
    BY <2>4, SourcingSteps
  <2> QED
    BY <1>1, <2>1, <2>2, <2>3, <2>4, TranscribingSteps, TidyingSteps, ChoosingSteps,
       GivingUpSteps DEF CollectStep
<1>2. CASE Refresh
  BY <1>2, RefreshSteps
<1>3. ASSUME NEW edited \in Edits, Approve(edited) PROVE NotesInv'
  BY <1>3, ApprovingSteps
<1>4. CASE UNCHANGED notesVars
  BY <1>4 DEF notesVars, reading, explaining, approved, NotesInv, NotesTypeOK, AtAPage,
     HalfExplained, ExplainedIsSeen, ExplainedOnce, AllSound, RecordIsKept, Explanations
<1> QED
  BY <1>1, <1>2, <1>3, <1>4 DEF NotesNext

LEMMA NotesInvHolds == NotesSpec => []NotesInv
BY NotesStart, NotesSteps, PTL DEF NotesSpec

\* Every reachable state of a refresh and its note is well typed.
THEOREM NotesTypeCorrect == NotesSpec => []NotesTypeOK
BY NotesInvHolds, PTL DEF NotesInv

\* A term is explained once in a note, however many pages ask for it (pipeline.ts:444-449).
THEOREM TermsExplainedOnce == NotesSpec => []ExplainedOnce
BY NotesInvHolds, PTL DEF NotesInv

\* On every way through the ladder of an explanation, doubt of the page, of a source or
\* among the samples reaches the reader (expand.ts:518-603, 719-783).
THEOREM DoubtAlwaysShown == NotesSpec => []DoubtIsShown
<1>1. NotesInv => DoubtIsShown
  BY DEF NotesInv, AllSound, Sound, DoubtIsShown
<1> QED
  BY <1>1, NotesInvHolds, PTL

\* What the page does not contradict is shown, whatever the search brings (expand.ts:562-602).
THEOREM NoSourceVetoes == NotesSpec => []SourcesNeverVeto
<1>1. NotesInv => SourcesNeverVeto
  BY DEF NotesInv, AllSound, Sound, SourcesNeverVeto
<1> QED
  BY <1>1, NotesInvHolds, PTL

\* The approved text of every page is in the note (pipeline.ts:476-546).
THEOREM RecordAlwaysKept == NotesSpec => []RecordIsKept
BY NotesInvHolds, PTL DEF NotesInv

\* A failure takes back nothing that was explained of earlier pages (pipeline.ts:469-473).
THEOREM EarlierPagesAlwaysKept == NotesSpec => EarlierPagesKept
<1>1. [NotesNext]_notesVars => [at' = "reading" \/ all \subseteq all']_notesVars
  <2> SUFFICES ASSUME NotesNext PROVE at' = "reading" \/ all \subseteq all'
    OBVIOUS
  <2>1. CASE CollectStep
    BY <2>1 DEF CollectStep, RefreshFails, Transcribed, Degenerate, Tidied, NotTidied, Captured,
       ChooseTerms, DraftTerm, JudgeDraft, WeighDraft, NotInSources, FromSources, ExplainingFails,
       Explained, GoOn, PageExplained, explaining
  <2>2. CASE Refresh
    BY <2>2 DEF Refresh
  <2>3. ASSUME NEW edited \in Edits, Approve(edited) PROVE all \subseteq all'
    BY <2>3 DEF Approve, explaining
  <2> QED
    BY <2>1, <2>2, <2>3 DEF NotesNext
<1> QED
  BY <1>1, PTL DEF NotesSpec, EarlierPagesKept
=============================================================================
