---------------------------- MODULE DesktopProofs ----------------------------
(***************************************************************************)
(* Theorems of the smaller parts of the desktop: the daily budget and the  *)
(* cache of Research, the keys, the configuration and the recovery phrase  *)
(* of Setup, the downloads of Models, the drawings of Crops, and the       *)
(* drafts and the feedback of Review; for any limits, windows, phrases,    *)
(* models, boxes, sizes, readers, photographs and crashes.  At the end     *)
(* they are put together as MCDesktop does, with those of NotesProofs and  *)
(* VaultProofs.                                                            *)
(***************************************************************************)
EXTENDS MCDesktop, NotesProofs, VaultProofs, InductionLemmas

-----------------------------------------------------------------------------
(* The budget *)

\* What the file says was used on a day.
UsedOf(d) == IF usedOn = d THEN used ELSE 0

CountsTyped ==
    /\ day \in Nat /\ usedOn \in Nat /\ used \in Nat /\ askedOn \in Nat
    /\ usedOn <= day /\ askedOn <= day
    /\ charged \in [Days -> Nat]

\* Nothing is charged to a day to come, and no more than the file knows to this one.  A day
\* that a query is under way for can take one more.
ChargesCovered ==
    /\ \A d \in Days : d > day => charged[d] = 0
    /\ day \in Days => charged[day] <= UsedOf(day)
    /\ asking # NoQuery /\ askedOn \in Days => charged[askedOn] < Limit

BudgetInv == CountsTyped /\ ChargesCovered /\ BudgetHolds

LEMMA BudgetStart == ResearchInit => BudgetInv
<1> SUFFICES ASSUME ResearchInit PROVE BudgetInv
  OBVIOUS
<1>1. Limit \in Nat /\ MaxDay \in Nat
  BY ResearchAssumption
<1> QED
  BY <1>1 DEF ResearchInit, BudgetInv, CountsTyped, ChargesCovered, BudgetHolds, UsedOf, Days

\* A query that counts is charged to the day it was asked on, and spent on the day it is
\* answered on.
LEMMA ChargingSteps ==
    ASSUME BudgetInv, asking # NoQuery, Spend, Charge, asking' = NoQuery,
           UNCHANGED <<day, askedOn>>
    PROVE  BudgetInv'
<1>1. Limit \in Nat /\ Days \subseteq Nat
  BY ResearchAssumption DEF Days
<1>2. \A d \in Days : charged'[d] = IF d = askedOn THEN charged[d] + 1 ELSE charged[d]
  BY DEF Charge, BudgetInv, CountsTyped
<1>3. charged' \in [Days -> Nat]
  <2>1. charged' = [d \in Days |-> charged'[d]]
    BY DEF Charge, BudgetInv, CountsTyped
  <2>2. \A d \in Days : charged'[d] \in Nat
    BY <1>2 DEF BudgetInv, CountsTyped
  <2> QED
    BY <2>1, <2>2
<1>4. usedOn' = day /\ used' \in Nat /\ used' = UsedOf(day) + 1
  BY DEF Spend, UsedOf, BudgetInv, CountsTyped
<1>5. CountsTyped'
  BY <1>3, <1>4 DEF BudgetInv, CountsTyped
<1>6. ASSUME NEW d \in Days PROVE charged'[d] <= Limit
  <2>1. charged[d] \in Nat /\ charged[d] <= Limit
    BY DEF BudgetInv, CountsTyped, BudgetHolds
  <2>2. d = askedOn => charged[d] < Limit
    BY DEF BudgetInv, ChargesCovered
  <2>3. charged'[d] = IF d = askedOn THEN charged[d] + 1 ELSE charged[d]
    BY <1>2
  <2> QED
    BY <1>1, <2>1, <2>2, <2>3
<1>7. ASSUME NEW d \in Days, d > day PROVE charged'[d] = 0
  <2>1. d # askedOn
    BY <1>1, <1>7 DEF BudgetInv, CountsTyped
  <2> QED
    BY <1>2, <1>7, <2>1 DEF BudgetInv, ChargesCovered
<1>8. ASSUME day \in Days PROVE charged'[day] <= UsedOf(day)'
  <2>1. UsedOf(day)' = UsedOf(day) + 1
    BY <1>4 DEF UsedOf
  <2>2. charged[day] <= UsedOf(day) /\ charged[day] \in Nat /\ UsedOf(day) \in Nat
    BY <1>8 DEF BudgetInv, CountsTyped, ChargesCovered, UsedOf
  <2>3. charged'[day] \in {charged[day], charged[day] + 1}
    BY <1>2, <1>8
  <2> QED
    BY <2>1, <2>2, <2>3
<1> QED
  BY <1>5, <1>6, <1>7, <1>8 DEF BudgetInv, ChargesCovered, BudgetHolds

LEMMA BudgetSteps == BudgetInv /\ [ResearchNext]_researchVars => BudgetInv'
<1> SUFFICES ASSUME BudgetInv, [ResearchNext]_researchVars PROVE BudgetInv'
  OBVIOUS
<1>1. Limit \in Nat /\ MaxDay \in Nat /\ Days \subseteq Nat
  BY ResearchAssumption DEF Days
<1>2. ASSUME UNCHANGED <<day, usedOn, used, charged, askedOn>>, asking' \in {asking, NoQuery}
      PROVE  BudgetInv'
  BY <1>2 DEF BudgetInv, CountsTyped, ChargesCovered, BudgetHolds, UsedOf
<1>3. CASE ChangeSettings \/ PollStatus \/ StartRefresh \/ FinishRefresh \/ LookupFailed \/ KillService
           \/ UNCHANGED researchVars
  BY <1>2, <1>3 DEF ChangeSettings, PollStatus, StartRefresh, FinishRefresh, LookupFailed,
     KillService, researchVars, researchFile
<1>4. ASSUME NEW t \in Query, Ask(t) PROVE BudgetInv'
  <2>1. askedOn' = day /\ UNCHANGED <<day, usedOn, used, charged>>
    BY <1>4 DEF Ask, researchFile
  <2>2. UsedOf(day) < Limit
    BY <1>1, <1>4 DEF Ask, Affords, Remaining, UsedOf, BudgetInv, CountsTyped
  <2>3. day \in Days => charged[day] < Limit
    BY <1>1, <2>2 DEF BudgetInv, CountsTyped, ChargesCovered, UsedOf
  <2> QED
    BY <2>1, <2>3 DEF BudgetInv, CountsTyped, ChargesCovered, BudgetHolds, UsedOf
<1>5. CASE Answered \/ RateLimited
  BY <1>5, ChargingSteps DEF Answered, RateLimited
<1>6. CASE NextDay
  <2>1. day' = day + 1 /\ UNCHANGED <<asking, askedOn, usedOn, used, charged>>
    BY <1>6 DEF NextDay, researchFile
  <2>2. CountsTyped' /\ BudgetHolds'
    BY <2>1 DEF BudgetInv, CountsTyped, BudgetHolds
  <2>3. \A d \in Days : d > day' => charged'[d] = 0
    BY <1>1, <2>1 DEF BudgetInv, CountsTyped, ChargesCovered
  <2>4. day' \in Days => charged'[day'] = 0
    BY <1>1, <2>1 DEF BudgetInv, CountsTyped, ChargesCovered
  <2>5. UsedOf(day)' \in Nat
    BY <2>1 DEF BudgetInv, CountsTyped, UsedOf
  <2> QED
    BY <2>1, <2>2, <2>3, <2>4, <2>5 DEF BudgetInv, ChargesCovered
<1>7. CASE LoseFile
  <2>1. /\ charged' = [d \in Days |-> 0] /\ usedOn' = 0 /\ used' = 0
        /\ UNCHANGED <<day, asking, askedOn>>
    BY <1>7 DEF LoseFile
  <2>2. asking # NoQuery /\ askedOn \in Days => 0 < Limit
    BY <1>1 DEF BudgetInv, CountsTyped, ChargesCovered
  <2> QED
    BY <1>1, <2>1, <2>2 DEF BudgetInv, CountsTyped, ChargesCovered, BudgetHolds, UsedOf
<1> QED
  BY <1>3, <1>4, <1>5, <1>6, <1>7 DEF ResearchNext

\* No day is charged more queries than the settings allow, wherever midnight, a crash or
\* the loss of the file falls (research.ts:99-120, search.ts:396-407).
THEOREM BudgetAlwaysHolds == ResearchSpec => []BudgetHolds
<1>1. BudgetInv => BudgetHolds
  BY DEF BudgetInv
<1> QED
  BY <1>1, BudgetStart, BudgetSteps, PTL DEF ResearchSpec
-----------------------------------------------------------------------------
(* Downloads *)

\* At most one stream, and while there is one its download has no outcome.
OneStream ==
    /\ \A m, n \in streams : m = n
    /\ streams # {} => ~Done(pull) /\ pull # None

LEMMA OneStreamSteps == OneStream /\ [ModelsNext]_modelsVars => OneStream'
<1> SUFFICES ASSUME OneStream, [ModelsNext]_modelsVars PROVE OneStream'
  OBVIOUS
<1> USE DEF OneStream, Done, None, inService
<1>1. ASSUME NEW w \in Wizard, StartPull(w) PROVE OneStream'
  BY <1>1 DEF StartPull, PullAllowed
<1>2. ASSUME NEW m \in Model, Progress(m) \/ PullEnds(m) \/ PullBreaks(m) PROVE OneStream'
  BY <1>2 DEF Progress, PullEnds, PullBreaks
<1>3. CASE KillPulls
  BY <1>3 DEF KillPulls
<1>4. CASE UNCHANGED inService
  BY <1>4
<1> QED
  BY <1>1, <1>2, <1>3, <1>4 DEF ModelsNext, CheckOllama, ReenterStep, PollPull, ShowPull,
     ProbeContext, TakeSuggestion, ChooseModel, StartOrStopOllama, modelsVars

\* The outcome of a download stays until the next one starts or the service dies: there is
\* no other stream whose line could write over it (api.ts:409-431).
THEOREM OutcomeAlwaysStays == ModelsSpec => OutcomeStays
<1>1. ModelsInit => OneStream
  BY DEF ModelsInit, OneStream
<1>2. OneStream /\ [ModelsNext]_modelsVars
        => [Done(pull) /\ pull # pull' => pull' = None \/ pull'.status = "starting"]_modelsVars
  <2> SUFFICES ASSUME OneStream, ModelsNext, Done(pull), pull # pull'
               PROVE  pull' = None \/ pull'.status = "starting"
    OBVIOUS
  <2>1. streams = {}
    BY DEF OneStream
  <2>2. (\E w \in Wizard : StartPull(w)) \/ KillPulls
    BY <2>1 DEF ModelsNext, CheckOllama, ReenterStep, PollPull, ShowPull, ProbeContext,
       TakeSuggestion, ChooseModel, StartOrStopOllama, Progress, PullEnds, PullBreaks, inService
  <2> QED
    BY <2>2 DEF StartPull, KillPulls
<1> QED
  BY <1>1, <1>2, OneStreamSteps, PTL DEF ModelsSpec, OutcomeStays

\* A wizard that polls shows a download.
ShownIsTold == \A w \in Wizard : \A p, q \in answer[w] : p = q

ModelsInv == ModelsTypeOK /\ ShownIsTold

LEMMA ModelsStart == ModelsInit => ModelsInv
<1>1. Cardinality({}) = 0
  BY FS_EmptySet
<1> QED
  BY <1>1 DEF ModelsInit, ModelsInv, ModelsTypeOK, ShownIsTold

LEMMA ModelsWizardSteps ==
    ASSUME ModelsInv, NEW w \in Wizard,
           \/ CheckOllama(w) \/ ReenterStep(w) \/ StartPull(w) \/ PollPull(w) \/ ShowPull(w)
           \/ ProbeContext(w) \/ TakeSuggestion(w)
           \/ \E m \in Model, size \in Contexts : ChooseModel(w, m, size)
    PROVE  ModelsInv'
<1> USE DEF ModelsInv, ModelsTypeOK, ShownIsTold, ollama, inService
<1>1. /\ Cardinality({}) = 0 /\ \A p : Cardinality({p}) = 1
      /\ Contexts \subseteq Nat
  BY FS_EmptySet, FS_Singleton, ModelsAssumption
<1>2. CASE CheckOllama(w)
  <2>1. Detected \in SUBSET SUBSET Model
    BY DEF Detected
  <2> QED
    BY <1>2, <2>1 DEF CheckOllama
<1>3. CASE ReenterStep(w)
  BY <1>1, <1>3 DEF ReenterStep
<1>4. CASE StartPull(w)
  <2>1. pull' \in Pull
    BY <1>4 DEF StartPull, Pull
  <2> QED
    BY <1>4, <2>1 DEF StartPull
<1>5. CASE PollPull(w)
  <2> DEFINE told == IF pull = None THEN Idle ELSE pull
  <2>1. told \in Pull \cup {Idle}
    OBVIOUS
  <2>2. answer' = [answer EXCEPT ![w] = {told}]
    BY <1>5 DEF PollPull
  <2> HIDE DEF told
  <2>3. answer' \in [Wizard -> SUBSET (Pull \cup {Idle})]
    BY <2>1, <2>2
  <2>4. ASSUME NEW v \in Wizard
        PROVE  Cardinality(answer'[v]) <= 1 /\ \A p, q \in answer'[v] : p = q
    <3>1. answer'[v] = answer[v] \/ answer'[v] = {told}
      BY <2>2
    <3>2. CASE answer'[v] = answer[v]
      BY <3>2
    <3>3. CASE answer'[v] = {told}
      <4>1. Cardinality({told}) = 1 /\ \A p, q \in {told} : p = q
        BY <1>1
      <4>2. Cardinality(answer'[v]) = 1
        BY <3>3, <4>1
      <4> QED
        BY <3>3, <4>1, <4>2
    <3> QED
      BY <3>1, <3>2, <3>3
  <2> QED
    BY <1>5, <2>3, <2>4 DEF PollPull
<1>6. CASE ShowPull(w)
  BY <1>1, <1>6 DEF ShowPull
<1>7. CASE ProbeContext(w)
  <2>1. probe' \in [Wizard -> {"none", "fits", "raise", "failed"}]
    BY <1>7 DEF ProbeContext
  <2> QED
    BY <1>7, <2>1 DEF ProbeContext
<1>8. CASE TakeSuggestion(w)
  BY <1>8 DEF TakeSuggestion
<1>9. CASE \E m \in Model, size \in Contexts : ChooseModel(w, m, size)
  BY <1>9 DEF ChooseModel
<1> QED
  BY <1>2, <1>3, <1>4, <1>5, <1>6, <1>7, <1>8, <1>9

LEMMA ModelsSteps == ModelsInv /\ [ModelsNext]_modelsVars => ModelsInv'
<1> SUFFICES ASSUME ModelsInv, [ModelsNext]_modelsVars PROVE ModelsInv'
  OBVIOUS
<1>1. ASSUME NEW m \in Model, Progress(m) \/ PullEnds(m) \/ PullBreaks(m) PROVE ModelsInv'
  <2>1. /\ pull' \in Pull /\ streams' \subseteq streams /\ models' \subseteq models \cup {m}
        /\ UNCHANGED <<running, inWizard>>
    BY <1>1 DEF Progress, PullEnds, PullBreaks, Pull, ollama
  <2> QED
    BY <2>1 DEF ModelsInv, ModelsTypeOK, ShownIsTold, inWizard
<1>2. CASE StartOrStopOllama \/ KillPulls
  BY <1>2 DEF StartOrStopOllama, KillPulls, ModelsInv, ModelsTypeOK, ShownIsTold, ollama,
     inService, inWizard
<1>3. CASE UNCHANGED modelsVars
  BY <1>3 DEF modelsVars, ModelsInv, ModelsTypeOK, ShownIsTold, ollama, inService, inWizard
<1> QED
  BY <1>1, <1>2, <1>3, ModelsWizardSteps DEF ModelsNext

\* The records of a download and what the wizards show of it are well typed, with one answer
\* on its way to a wizard at most (api.ts:404-433, Wizard.tsx ModelStep).
THEOREM ModelsTypeCorrect == ModelsSpec => []ModelsTypeOK
<1>1. ModelsInv => ModelsTypeOK
  BY DEF ModelsInv
<1> QED
  BY <1>1, ModelsStart, ModelsSteps, PTL DEF ModelsSpec
-----------------------------------------------------------------------------
(* Setting up *)

\* Every phrase in use was made, and a handler that registers does so with the keys on disk.
PhrasesKnown ==
    /\ made \subseteq Phrase /\ accounts \subseteq made /\ paper \subseteq made
    /\ \A w \in Window :
          /\ typed[w] \in made \cup {NoPhrase}
          /\ phrase[w] \in made \cup {NoPhrase}
          /\ request[w] = "registering" => keys = typed[w] /\ keys # NoPhrase

\* A window that waits for its setup is at the wizard's last step before it, and a phrase
\* that is not on paper is on the screen.
ScreensKept ==
    \A w \in Window :
        /\ heard[w] => screen[w] = "wizard" /\ step[w] = "model"
        /\ phrase[w] # NoPhrase =>
              /\ screen[w] = "wizard"
              /\ step[w] = "recovery" \/ (step[w] = "pair" /\ phrase[w] \in paper)

SetupInv == SetupTypeOK /\ PhrasesKnown /\ ScreensKept

LEMMA SetupStart == SetupInit => SetupInv
BY SetupAssumption DEF SetupInit, SetupInv, SetupTypeOK, PhrasesKnown, ScreensKept

\* A handler ends with an error, and perhaps with an account on the server.
LEMMA FailingSteps ==
    ASSUME SetupInv, NEW w \in Window, Fails(w), UNCHANGED <<files, made, paper, windows, kills>>,
           accounts' = accounts \/ (request[w] = "registering" /\ accounts' = accounts \cup {typed[w]})
    PROVE  SetupInv'
<1>1. accounts' \subseteq made
  BY DEF SetupInv, PhrasesKnown
<1>2. SetupTypeOK'
  BY <1>1 DEF SetupInv, SetupTypeOK, Fails, files, windows
<1>3. PhrasesKnown'
  BY <1>1 DEF SetupInv, SetupTypeOK, PhrasesKnown, Fails, files, windows
<1>4. ScreensKept'
  BY DEF SetupInv, SetupTypeOK, ScreensKept, Fails, windows
<1> QED
  BY <1>2, <1>3, <1>4 DEF SetupInv

\* What a window does by itself.
Walking(w) ==
    \/ OpenWindow(w) \/ PollWindow(w) \/ CloseWindow(w)
    \/ \E m \in {"new", "restore"} : ChooseMode(w, m)
    \/ \E from, to \in {"start", "form", "model"} : Walk(w, from, to)
    \/ ConfirmPhrase(w) \/ FinishWizard(w)

LEMMA WalkingSteps ==
    ASSUME SetupInv, NEW w \in Window, Walking(w)
    PROVE  SetupInv'
<1> USE DEF SetupInv, SetupTypeOK, PhrasesKnown, ScreensKept, files, windows, requests
<1>1. CASE OpenWindow(w) \/ PollWindow(w)
  BY <1>1 DEF OpenWindow, PollWindow, PolledScreen
<1>2. CASE CloseWindow(w)
  BY <1>2 DEF CloseWindow
<1>3. ASSUME NEW m \in {"new", "restore"}, ChooseMode(w, m) PROVE SetupInv'
  BY <1>3 DEF ChooseMode, AtStep
<1>4. ASSUME NEW from \in {"start", "form", "model"}, NEW to \in {"start", "form", "model"},
             Walk(w, from, to)
      PROVE  SetupInv'
  BY <1>4 DEF Walk, AtStep
<1>5. CASE ConfirmPhrase(w)
  BY <1>5 DEF ConfirmPhrase, AtStep
<1>6. CASE FinishWizard(w)
  BY <1>6 DEF FinishWizard, AtStep
<1> QED
  BY <1>1, <1>2, <1>3, <1>4, <1>5, <1>6 DEF Walking

\* Keys are written where there are none, so no other handler is registering.
LEMMA WritingSteps ==
    ASSUME SetupInv, NEW w \in Window, Submit(w) \/ WriteKeys(w)
    PROVE  SetupInv'
<1> USE DEF SetupInv, SetupTypeOK, PhrasesKnown, ScreensKept, files, windows
<1>1. CASE Submit(w)
  BY <1>1 DEF Submit, AtStep
<1>2. CASE WriteKeys(w)
  <2>1. PICK p \in IF typed[w] = NoPhrase THEN Phrase \ made ELSE {typed[w]} :
            /\ keys = NoPhrase /\ keys' = p
            /\ made' = made \cup {p}
            /\ typed' = [typed EXCEPT ![w] = p]
    BY <1>2 DEF WriteKeys, Writes
  <2>2. p \in Phrase /\ p # NoPhrase
    BY <2>1, SetupAssumption
  <2>3. /\ request' = [request EXCEPT ![w] = "registering"]
        /\ UNCHANGED <<config, accounts, paper, windows, heard, kills>>
    BY <1>2 DEF WriteKeys
  <2>4. \A v \in Window : request[v] # "registering"
    BY <2>1
  <2> QED
    BY <2>1, <2>2, <2>3, <2>4
<1> QED
  BY <1>1, <1>2

LEMMA RegisterSteps ==
    ASSUME SetupInv, NEW w \in Window, Register(w)
    PROVE  SetupInv'
<1> USE DEF SetupInv, SetupTypeOK, PhrasesKnown, ScreensKept
<1>1. typed[w] \in made /\ typed[w] \in Phrase /\ typed[w] # NoPhrase
  BY DEF Register
<1>2. SetupTypeOK'
  BY <1>1 DEF Register, Fails
<1>3. PhrasesKnown'
  BY <1>1 DEF Register, Fails
<1>4. ScreensKept'
  BY DEF Register, Fails
<1> QED
  BY <1>2, <1>3, <1>4

LEMMA SetupSteps == SetupInv /\ [SetupNext]_setupVars => SetupInv'
<1> SUFFICES ASSUME SetupInv, [SetupNext]_setupVars PROVE SetupInv'
  OBVIOUS
<1>1. ASSUME NEW w \in Window, Walking(w) PROVE SetupInv'
  BY <1>1, WalkingSteps
<1>2. ASSUME NEW w \in Window, Submit(w) \/ WriteKeys(w) PROVE SetupInv'
  BY <1>2, WritingSteps
<1>3. ASSUME NEW w \in Window, NEW reached \in BOOLEAN,
             BadVault(w) \/ RefuseKeys(w) \/ RegisterFails(w, reached)
      PROVE  SetupInv'
  BY <1>3, FailingSteps DEF BadVault, RefuseKeys, RegisterFails
<1>4. ASSUME NEW w \in Window, Register(w) PROVE SetupInv'
  BY <1>4, RegisterSteps
<1> USE DEF SetupInv, SetupTypeOK, PhrasesKnown, ScreensKept, files, windows, requests
<1>5. CASE KillSetup
  BY <1>5 DEF KillSetup
<1>6. CASE LoseFiles
  BY <1>6 DEF LoseFiles
<1>7. CASE UNCHANGED setupVars
  BY <1>7 DEF setupVars
<1> QED
  BY <1>1, <1>2, <1>3, <1>4, <1>5, <1>6, <1>7 DEF SetupNext, Walking

LEMMA SetupInvHolds == SetupSpec => []SetupInv
BY SetupStart, SetupSteps, PTL DEF SetupSpec

\* The state of any number of windows and handlers is well typed.
THEOREM SetupTypeCorrect == SetupSpec => []SetupTypeOK
BY SetupInvHolds, PTL DEF SetupInv

\* A recovery phrase is shown until it is written down or its window closed (App.tsx:9-15).
THEOREM PhraseAlwaysShown == SetupSpec => []PhraseStaysShown
<1>1. SetupInv => PhraseStaysShown
  BY DEF SetupInv, ScreensKept, PhraseStaysShown
<1> QED
  BY <1>1, SetupInvHolds, PTL

\* Only the user takes keys away, and nothing writes over them (keystore.ts:50-75).
THEOREM KeysAreNeverReplaced == SetupSpec => KeysNeverReplaced
<1>1. [SetupNext]_setupVars => [keys' \in {keys, NoPhrase} \/ keys = NoPhrase]_setupVars
  BY DEF SetupNext, OpenWindow, PollWindow, CloseWindow, ChooseMode, Walk, ConfirmPhrase,
     FinishWizard, Submit, BadVault, WriteKeys, Writes, RefuseKeys, RegisterFails, Register,
     KillSetup, LoseFiles, files
<1> QED
  BY <1>1, PTL DEF SetupSpec, KeysNeverReplaced

\* A configuration that is saved is of the keys on disk, and of a device the server knows,
\* whatever happened between the two awaits of the handler (api.ts:257-309, 336-375).
THEOREM ConfigAlwaysNamesTheKeys == SetupSpec => ConfigNamesTheKeys
<1>1. SetupInv /\ [SetupNext]_setupVars
        => [config' \notin {config, NoPhrase} => config' = keys' /\ config' \in accounts']_setupVars
  <2> SUFFICES ASSUME SetupInv, SetupNext, config' \notin {config, NoPhrase}
               PROVE  config' = keys' /\ config' \in accounts'
    OBVIOUS
  <2>1. PICK w \in Window : Register(w)
    BY DEF SetupNext, OpenWindow, PollWindow, CloseWindow, ChooseMode, Walk, ConfirmPhrase,
       FinishWizard, Submit, BadVault, WriteKeys, RefuseKeys, RegisterFails, KillSetup,
       LoseFiles, files
  <2> QED
    BY <2>1 DEF Register, SetupInv, PhrasesKnown
<1> QED
  BY <1>1, SetupInvHolds, PTL DEF SetupSpec, ConfigNamesTheKeys
-----------------------------------------------------------------------------
(* Cutting the drawings out *)

LEMMA RoundedBounds ==
    ASSUME NEW a \in Nat, NEW b \in Nat, b > 0
    PROVE  /\ Rounded(a, b) \in Nat
           /\ 2 * (b * Rounded(a, b)) <= 2 * a + b
           /\ 2 * a - b < 2 * (b * Rounded(a, b))
<1> DEFINE m == 2 * a + b
           n == 2 * b
<1>1. m \in Nat /\ n \in Nat /\ n > 0
  OBVIOUS
<1>2. /\ m \div n \in Nat
      /\ n * (m \div n) <= m
      /\ m < n * (m \div n) + n
  <2> HIDE DEF m, n
  <2> QED
    BY <1>1
<1>3. \A q \in Nat : n * q = 2 * (b * q)
  OBVIOUS
<1> HIDE DEF m, n
<1>4. Rounded(a, b) = m \div n
  BY DEF Rounded, m, n
<1> QED
  BY <1>1, <1>2, <1>3, <1>4 DEF m, n

\* A band that is high enough to be cut and lies on the reduced copy.
OnPage(band) == band \in Band /\ MinPixels <= band.height /\ Bottom(band) <= Prepared

\* All of a box, as the model found it, is on the band.
Shows(band, b) ==
    /\ 100 * band.top <= b.y * Prepared
    /\ (b.y + High(b)) * Prepared <= 100 * Bottom(band)

\* Padding is at least a pixel, which is what the two roundings can take away.
LEMMA PaddedShows ==
    ASSUME NEW b \in Box, Plausible(b), Padded(b).height >= MinPixels
    PROVE  OnPage(Padded(b)) /\ Shows(Padded(b), b)
<1> DEFINE y == Larger(0, b.y - Pad)
           h == Smaller(High(b) + (b.y - y) + Pad, 100 - y)
           top == Rounded(y * Prepared, 100)
           tall == Rounded(h * Prepared, 100)
           height == Smaller(tall, Prepared - top)
<1>1. Padded(b) = [top |-> top, height |-> height]
  BY DEF Padded
<1>2. /\ Prepared \in Nat \ {0} /\ Pad \in Nat /\ MinPixels \in Nat
      /\ 100 <= Pad * MinPixels
  BY CropsAssumption
<1>3. b.y \in 0 .. 99 /\ b.h \in Int /\ b.h > 0
  BY CropsAssumption DEF Plausible
<1>4. High(b) \in Nat /\ High(b) <= 100 - b.y
  BY <1>3 DEF High, Smaller
<1>5. y \in Nat /\ y <= b.y /\ (y = 0 \/ y = b.y - Pad)
  BY <1>2, <1>3 DEF Larger
<1> HIDE DEF y, h
<1>6. h \in Nat /\ h <= 100 - y /\ (h = 100 - y \/ y + h = b.y + High(b) + Pad)
  <2> DEFINE n == High(b) + (b.y - y) + Pad
  <2>1. n \in Nat /\ y + n = b.y + High(b) + Pad
    <3>1. Pad \in Nat /\ b.y \in Nat
      BY <1>2, <1>3
    <3>2. b.y - y \in Nat
      BY <3>1, <1>5
    <3> QED
      BY <3>1, <3>2, <1>4, <1>5
  <2>2. 100 - y \in Nat
    BY <1>3, <1>5
  <2> HIDE DEF n
  <2>3. h = Smaller(n, 100 - y)
    BY DEF n, h
  <2>4. h \in {n, 100 - y} /\ h <= 100 - y
    BY <2>1, <2>2, <2>3 DEF Smaller
  <2> QED
    BY <1>5, <2>1, <2>2, <2>4
<1>7. /\ y * Prepared \in Nat /\ h * Prepared \in Nat
      /\ y * Prepared + h * Prepared = (y + h) * Prepared
  BY <1>2, <1>5, <1>6
<1>8. /\ top \in Nat
      /\ 200 * top <= 2 * (y * Prepared) + 100
      /\ 2 * (y * Prepared) - 100 < 200 * top
  <2>1. /\ top \in Nat
        /\ 2 * (100 * top) <= 2 * (y * Prepared) + 100
        /\ 2 * (y * Prepared) - 100 < 2 * (100 * top)
    <3> DEFINE m == y * Prepared
    <3>1. m \in Nat /\ 100 \in Nat /\ 100 > 0
      BY <1>7
    <3> HIDE DEF m
    <3>2. /\ Rounded(m, 100) \in Nat
          /\ 2 * (100 * Rounded(m, 100)) <= 2 * m + 100
          /\ 2 * m - 100 < 2 * (100 * Rounded(m, 100))
      BY <3>1, RoundedBounds
    <3> QED
      BY <3>2 DEF m
  <2> HIDE DEF top
  <2> QED
    BY <2>1
<1>9. /\ tall \in Nat
      /\ 2 * (h * Prepared) - 100 < 200 * tall
  <2>1. /\ tall \in Nat
        /\ 2 * (h * Prepared) - 100 < 2 * (100 * tall)
    <3> DEFINE m == h * Prepared
    <3>1. m \in Nat /\ 100 \in Nat /\ 100 > 0
      BY <1>7
    <3> HIDE DEF m
    <3>2. /\ Rounded(m, 100) \in Nat
          /\ 2 * m - 100 < 2 * (100 * Rounded(m, 100))
      BY <3>1, RoundedBounds
    <3> QED
      BY <3>2 DEF m
  <2> HIDE DEF tall
  <2> QED
    BY <2>1
<1> HIDE DEF top, tall
<1>10. /\ height \in Nat /\ MinPixels <= height
       /\ height <= Prepared - top
       /\ height = tall \/ height = Prepared - top
  BY <1>1, <1>2, <1>8, <1>9 DEF Smaller
<1> HIDE DEF height
<1>11. OnPage(Padded(b))
  BY <1>1, <1>2, <1>8, <1>10 DEF OnPage, Band, Bottom
<1>12. 100 <= Pad * Prepared
  <2>1. MinPixels <= Prepared
    BY <1>2, <1>8, <1>10
  <2>2. Pad * MinPixels <= Pad * Prepared
    BY <1>2, <2>1
  <2> QED
    BY <1>2, <2>2
<1>13. 100 * top <= b.y * Prepared
  <2>1. CASE y = 0
    <3>1. 200 * top <= 100
      BY <1>2, <1>8, <2>1
    <3>2. b.y * Prepared \in Nat
      BY <1>2, <1>3
    <3> QED
      BY <1>8, <3>1, <3>2
  <2>2. CASE y = b.y - Pad
    <3>1. y * Prepared = b.y * Prepared - Pad * Prepared
      BY <1>2, <1>3, <2>2
    <3>2. b.y * Prepared \in Nat /\ Pad * Prepared \in Nat
      BY <1>2, <1>3
    <3> QED
      BY <1>7, <1>8, <1>12, <3>1, <3>2
  <2> QED
    BY <1>5, <2>1, <2>2
<1>14. (b.y + High(b)) * Prepared <= 100 * (top + height)
  <2> DEFINE end == b.y + High(b)
             foot == top + height
             m == end * Prepared
  <2> SUFFICES m <= 100 * foot
    OBVIOUS
  <2>1. end \in Nat /\ end <= 100
    BY <1>3, <1>4
  <2>2. y + h = 100 \/ y + h = end + Pad
    BY <1>3, <1>4, <1>5, <1>6
  <2> HIDE DEF end
  <2>3. m \in Nat /\ m <= 100 * Prepared
    BY <1>2, <2>1
  <2>4. foot \in Nat /\ (foot = Prepared \/ foot = top + tall)
    BY <1>2, <1>8, <1>9, <1>10
  <2>5. 2 * ((y + h) * Prepared) - 200 < 200 * (top + tall)
    BY <1>7, <1>8, <1>9
  <2>6. (end + Pad) * Prepared = m + Pad * Prepared
    BY <1>2, <2>1
  <2>7. Pad * Prepared \in Nat
    BY <1>2
  <2> HIDE DEF m, foot
  <2>8. CASE foot = Prepared
    BY <2>3, <2>8
  <2>9. CASE foot = top + tall /\ y + h = 100
    <3>1. 2 * (100 * Prepared) - 200 < 200 * foot
      BY <2>5, <2>9
    <3>2. Prepared <= foot
      BY <1>2, <2>4, <3>1
    <3> QED
      BY <1>2, <2>3, <2>4, <3>2
  <2>10. CASE foot = top + tall /\ y + h = end + Pad
    <3>1. 2 * (m + Pad * Prepared) - 200 < 200 * foot
      BY <2>5, <2>6, <2>10
    <3> QED
      BY <1>12, <2>3, <2>4, <2>7, <3>1
  <2> QED
    BY <2>2, <2>4, <2>8, <2>9, <2>10
<1> QED
  BY <1>1, <1>11, <1>13, <1>14 DEF Shows, Bottom

\* Growing takes nothing off a band, and does not leave the page.
LEMMA HullShows ==
    ASSUME NEW b1, NEW b2, OnPage(b1), OnPage(b2)
    PROVE  /\ OnPage(Hull(b1, b2))
           /\ \A b : b.y \in Nat /\ High(b) \in Nat /\ (Shows(b1, b) \/ Shows(b2, b))
                        => Shows(Hull(b1, b2), b)
<1>1. Prepared \in Nat /\ MinPixels \in Nat
  BY CropsAssumption
<1>2. /\ b1.top \in Nat /\ b1.height \in Nat /\ MinPixels <= b1.height /\ b1.top + b1.height <= Prepared
      /\ b2.top \in Nat /\ b2.height \in Nat /\ MinPixels <= b2.height /\ b2.top + b2.height <= Prepared
  BY DEF OnPage, Band, Bottom
<1> DEFINE hull == Hull(b1, b2)
<1>3. /\ hull \in Band
      /\ hull.top \in Nat /\ hull.height \in Nat
      /\ hull.top <= b1.top /\ hull.top <= b2.top
      /\ Bottom(b1) <= Bottom(hull) /\ Bottom(b2) <= Bottom(hull)
      /\ Bottom(hull) \in {Bottom(b1), Bottom(b2)}
  BY <1>2 DEF Hull, Band, Bottom, Smaller, Larger
<1>4. Bottom(b1) \in Nat /\ Bottom(b2) \in Nat /\ Bottom(hull) \in Nat
  BY <1>2, <1>3 DEF Bottom
<1>5. OnPage(hull)
  BY <1>1, <1>2, <1>3 DEF OnPage, Bottom
<1> HIDE DEF hull
<1>6. ASSUME NEW b, b.y \in Nat, High(b) \in Nat, Shows(b1, b) \/ Shows(b2, b)
      PROVE  Shows(hull, b)
  <2>1. b.y * Prepared \in Nat /\ (b.y + High(b)) * Prepared \in Nat
    BY <1>1, <1>6
  <2> QED
    BY <1>2, <1>3, <1>4, <1>6, <2>1 DEF Shows
<1> QED
  BY <1>5, <1>6 DEF hull

\* The rounding into the photograph takes less than a pixel at either side, and a photograph
\* that is no smaller keeps the band high enough.
LEMMA ScaledShows ==
    ASSUME NEW band, OnPage(band), NEW b, b.y \in Nat, High(b) \in Nat, b.y + High(b) <= 100,
           Shows(band, b)
    PROVE  LET c == Scaled(band)
           IN  /\ c.height > MinScaled
               /\ (c.top - 1) * 100 <= b.y * Original
               /\ (b.y + High(b)) * Original <= (Bottom(c) + 1) * 100
<1> DEFINE top == Rounded(band.top * Original, Prepared)
           tall == Rounded(band.height * Original, Prepared)
           height == Smaller(tall, Original - top)
           end == b.y + High(b)
<1>1. Scaled(band) = [top |-> top, height |-> height]
  BY DEF Scaled
<1>2. /\ Prepared \in Nat /\ Original \in Nat /\ Prepared > 0 /\ Prepared <= Original
      /\ MinPixels \in Nat /\ MinScaled \in Nat /\ MinScaled < MinPixels
  BY CropsAssumption
<1>3. /\ band.top \in Nat /\ band.height \in Nat
      /\ MinPixels <= band.height /\ band.top + band.height <= Prepared
  BY DEF OnPage, Band, Bottom
<1>4. band.top * Original \in Nat /\ band.height * Original \in Nat
  BY <1>2, <1>3
<1>5. /\ top \in Nat
      /\ 2 * (Prepared * top) <= 2 * (band.top * Original) + Prepared
      /\ 2 * (band.top * Original) - Prepared < 2 * (Prepared * top)
  BY <1>2, <1>4, RoundedBounds
<1>6. /\ tall \in Nat
      /\ 2 * (band.height * Original) - Prepared < 2 * (Prepared * tall)
  BY <1>2, <1>4, RoundedBounds
<1> HIDE DEF top, tall
<1>7. end \in Nat /\ end <= 100 /\ 100 * band.top <= b.y * Prepared
        /\ end * Prepared <= 100 * (band.top + band.height)
  BY DEF Shows, Bottom
<1> HIDE DEF end
<1>8. MinPixels <= tall
  <2>1. MinPixels * Prepared <= band.height * Original
    <3>1. MinPixels * Prepared <= band.height * Prepared
      BY <1>2, <1>3
    <3>2. band.height * Prepared <= band.height * Original
      BY <1>2, <1>3
    <3> QED
      BY <1>2, <1>3, <1>4, <3>1, <3>2
  <2>2. ASSUME tall <= MinPixels - 1 PROVE FALSE
    <3>1. Prepared * tall <= Prepared * (MinPixels - 1)
      BY <1>2, <1>6, <2>2
    <3>2. Prepared * (MinPixels - 1) = MinPixels * Prepared - Prepared
      BY <1>2
    <3>3. MinPixels * Prepared \in Nat /\ Prepared * tall \in Nat
      BY <1>2, <1>6
    <3> QED
      BY <1>2, <1>4, <1>6, <2>1, <3>1, <3>2, <3>3
  <2> QED
    BY <1>2, <1>6, <2>2
<1>9. MinPixels <= Original - top
  <2>1. band.top * Original + MinPixels * Prepared <= Original * Prepared
    <3>1. (band.top + MinPixels) * Original <= Prepared * Original
      BY <1>2, <1>3
    <3>2. MinPixels * Prepared <= MinPixels * Original
      BY <1>2
    <3>3. (band.top + MinPixels) * Original = band.top * Original + MinPixels * Original
      BY <1>2, <1>3
    <3>4. MinPixels * Prepared \in Nat /\ MinPixels * Original \in Nat /\ Prepared * Original \in Nat
      BY <1>2
    <3> QED
      BY <1>2, <1>4, <3>1, <3>2, <3>3, <3>4
  <2>2. ASSUME Original - top <= MinPixels - 1 PROVE FALSE
    <3>1. Original + 1 <= top + MinPixels
      BY <1>2, <1>5, <2>2
    <3>2. Prepared * (Original + 1) <= Prepared * (top + MinPixels)
      BY <1>2, <1>5, <3>1
    <3>3. /\ Prepared * (Original + 1) = Original * Prepared + Prepared
          /\ Prepared * (top + MinPixels) = Prepared * top + MinPixels * Prepared
      BY <1>2, <1>5
    <3>4. MinPixels * Prepared \in Nat /\ Original * Prepared \in Nat /\ Prepared * top \in Nat
      BY <1>2, <1>5
    <3> QED
      BY <1>2, <1>4, <1>5, <2>1, <3>2, <3>3, <3>4
  <2> QED
    BY <1>2, <1>5, <2>2
<1>10. height \in Nat /\ MinPixels <= height /\ (height = tall \/ height = Original - top)
  BY <1>2, <1>5, <1>6, <1>8, <1>9 DEF Smaller
<1> HIDE DEF height
<1>11. (top - 1) * 100 <= b.y * Original
  <2>1. (100 * band.top) * Original <= (b.y * Prepared) * Original
    <3>1. b.y * Prepared \in Nat
      BY <1>2
    <3> QED
      BY <1>2, <1>3, <1>7, <3>1
  <2>2. ASSUME b.y * Original < (top - 1) * 100 PROVE FALSE
    <3> DEFINE m == b.y * Original
    <3>1. m \in Nat /\ m + 100 < 100 * top
      BY <1>2, <1>5, <2>2
    <3> HIDE DEF m
    <3>2. Prepared * (m + 100) <= Prepared * (100 * top)
      BY <1>2, <1>5, <3>1
    <3>3. /\ Prepared * (m + 100) = Prepared * m + 100 * Prepared
          /\ Prepared * (100 * top) = 100 * (Prepared * top)
      BY <1>2, <1>5, <3>1
    <3>4. Prepared * m = (b.y * Prepared) * Original
      BY <1>2 DEF m
    <3>5. (100 * band.top) * Original = 100 * (band.top * Original)
      BY <1>2, <1>3
    <3>6. Prepared * m \in Nat /\ Prepared * top \in Nat
      BY <1>2, <1>5, <3>1
    <3> QED
      BY <1>2, <1>4, <1>5, <2>1, <3>2, <3>3, <3>4, <3>5, <3>6
  <2>3. b.y * Original \in Nat /\ (top - 1) * 100 \in Int
    BY <1>2, <1>5
  <2> QED
    BY <2>2, <2>3
<1>12. end * Original <= (top + height + 1) * 100
  <2>1. CASE height = Original - top
    <3>1. end * Original <= 100 * Original
      BY <1>2, <1>7
    <3>2. end * Original \in Nat
      BY <1>2, <1>7
    <3> QED
      BY <1>2, <1>5, <2>1, <3>1, <3>2
  <2>2. CASE height = tall
    <3> DEFINE foot == top + tall + 1
               n == end * Original
    <3>1. (end * Prepared) * Original <= (100 * (band.top + band.height)) * Original
      <4>1. end * Prepared \in Nat
        BY <1>2, <1>7
      <4> QED
        BY <1>2, <1>3, <1>7, <4>1
    <3>2. (100 * (band.top + band.height)) * Original
             = 100 * (band.top * Original) + 100 * (band.height * Original)
      BY <1>2, <1>3
    <3>3. foot \in Nat /\ n \in Nat
      BY <1>2, <1>5, <1>6, <1>7
    <3>4. Prepared * foot = Prepared * top + Prepared * tall + Prepared
      BY <1>2, <1>5, <1>6
    <3>5. Prepared * n = (end * Prepared) * Original
      BY <1>2, <1>7
    <3> HIDE DEF foot, n
    <3>6. Prepared * top \in Nat /\ Prepared * tall \in Nat /\ Prepared * n \in Nat
      BY <1>2, <1>5, <1>6, <3>3
    <3>7. Prepared * n < 100 * (Prepared * foot)
      BY <1>2, <1>4, <1>5, <1>6, <3>1, <3>2, <3>4, <3>5, <3>6
    <3>8. ASSUME 100 * foot < n PROVE FALSE
      <4>1. Prepared * (100 * foot) <= Prepared * n
        BY <1>2, <3>3, <3>8
      <4>2. Prepared * (100 * foot) = 100 * (Prepared * foot)
        BY <1>2, <3>3
      <4>3. Prepared * foot \in Nat
        BY <1>2, <3>3
      <4> QED
        BY <3>6, <3>7, <4>1, <4>2, <4>3
    <3>9. n <= foot * 100
      BY <3>3, <3>8
    <3> QED
      BY <2>2, <3>9 DEF foot, n
  <2> QED
    BY <1>10, <2>1, <2>2
<1> QED
  BY <1>1, <1>2, <1>10, <1>11, <1>12 DEF Bottom, end

\* A band of the answer is on the page and shows its box, a band that is kept is on the page,
\* and the boxes gone through so far are each on a band that is kept.
BandsShow ==
    \A i \in 1 .. Len(detected) :
        Plausible(detected[i]) /\ OnPage(bands[i]) /\ Shows(bands[i], detected[i])

KeptShow ==
    /\ \A k \in 1 .. Len(kept) : OnPage(kept[k])
    /\ \A i \in 1 .. merged : \E k \in 1 .. Len(kept) : Shows(kept[k], detected[i])

CropsInv == CropsTypeOK /\ BandsShow /\ KeptShow

LEMMA CropsStart == CropsInit => CropsInv
BY DEF CropsInit, CropsInv, CropsTypeOK, BandsShow, KeptShow

LEMMA BoxInPercent ==
    ASSUME NEW b \in Box, Plausible(b)
    PROVE  b.y \in Nat /\ High(b) \in Nat /\ b.y + High(b) <= 100
BY CropsAssumption DEF Plausible, High, Smaller

LEMMA TakeBoxSteps ==
    ASSUME CropsInv, NEW b \in Box, TakeBox(b)
    PROVE  CropsInv'
<1>1. /\ OnPage(Padded(b)) /\ Shows(Padded(b), b) /\ Plausible(b)
      /\ detected' = Append(detected, b) /\ bands' = Append(bands, Padded(b))
      /\ UNCHANGED <<merged, kept, parsing>>
  BY PaddedShows DEF TakeBox
<1>2. Padded(b) \in Band
  BY <1>1 DEF OnPage
<1>3. CropsTypeOK'
  BY <1>1, <1>2 DEF CropsInv, CropsTypeOK
<1>4. /\ detected \in Seq(Box) /\ bands \in Seq(Band) /\ kept \in Seq(Band)
      /\ Len(detected) = Len(bands) /\ merged \in 0 .. Len(bands)
  BY DEF CropsInv, CropsTypeOK
<1>5. BandsShow'
  <2> SUFFICES ASSUME NEW i \in 1 .. Len(detected')
               PROVE  Plausible(detected'[i]) /\ OnPage(bands'[i]) /\ Shows(bands'[i], detected'[i])
    BY DEF BandsShow
  <2>1. CASE i = Len(detected) + 1
    <3>1. detected'[i] = b /\ bands'[i] = Padded(b)
      BY <1>1, <1>4, <2>1
    <3> QED
      BY <1>1, <3>1
  <2>2. CASE i \in 1 .. Len(detected)
    <3>1. detected'[i] = detected[i] /\ bands'[i] = bands[i]
      BY <1>1, <1>4, <2>2
    <3> QED
      BY <2>2, <3>1 DEF CropsInv, BandsShow
  <2> QED
    BY <1>1, <1>4, <2>1, <2>2
<1>6. KeptShow'
  <2>1. \A i \in 1 .. merged : detected'[i] = detected[i]
    BY <1>1, <1>4
  <2> QED
    BY <1>1, <2>1 DEF CropsInv, KeptShow
<1> QED
  BY <1>3, <1>5, <1>6 DEF CropsInv

\* A band that grows shows what it showed and what the other one does.
LEMMA MergeSteps ==
    ASSUME CropsInv, MergeBand
    PROVE  CropsInv'
<1> DEFINE n == merged + 1
           band == bands[n]
<1>1. /\ detected \in Seq(Box) /\ bands \in Seq(Band) /\ kept \in Seq(Band)
      /\ Len(detected) = Len(bands) /\ merged \in 0 .. Len(bands)
      /\ merged < Len(bands) /\ merged' = n
      /\ UNCHANGED <<detected, bands, parsing>>
  BY DEF CropsInv, CropsTypeOK, MergeBand
<1>2. n \in 1 .. Len(detected) /\ \A i \in 1 .. n : i \in 1 .. merged \/ i = n
  BY <1>1
<1>3. OnPage(band) /\ Shows(band, detected[n])
  BY <1>2 DEF CropsInv, BandsShow
<1>4. BandsShow'
  BY <1>1 DEF CropsInv, BandsShow
<1>5. CASE \E k \in 1 .. Len(kept) : IsFirstRepeated(k, band) /\ GrowBand(k, band)
  <2>1. PICK k \in 1 .. Len(kept) : GrowBand(k, band)
    BY <1>5
  <2> DEFINE hull == Hull(kept[k], band)
  <2>2. OnPage(kept[k])
    BY DEF CropsInv, KeptShow
  <2>3. /\ OnPage(hull)
        /\ \A b : b.y \in Nat /\ High(b) \in Nat /\ (Shows(kept[k], b) \/ Shows(band, b))
                     => Shows(hull, b)
    BY <1>3, <2>2, HullShows
  <2> HIDE DEF hull
  <2>4. /\ kept' = [kept EXCEPT ![k] = hull]
        /\ hull \in Band
    BY <2>1, <2>3 DEF GrowBand, hull, OnPage
  <2>5. /\ kept' \in Seq(Band) /\ Len(kept') = Len(kept)
        /\ \A j \in 1 .. Len(kept) : kept'[j] = IF j = k THEN hull ELSE kept[j]
    BY <1>1, <2>4
  <2>6. CropsTypeOK'
    BY <1>1, <2>5 DEF CropsInv, CropsTypeOK
  <2>7. \A j \in 1 .. Len(kept') : OnPage(kept'[j])
    BY <2>3, <2>5 DEF CropsInv, KeptShow
  <2>8. ASSUME NEW i \in 1 .. n PROVE \E j \in 1 .. Len(kept') : Shows(kept'[j], detected[i])
    <3>1. i \in 1 .. Len(detected)
      BY <1>1, <1>2
    <3>2. detected[i] \in Box /\ Plausible(detected[i])
      BY <1>1, <3>1 DEF CropsInv, BandsShow
    <3>3. detected[i].y \in Nat /\ High(detected[i]) \in Nat
      BY <3>2, BoxInPercent
    <3>4. CASE i = n
      BY <1>3, <2>3, <2>5, <3>3, <3>4
    <3>5. CASE i \in 1 .. merged
      <4>1. PICK j \in 1 .. Len(kept) : Shows(kept[j], detected[i])
        BY <3>5 DEF CropsInv, KeptShow
      <4>2. Shows(kept'[j], detected[i])
        BY <2>3, <2>5, <3>3, <4>1
      <4> QED
        BY <2>5, <4>2
    <3> QED
      BY <1>2, <3>4, <3>5
  <2> QED
    BY <1>1, <1>4, <2>6, <2>7, <2>8 DEF CropsInv, KeptShow
<1>6. CASE kept' = Append(kept, band)
  <2>1. band \in Band
    BY <1>3 DEF OnPage
  <2>2. /\ kept' \in Seq(Band) /\ Len(kept') = Len(kept) + 1
        /\ \A j \in 1 .. Len(kept) : kept'[j] = kept[j]
        /\ kept'[Len(kept) + 1] = band
    BY <1>1, <1>6, <2>1
  <2>3. \A j \in 1 .. Len(kept) : j \in 1 .. Len(kept')
    BY <1>1, <2>2
  <2>4. Len(kept) + 1 \in 1 .. Len(kept')
        /\ \A j \in 1 .. Len(kept') : j \in 1 .. Len(kept) \/ j = Len(kept) + 1
    BY <1>1, <2>2
  <2>5. CropsTypeOK'
    BY <1>1, <2>2 DEF CropsInv, CropsTypeOK
  <2>6. \A j \in 1 .. Len(kept') : OnPage(kept'[j])
    BY <1>3, <2>2, <2>4 DEF CropsInv, KeptShow
  <2>7. \A i \in 1 .. n : \E j \in 1 .. Len(kept') : Shows(kept'[j], detected[i])
    BY <1>2, <1>3, <2>2, <2>3, <2>4 DEF CropsInv, KeptShow
  <2> QED
    BY <1>1, <1>4, <2>5, <2>6, <2>7 DEF CropsInv, KeptShow
<1> QED
  BY <1>5, <1>6 DEF MergeBand

LEMMA CropsInvHolds == CropsSpec => []CropsInv
<1>1. CropsInv /\ [CropsNext]_cropVars => CropsInv'
  <2> SUFFICES ASSUME CropsInv, [CropsNext]_cropVars PROVE CropsInv'
    OBVIOUS
  <2>1. CASE EndOfAnswer \/ UNCHANGED cropVars
    BY <2>1 DEF EndOfAnswer, cropVars, CropsInv, CropsTypeOK, BandsShow, KeptShow
  <2> QED
    BY <2>1, TakeBoxSteps, MergeSteps DEF CropsNext
<1> QED
  BY <1>1, CropsStart, PTL DEF CropsSpec

\* Whatever boxes the model answers with, and whatever the sizes of the photograph and of its
\* reduced copy, every drawing that was found is on a crop, to within a pixel
\* (diagram.ts:145-184, 225-245, pipeline.ts:280-288).
THEOREM DetectedIsAlwaysCropped == CropsSpec => []DetectedIsCropped
<1>1. CropsInv => DetectedIsCropped
  <2> SUFFICES ASSUME CropsInv, merged = Len(bands), NEW i \in 1 .. Len(detected)
               PROVE  \E c \in Cut :
                         /\ (c.top - 1) * 100 <= detected[i].y * Original
                         /\ (detected[i].y + High(detected[i])) * Original <= (Bottom(c) + 1) * 100
    BY DEF DetectedIsCropped
  <2>1. PICK k \in 1 .. Len(kept) : Shows(kept[k], detected[i])
    BY DEF CropsInv, CropsTypeOK, KeptShow
  <2>2. OnPage(kept[k])
    BY DEF CropsInv, KeptShow
  <2>3. detected[i] \in Box /\ Plausible(detected[i])
    BY DEF CropsInv, CropsTypeOK, BandsShow
  <2> DEFINE c == Scaled(kept[k])
  <2>4. /\ c.height > MinScaled
        /\ (c.top - 1) * 100 <= detected[i].y * Original
        /\ (detected[i].y + High(detected[i])) * Original <= (Bottom(c) + 1) * 100
    BY <2>1, <2>2, <2>3, BoxInPercent, ScaledShows
  <2>5. c \in Cut
    BY <2>4 DEF Cut, Crops
  <2> QED
    BY <2>4, <2>5
<1> QED
  BY <1>1, CropsInvHolds, PTL
-----------------------------------------------------------------------------
(* Places in a set of numbers *)

\* e lists m numbers from the least to the greatest, and these are some of them.
Rising(e, m) ==
    /\ m \in Nat /\ e \in [1 .. m -> Nat]
    /\ \A j, k \in 1 .. m : j < k => e[j] < e[k]

Listed(e, a, b) == {e[k] : k \in a .. b}

LEMMA CountOfListed ==
    ASSUME NEW m, NEW e, Rising(e, m), NEW a \in Nat, NEW b \in Nat, 1 <= a, b <= m, a <= b + 1
    PROVE  IsFiniteSet(Listed(e, a, b)) /\ Cardinality(Listed(e, a, b)) = b - a + 1
<1> DEFINE S == a .. b
           T == Listed(e, a, b)
           f == [k \in S |-> e[k]]
<1>1. IsFiniteSet(S) /\ Cardinality(S) = b - a + 1
  <2>1. a \in Int /\ b \in Int /\ (a > b => b - a + 1 = 0)
    OBVIOUS
  <2>2. IsFiniteSet(a .. b) /\ Cardinality(a .. b) = IF a > b THEN 0 ELSE b - a + 1
    BY <2>1, FS_Interval
  <2> QED
    BY <2>1, <2>2
<1>2. \A k \in S : k \in 1 .. m
  BY DEF Rising
<1>3. \A j, k \in S : e[j] = e[k] => j = k
  <2> SUFFICES ASSUME NEW j \in S, NEW k \in S, e[j] = e[k], j # k PROVE FALSE
    OBVIOUS
  <2>1. e[j] \in Nat /\ e[k] \in Nat /\ (j < k => e[j] < e[k]) /\ (k < j => e[k] < e[j])
    BY <1>2 DEF Rising
  <2>2. j < k \/ k < j
    OBVIOUS
  <2> QED
    BY <2>1, <2>2
<1>4. f \in Bijection(S, T)
  <2>1. f \in [S -> T] /\ \A k \in S : f[k] = e[k]
    BY DEF Listed
  <2>2. \A t \in T : \E k \in S : f[k] = t
    BY DEF Listed
  <2> HIDE DEF S, T, f
  <2> QED
    BY <1>3, <2>1, <2>2 DEF Bijection, Injection, IsInjective, Surjection
<1> HIDE DEF S, T
<1>5. ExistsBijection(S, T)
  BY <1>4 DEF ExistsBijection
<1> QED
  BY <1>1, <1>5, FS_Bijection DEF T

\* The numbers of a finite set have the places 1, 2, ... in their order.
LEMMA PlacesInOrder ==
    ASSUME NEW S \in SUBSET Nat, IsFiniteSet(S)
    PROVE  /\ Cardinality(S) \in Nat
           /\ \A p \in S : Place(p, S) \in 1 .. Cardinality(S)
           /\ \A p, q \in S : p < q => Place(p, S) < Place(q, S)
           /\ \A n \in 1 .. Cardinality(S) : AtPlace(n, S) \in S /\ Place(AtPlace(n, S), S) = n
<1> DEFINE Upto(p) == {q \in S : q <= p}
           c == Cardinality(S)
<1>1. c \in Nat
  BY FS_CardinalityType
<1>2. ASSUME NEW p \in S PROVE IsFiniteSet(Upto(p)) /\ Place(p, S) \in 1 .. c
  <2>1. /\ IsFiniteSet(Upto(p)) /\ Cardinality(Upto(p)) <= c
        /\ Cardinality(Upto(p)) \in Nat
    BY FS_Subset, FS_CardinalityType
  <2>2. p \in Upto(p)
    OBVIOUS
  <2>3. Cardinality(Upto(p)) # 0
    BY <2>1, <2>2, FS_EmptySet
  <2> QED
    BY <1>1, <2>1, <2>3 DEF Place
<1>3. ASSUME NEW p \in S, NEW q \in S, p < q PROVE Place(p, S) < Place(q, S)
  <2>3. q <= q /\ ~(q <= p) /\ \A x \in S : x <= p => x <= q
    BY <1>3
  <2>1. Upto(p) \subseteq Upto(q) /\ q \in Upto(q) /\ q \notin Upto(p)
    BY <2>3
  <2>2. Cardinality(Upto(p)) <= Cardinality(Upto(q)) /\ Cardinality(Upto(p)) # Cardinality(Upto(q))
    BY <1>2, <2>1, FS_Subset
  <2> QED
    BY <1>1, <1>2, <2>2 DEF Place
<1>4. \A n \in 1 .. c : \E p \in S : Place(p, S) = n
  <2> DEFINE T == 1 .. c
             f == [p \in S |-> Place(p, S)]
  <2>1. IsFiniteSet(T) /\ Cardinality(T) = c
    BY <1>1, FS_Interval
  <2>2. \A p \in S : f[p] = Place(p, S) /\ f[p] \in T
    BY <1>2
  <2>3. \A p, q \in S : f[p] = f[q] => p = q
    <3> SUFFICES ASSUME NEW p \in S, NEW q \in S, p # q PROVE f[p] # f[q]
      OBVIOUS
    <3>1. p < q \/ q < p
      OBVIOUS
    <3>4. Place(p, S) \in 1 .. c /\ Place(q, S) \in 1 .. c
      BY <1>2
    <3>2. Place(p, S) \in Nat /\ Place(q, S) \in Nat
      BY <1>1, <3>4
    <3>3. Place(p, S) < Place(q, S) \/ Place(q, S) < Place(p, S)
      BY <1>3, <3>1
    <3> QED
      BY <3>2, <3>3
  <2>4. f \in [S -> T]
    BY <1>2
  <2> HIDE DEF f, T
  <2>5. f \in Injection(S, T)
    BY <2>3, <2>4 DEF Injection, IsInjective
  <2>6. f \in Surjection(S, T)
    BY <2>1, <2>5, FS_Injection
  <2> QED
    BY <2>2, <2>6 DEF Surjection, T
<1> QED
  BY <1>1, <1>2, <1>3, <1>4 DEF AtPlace

\* Listing them is counting them.
LEMMA PlacesOfListed ==
    ASSUME NEW m, NEW e, Rising(e, m)
    PROVE  LET S == Listed(e, 1, m)
           IN  /\ S \in SUBSET Nat /\ IsFiniteSet(S) /\ Cardinality(S) = m
               /\ \A k \in 1 .. m : Place(e[k], S) = k /\ AtPlace(k, S) = e[k]
<1> DEFINE S == Listed(e, 1, m)
<1>1. m \in Nat /\ S \in SUBSET Nat
  BY DEF Rising, Listed
<1>2. IsFiniteSet(S) /\ Cardinality(S) = m
  BY <1>1, CountOfListed
<1>3. ASSUME NEW k \in 1 .. m PROVE Place(e[k], S) = k
  <2>1. \A j \in 1 .. m : e[j] \in Nat /\ (e[j] <= e[k] <=> j <= k)
    <3> SUFFICES ASSUME NEW j \in 1 .. m PROVE e[j] \in Nat /\ (e[j] <= e[k] <=> j <= k)
      OBVIOUS
    <3>1. /\ e[j] \in Nat /\ e[k] \in Nat
          /\ j < k => e[j] < e[k]
          /\ k < j => e[k] < e[j]
          /\ j = k => e[j] = e[k]
      BY DEF Rising
    <3> QED
      BY <1>1, <3>1
  <2>2. {q \in S : q <= e[k]} = Listed(e, 1, k)
    <3>1. ASSUME NEW q \in S, q <= e[k] PROVE q \in Listed(e, 1, k)
      <4>1. PICK j \in 1 .. m : q = e[j]
        BY DEF Listed
      <4>2. j \in 1 .. k
        BY <2>1, <3>1, <4>1
      <4> QED
        BY <4>1, <4>2 DEF Listed
    <3>2. ASSUME NEW q \in Listed(e, 1, k) PROVE q \in S /\ q <= e[k]
      <4>1. PICK j \in 1 .. k : q = e[j]
        BY DEF Listed
      <4>2. j \in 1 .. m /\ j <= k
        BY <1>1
      <4> QED
        BY <2>1, <4>1, <4>2 DEF Listed
    <3> QED
      BY <3>1, <3>2
  <2>3. Cardinality(Listed(e, 1, k)) = k
    BY <1>1, CountOfListed
  <2> QED
    BY <2>2, <2>3 DEF Place
<1>4. ASSUME NEW k \in 1 .. m PROVE AtPlace(k, S) = e[k]
  <2>1. e[k] \in S /\ Place(e[k], S) = k
    BY <1>3 DEF Listed
  <2>2. AtPlace(k, S) \in S /\ Place(AtPlace(k, S), S) = k
    BY <2>1 DEF AtPlace
  <2>3. AtPlace(k, S) \in Nat /\ e[k] \in Nat
    BY <1>1, <2>1, <2>2
  <2>4. ~(AtPlace(k, S) < e[k]) /\ ~(e[k] < AtPlace(k, S))
    BY <1>1, <1>2, <2>1, <2>2, PlacesInOrder
  <2> QED
    BY <2>3, <2>4
<1> QED
  BY <1>1, <1>2, <1>3, <1>4

\* A set without one of its numbers, and a set of all numbers up to n.
LEMMA PlacesWithout ==
    ASSUME NEW n \in Nat, NEW j \in 1 .. n
    PROVE  LET S == 1 .. n \ {j}
           IN  /\ Cardinality(S) = n - 1
               /\ \A k \in 1 .. n - 1 : AtPlace(k, S) = IF k < j THEN k ELSE k + 1
<1> DEFINE S == 1 .. n \ {j}
           e == [k \in 1 .. n - 1 |-> IF k < j THEN k ELSE k + 1]
<1>1. n - 1 \in Nat
  OBVIOUS
<1>2. \A k \in 1 .. n - 1 : e[k] = IF k < j THEN k ELSE k + 1
  OBVIOUS
<1>3. Rising(e, n - 1)
  <2>1. e \in [1 .. n - 1 -> Nat]
    OBVIOUS
  <2>2. ASSUME NEW i \in 1 .. n - 1, NEW k \in 1 .. n - 1, i < k PROVE e[i] < e[k]
    <3>1. /\ e[i] = IF i < j THEN i ELSE i + 1
          /\ e[k] = IF k < j THEN k ELSE k + 1
      BY <1>2
    <3> HIDE DEF e
    <3> QED
      BY <2>2, <3>1
  <2> HIDE DEF e
  <2> QED
    BY <1>1, <2>1, <2>2 DEF Rising
<1> HIDE DEF e
<1>4. Listed(e, 1, n - 1) = S
  <2>1. ASSUME NEW k \in 1 .. n - 1 PROVE e[k] \in S
    BY <1>2
  <2>2. ASSUME NEW i \in S PROVE \E k \in 1 .. n - 1 : e[k] = i
    <3>1. CASE i < j
      <4>1. i \in 1 .. n - 1 /\ e[i] = i
        BY <1>2, <3>1
      <4> QED
        BY <4>1
    <3>2. CASE ~(i < j)
      <4>1. i - 1 \in 1 .. n - 1 /\ e[i - 1] = i
        BY <1>2, <3>2
      <4> QED
        BY <4>1
    <3> QED
      BY <3>1, <3>2
  <2> HIDE DEF S
  <2> QED
    BY <2>1, <2>2 DEF Listed
<1> HIDE DEF S
<1>5. Cardinality(S) = n - 1 /\ \A k \in 1 .. n - 1 : AtPlace(k, S) = e[k]
  BY <1>3, <1>4, PlacesOfListed
<1> QED
  BY <1>2, <1>5 DEF S

LEMMA PlacesOfAll ==
    ASSUME NEW n \in Nat
    PROVE  Cardinality(1 .. n) = n /\ \A k \in 1 .. n : AtPlace(k, 1 .. n) = k
<1> DEFINE e == [k \in 1 .. n |-> k]
<1>1. Rising(e, n) /\ \A k \in 1 .. n : e[k] = k
  BY DEF Rising
<1> HIDE DEF e
<1>2. Listed(e, 1, n) = 1 .. n
  BY <1>1 DEF Listed
<1> QED
  BY <1>1, <1>2, PlacesOfListed

LEMMA SeqParts ==
    ASSUME NEW R, NEW s \in Seq(R)
    PROVE  Len(s) \in Nat /\ \A k \in 1 .. Len(s) : s[k] \in R
OBVIOUS

LEMMA SeqMade ==
    ASSUME NEW R, NEW n \in Nat, NEW f \in [1 .. n -> R]
    PROVE  f \in Seq(R) /\ Len(f) = n
OBVIOUS

\* What is left of a list is in it, and nothing twice.
LEMMA ThoseAreApart ==
    ASSUME NEW R, NEW s \in Seq(R), NEW S \in SUBSET (1 .. Len(s))
    PROVE  /\ Those(S, s) \in Seq(R)
           /\ \A j \in 1 .. Len(Those(S, s)) :
                  \E i \in S : Those(S, s)[j] = s[i] /\ Place(i, S) = j
<1> DEFINE c == Cardinality(S)
           f == [n \in 1 .. c |-> s[AtPlace(n, S)]]
<1>1. Len(s) \in Nat /\ \A i \in 1 .. Len(s) : s[i] \in R
  BY SeqParts
<1>2. S \in SUBSET Nat /\ IsFiniteSet(S)
  <2>1. IsFiniteSet(1 .. Len(s))
    BY <1>1, FS_Interval
  <2>2. IsFiniteSet(S)
    BY <2>1, FS_Subset
  <2> QED
    BY <1>1, <2>2
<1>3. c \in Nat /\ \A n \in 1 .. c : AtPlace(n, S) \in S /\ Place(AtPlace(n, S), S) = n
  BY <1>2, PlacesInOrder
<1> HIDE DEF c
<1>4. f \in [1 .. c -> R] /\ \A n \in 1 .. c : f[n] = s[AtPlace(n, S)]
  BY <1>1, <1>3
<1> HIDE DEF f
<1>5. f \in Seq(R) /\ Len(f) = c
  BY <1>3, <1>4, SeqMade
<1>6. Those(S, s) = f
  BY DEF Those, f, c
<1> QED
  BY <1>3, <1>4, <1>5, <1>6
-----------------------------------------------------------------------------
(* The cache *)

CacheEntry == [term : Query, at : Days]

LEMMA RememberedEntries ==
    ASSUME ResearchTypeOK, NEW t \in Query, Remember(t)
    PROVE  entries' \in Entries
<1> DEFINE S == {i \in 1 .. Len(entries) : entries[i].term # t}
           o == Those(S, entries)
           new == [term |-> t, at |-> day]
           longer == <<new>> \o o
           k == IF Len(longer) < MaxEntries THEN Len(longer) ELSE MaxEntries
<1>1. /\ entries \in Seq(CacheEntry) /\ new \in CacheEntry
      /\ \A i, j \in 1 .. Len(entries) : entries[i].term = entries[j].term => i = j
  BY DEF ResearchTypeOK, Entries, CacheEntry
<1>2. S \in SUBSET (1 .. Len(entries)) /\ \A i \in S : entries[i].term # t
  OBVIOUS
<1>3. entries' = SubSeq(longer, 1, k)
  BY DEF Remember, OtherEntries
<1> HIDE DEF S
<1>4. /\ o \in Seq(CacheEntry)
      /\ \A j \in 1 .. Len(o) : \E i \in S : o[j] = entries[i] /\ Place(i, S) = j
  BY <1>1, <1>2, ThoseAreApart
<1>5. \A j \in 1 .. Len(o) : o[j].term # t
  BY <1>2, <1>4
<1>6. \A j, l \in 1 .. Len(o) : o[j].term = o[l].term => j = l
  BY <1>1, <1>2, <1>4
<1> HIDE DEF o, new
<1>7. /\ longer \in Seq(CacheEntry) /\ Len(longer) = Len(o) + 1 /\ Len(o) \in Nat
      /\ longer[1] = new
      /\ \A j \in 2 .. Len(longer) : longer[j] = o[j - 1] /\ j - 1 \in 1 .. Len(o)
  BY <1>1, <1>4
<1> HIDE DEF longer
<1>8. \A j, l \in 1 .. Len(longer) : longer[j].term = longer[l].term => j = l
  <2> SUFFICES ASSUME NEW j \in 1 .. Len(longer), NEW l \in 1 .. Len(longer),
                      longer[j].term = longer[l].term
               PROVE  j = l
    OBVIOUS
  <2>1. new.term = t
    BY DEF new
  <2>2. (j = 1 \/ j \in 2 .. Len(longer)) /\ (l = 1 \/ l \in 2 .. Len(longer))
    BY <1>7
  <2>3. CASE j = 1 /\ l \in 2 .. Len(longer)
    <3>1. o[l - 1].term = t /\ l - 1 \in 1 .. Len(o)
      BY <1>7, <2>1, <2>3
    <3> QED
      BY <1>5, <3>1
  <2>4. CASE l = 1 /\ j \in 2 .. Len(longer)
    <3>1. o[j - 1].term = t /\ j - 1 \in 1 .. Len(o)
      BY <1>7, <2>1, <2>4
    <3> QED
      BY <1>5, <3>1
  <2>5. CASE j \in 2 .. Len(longer) /\ l \in 2 .. Len(longer)
    <3>1. /\ o[j - 1].term = o[l - 1].term
          /\ j - 1 \in 1 .. Len(o) /\ l - 1 \in 1 .. Len(o)
      BY <1>7, <2>5
    <3>2. j - 1 = l - 1
      BY <1>6, <3>1
    <3> QED
      BY <2>5, <3>2
  <2> QED
    BY <2>2, <2>3, <2>4, <2>5
<1>9. k \in Nat /\ k <= Len(longer) /\ k <= MaxEntries
  BY <1>7, ResearchAssumption
<1> HIDE DEF k
<1>10. /\ entries' \in Seq(CacheEntry) /\ Len(entries') = k
       /\ \A j \in 1 .. k : entries'[j] = longer[j]
  BY <1>3, <1>7, <1>9
<1>11. \A i, j \in 1 .. k : entries'[i].term = entries'[j].term => i = j
  BY <1>7, <1>8, <1>9, <1>10
<1> QED
  BY <1>9, <1>10, <1>11 DEF Entries, CacheEntry

LEMMA CacheSteps == ResearchTypeOK /\ [ResearchNext]_researchVars => ResearchTypeOK'
<1> SUFFICES ASSUME ResearchTypeOK, [ResearchNext]_researchVars PROVE ResearchTypeOK'
  OBVIOUS
<1> USE DEF ResearchTypeOK, researchFile
<1>1. /\ 0 \in Days /\ MaxDay \in Nat /\ Settings \subseteq Setting
      /\ <<>> \in Entries
  BY ResearchAssumption DEF Days, Entries
<1>2. CASE ChangeSettings \/ PollStatus \/ StartRefresh \/ FinishRefresh
  BY <1>1, <1>2 DEF ChangeSettings, PollStatus, StartRefresh, FinishRefresh
<1>3. CASE \E t \in Query : Ask(t)
  BY <1>3 DEF Ask
<1>4. ASSUME Charge PROVE charged' \in [Days -> Nat]
  BY <1>4 DEF Charge
<1>5. ASSUME Spend PROVE usedOn' \in Days /\ used' \in Nat
  BY <1>5 DEF Spend
<1>6. CASE Answered
  <2>1. asking \in Query /\ Remember(asking)
    BY <1>6 DEF Answered
  <2>2. entries' \in Entries
    BY <2>1, RememberedEntries
  <2> QED
    BY <1>4, <1>5, <1>6, <2>2 DEF Answered
<1>7. CASE RateLimited \/ LookupFailed
  BY <1>4, <1>5, <1>7 DEF RateLimited, LookupFailed
<1>8. CASE NextDay
  BY <1>1, <1>8 DEF NextDay, Days
<1>9. CASE KillService \/ LoseFile
  BY <1>1, <1>9 DEF KillService, LoseFile
<1>10. CASE UNCHANGED researchVars
  BY <1>10 DEF researchVars
<1> QED
  BY <1>2, <1>3, <1>6, <1>7, <1>8, <1>9, <1>10 DEF ResearchNext

LEMMA ResearchStart == ResearchInit => ResearchTypeOK
<1>1. /\ {0, 1} \subseteq Days /\ Settings \subseteq Setting /\ <<>> \in Entries
  BY ResearchAssumption DEF Days, Entries
<1> QED
  BY <1>1 DEF ResearchInit, ResearchTypeOK

\* The file of the research is well formed: its cache has each term once, and no more than
\* MAX_ENTRIES, though it is written by every answer and read again before (research.ts:64-119).
THEOREM ResearchTypeCorrect == ResearchSpec => []ResearchTypeOK
  BY ResearchStart, CacheSteps, PTL DEF ResearchSpec
-----------------------------------------------------------------------------
(* The feedback *)

PageReview == [photo : Photo, verdict : Opinion]

Reviews == Seq(PageReview)

\* The reviews of a log that no later one of the same page replaces.
Standing(lg) == {i \in 1 .. Len(lg) : \A j \in i + 1 .. Len(lg) : lg[j].photo # lg[i].photo}

\* e lists these, and rs has the newest of them.
Latest(rs, lg, e, m) ==
    /\ rs \in Reviews /\ lg \in Reviews
    /\ Rising(e, m) /\ Listed(e, 1, m) = Standing(lg)
    /\ Len(rs) = Smaller(m, MaxRecords)
    /\ \A k \in 1 .. Len(rs) : rs[k] = lg[e[m - Len(rs) + k]]

OnRecord(rs, lg) == \E m \in Nat : \E e \in [1 .. m -> Nat] : Latest(rs, lg, e, m)

LEMMA LastOfAppended ==
    ASSUME NEW lg \in Reviews, NEW r \in PageReview
    PROVE  Standing(Append(lg, r)) = {i \in Standing(lg) : lg[i].photo # r.photo} \cup {Len(lg) + 1}
<1> DEFINE n == Len(lg)
           lg2 == Append(lg, r)
           T == {i \in Standing(lg) : lg[i].photo # r.photo} \cup {n + 1}
<1>1. /\ n \in Nat /\ Len(lg2) = n + 1 /\ lg2[n + 1] = r
      /\ \A i \in 1 .. n : lg2[i] = lg[i]
  BY DEF Reviews
<1> HIDE DEF lg2
<1>2. ASSUME NEW i \in Standing(lg2) PROVE i \in T
  <2>1. /\ i \in 1 .. n + 1
        /\ \A j \in i + 1 .. n + 1 : lg2[j].photo # lg2[i].photo
    BY <1>1 DEF Standing
  <2>2. CASE i # n + 1
    <3>1. i \in 1 .. n /\ n + 1 \in i + 1 .. n + 1
      BY <1>1, <2>1, <2>2
    <3>2. \A j \in i + 1 .. n : j \in i + 1 .. n + 1 /\ j \in 1 .. n
      BY <1>1, <3>1
    <3>3. \A j \in i + 1 .. n : lg[j].photo # lg[i].photo
      BY <1>1, <2>1, <3>1, <3>2
    <3>4. lg[i].photo # r.photo
      BY <1>1, <2>1, <3>1
    <3> QED
      BY <3>1, <3>3, <3>4 DEF Standing
  <2> QED
    BY <2>2
<1>3. ASSUME NEW i \in T PROVE i \in Standing(lg2)
  <2>1. CASE i = n + 1
    <3>1. n + 1 \in 1 .. n + 1 /\ i + 1 .. n + 1 = {}
      BY <1>1, <2>1
    <3> QED
      BY <1>1, <2>1, <3>1 DEF Standing
  <2>2. CASE i \in Standing(lg) /\ lg[i].photo # r.photo
    <3>1. /\ i \in 1 .. n /\ i \in 1 .. n + 1
          /\ \A j \in i + 1 .. n : lg[j].photo # lg[i].photo
      BY <1>1, <2>2 DEF Standing
    <3>2. \A j \in i + 1 .. n + 1 : j = n + 1 \/ (j \in i + 1 .. n /\ j \in 1 .. n)
      BY <1>1, <3>1
    <3>3. \A j \in i + 1 .. n + 1 : lg2[j].photo # lg2[i].photo
      BY <1>1, <2>2, <3>1, <3>2
    <3> QED
      BY <1>1, <3>1, <3>3 DEF Standing
  <2> QED
    BY <2>1, <2>2
<1> QED
  BY <1>2, <1>3 DEF lg2

LEMMA LastOfPage ==
    ASSUME NEW lg \in Reviews, NEW i \in Standing(lg), NEW j \in Standing(lg), lg[i].photo = lg[j].photo
    PROVE  i = j
<1>1. i \in 1 .. Len(lg) /\ j \in 1 .. Len(lg) /\ Len(lg) \in Nat
  BY DEF Standing, Reviews
<1>2. ~(i < j)
  <2> SUFFICES ASSUME i < j PROVE FALSE
    OBVIOUS
  <2>1. j \in i + 1 .. Len(lg)
    BY <1>1
  <2> QED
    BY <2>1 DEF Standing
<1>3. ~(j < i)
  <2> SUFFICES ASSUME j < i PROVE FALSE
    OBVIOUS
  <2>1. i \in j + 1 .. Len(lg)
    BY <1>1
  <2> QED
    BY <2>1 DEF Standing
<1> QED
  BY <1>1, <1>2, <1>3

LEMMA SeqEnd ==
    ASSUME NEW R, NEW s \in Seq(R), NEW n \in Nat, n < Len(s)
    PROVE  LET t == SubSeq(s, Len(s) - n + 1, Len(s))
           IN  t \in Seq(R) /\ Len(t) = n /\ \A k \in 1 .. n : t[k] = s[Len(s) - n + k]
<1> DEFINE a == Len(s) - n + 1
           t == SubSeq(s, a, Len(s))
           u == [k \in 1 .. n |-> s[a + k - 1]]
<1>1. /\ Len(s) \in Nat /\ a \in 1 .. Len(s) + 1 /\ Len(s) - a + 1 = n
      /\ \A k \in 1 .. n : a + k - 1 = Len(s) - n + k /\ a + k - 1 \in 1 .. Len(s)
  BY SeqParts
<1>2. t = [k \in 1 .. Len(s) - a + 1 |-> s[a + k - 1]]
  <2> HIDE DEF a
  <2> QED
    BY <1>1
<1> HIDE DEF a
<1>3. t = u
  BY <1>1, <1>2
<1>4. u \in [1 .. n -> R] /\ \A k \in 1 .. n : u[k] = s[Len(s) - n + k]
  BY <1>1
<1> HIDE DEF t, u
<1>5. t \in Seq(R) /\ Len(t) = n
  BY <1>3, <1>4, SeqMade
<1> QED
  BY <1>3, <1>4, <1>5 DEF t, a

\* The filter of appendFeedback, for a list that has the page at one place or at none.
Filtered(rs, p) == Those({i \in 1 .. Len(rs) : rs[i].photo # p}, rs)

LEMMA FilteredNone ==
    ASSUME NEW rs \in Reviews, NEW p, \A i \in 1 .. Len(rs) : rs[i].photo # p
    PROVE  Filtered(rs, p) \in Reviews /\ Len(Filtered(rs, p)) = Len(rs)
           /\ \A k \in 1 .. Len(rs) : Filtered(rs, p)[k] = rs[k]
<1> DEFINE others == {i \in 1 .. Len(rs) : rs[i].photo # p}
           n == Len(rs)
           s == [k \in 1 .. n |-> rs[AtPlace(k, 1 .. n)]]
<1>1. n \in Nat /\ \A k \in 1 .. n : rs[k] \in PageReview
  BY SeqParts DEF Reviews
<1>2. others = 1 .. n
  OBVIOUS
<1>3. Cardinality(1 .. n) = n /\ \A k \in 1 .. n : AtPlace(k, 1 .. n) = k
  <2> HIDE DEF n
  <2> QED
    BY <1>1, PlacesOfAll
<1>4. Filtered(rs, p) = s
  BY <1>2, <1>3 DEF Filtered, Those
<1>5. s \in [1 .. n -> PageReview] /\ \A k \in 1 .. n : s[k] = rs[k]
  BY <1>1, <1>3
<1> HIDE DEF s, n
<1>6. s \in Reviews /\ Len(s) = n
  BY <1>1, <1>5, SeqMade DEF Reviews
<1> QED
  BY <1>4, <1>5, <1>6 DEF n

LEMMA FilteredOne ==
    ASSUME NEW rs \in Reviews, NEW p, NEW j \in 1 .. Len(rs),
           \A i \in 1 .. Len(rs) : rs[i].photo = p <=> i = j
    PROVE  /\ Filtered(rs, p) \in Reviews /\ Len(Filtered(rs, p)) = Len(rs) - 1
           /\ \A k \in 1 .. Len(rs) - 1 : Filtered(rs, p)[k] = IF k < j THEN rs[k] ELSE rs[k + 1]
<1> DEFINE others == {i \in 1 .. Len(rs) : rs[i].photo # p}
           n == Len(rs)
           S == 1 .. n \ {j}
           s == [k \in 1 .. n - 1 |-> rs[AtPlace(k, S)]]
<1>1. n \in Nat /\ j \in 1 .. n /\ \A k \in 1 .. n : rs[k] \in PageReview
  BY SeqParts DEF Reviews
<1>2. others = S
  OBVIOUS
<1> HIDE DEF n
<1>3. n - 1 \in Nat /\ \A k \in 1 .. n - 1 : k \in 1 .. n /\ k + 1 \in 1 .. n
  BY <1>1
<1>4. Cardinality(S) = n - 1 /\ \A k \in 1 .. n - 1 : AtPlace(k, S) = IF k < j THEN k ELSE k + 1
  BY <1>1, PlacesWithout
<1> HIDE DEF S
<1>5. Filtered(rs, p) = s
  BY <1>2, <1>4 DEF Filtered, Those, n
<1>6. ASSUME NEW k \in 1 .. n - 1
      PROVE  /\ s[k] = IF k < j THEN rs[k] ELSE rs[k + 1]
             /\ rs[AtPlace(k, S)] \in PageReview
  <2>1. AtPlace(k, S) \in {k, k + 1} /\ s[k] = rs[AtPlace(k, S)]
    BY <1>4
  <2> QED
    BY <1>1, <1>3, <1>4, <2>1
<1>7. s \in [1 .. n - 1 -> PageReview]
  BY <1>6
<1> HIDE DEF s
<1>8. s \in Reviews /\ Len(s) = n - 1
  BY <1>3, <1>7, SeqMade DEF Reviews
<1> QED
  BY <1>5, <1>6, <1>8 DEF n

\* appendFeedback keeps the end of the list.
EndOf(trimmed, longer) ==
    /\ trimmed \in Reviews /\ Len(trimmed) = Smaller(Len(longer), MaxRecords)
    /\ \A k \in 1 .. Len(trimmed) : trimmed[k] = longer[Len(longer) - Len(trimmed) + k]

LEMMA CutIsEnd ==
    ASSUME NEW longer \in Reviews, NEW trimmed,
           trimmed = IF Len(longer) > MaxRecords THEN SubSeq(longer, Len(longer) - MaxRecords + 1, Len(longer)) ELSE longer
    PROVE  EndOf(trimmed, longer)
<1>1. longer \in Seq(PageReview) /\ Len(longer) \in Nat /\ MaxRecords \in Nat
  BY SeqParts, ReviewAssumption DEF Reviews
<1>2. CASE MaxRecords < Len(longer)
  <2>1. trimmed = SubSeq(longer, Len(longer) - MaxRecords + 1, Len(longer))
    BY <1>1, <1>2
  <2>2. /\ trimmed \in Seq(PageReview) /\ Len(trimmed) = MaxRecords
        /\ \A k \in 1 .. MaxRecords : trimmed[k] = longer[Len(longer) - MaxRecords + k]
    BY <1>1, <1>2, <2>1, SeqEnd
  <2> QED
    BY <1>1, <1>2, <2>2 DEF Smaller, EndOf, Reviews
<1>3. CASE ~(MaxRecords < Len(longer))
  <2>1. trimmed = longer /\ Smaller(Len(longer), MaxRecords) = Len(longer)
    BY <1>1, <1>3 DEF Smaller
  <2>2. \A k \in 1 .. Len(longer) : Len(longer) - Len(longer) + k = k
    BY <1>1
  <2> QED
    BY <2>1, <2>2 DEF EndOf
<1> QED
  BY <1>2, <1>3

LEMMA AppendedIsEnd ==
    ASSUME NEW rs, NEW p, NEW v,
           NEW longer \in Reviews, longer = Append(Filtered(rs, p), [photo |-> p, verdict |-> v])
    PROVE  EndOf(Appended(rs, p, v), longer)
<1> DEFINE trimmed == Appended(rs, p, v)
<1>1. trimmed = IF Len(longer) > MaxRecords THEN SubSeq(longer, Len(longer) - MaxRecords + 1, Len(longer)) ELSE longer
  BY DEF Appended, Filtered
<1> HIDE DEF trimmed
<1>2. EndOf(trimmed, longer)
  BY <1>1, CutIsEnd
<1> QED
  BY <1>2 DEF trimmed

LEMMA EndPlaces ==
    ASSUME NEW m \in Nat, NEW a \in Nat, NEW b \in Nat, b <= a, NEW k \in 1 .. b
    PROVE  a - b + k \in 1 .. a /\ m - a + (a - b + k) = m - b + k
OBVIOUS

LEMMA EndIsLatest ==
    ASSUME NEW lg \in Reviews, NEW longer \in Reviews, NEW trimmed, EndOf(trimmed, longer), NEW m, NEW e,
           Rising(e, m), Listed(e, 1, m) = Standing(lg),
           Smaller(m, MaxRecords) <= Len(longer), Len(longer) <= m,
           \A q \in 1 .. Len(longer) : longer[q] = lg[e[m - Len(longer) + q]]
    PROVE  Latest(trimmed, lg, e, m)
<1>1. m \in Nat /\ Len(longer) \in Nat /\ Len(trimmed) \in Nat /\ MaxRecords \in Nat
  BY SeqParts, ReviewAssumption DEF Rising, Reviews, EndOf
<1>2. Len(trimmed) = Smaller(m, MaxRecords) /\ Len(trimmed) <= Len(longer)
  BY <1>1 DEF Smaller, EndOf
<1>3. ASSUME NEW k \in 1 .. Len(trimmed) PROVE trimmed[k] = lg[e[m - Len(trimmed) + k]]
  <2> DEFINE q == Len(longer) - Len(trimmed) + k
  <2>1. q \in 1 .. Len(longer) /\ m - Len(longer) + q = m - Len(trimmed) + k
    BY <1>1, <1>2, EndPlaces
  <2>2. trimmed[k] = longer[q]
    BY DEF EndOf
  <2> HIDE DEF q
  <2> QED
    BY <2>1, <2>2
<1> QED
  BY <1>2, <1>3 DEF Latest, EndOf

\* A review of a page without one goes to the end.
WithNew(e2, lg2, m, e, lg, r) ==
    /\ Rising(e2, m + 1) /\ Listed(e2, 1, m + 1) = Standing(lg2)
    /\ \A k \in 1 .. m : lg2[e2[k]] = lg[e[k]]
    /\ lg2[e2[m + 1]] = r

LEMMA NewPage ==
    ASSUME NEW rs, NEW lg, NEW m, NEW e, Latest(rs, lg, e, m), NEW r \in PageReview,
           \A i \in Standing(lg) : lg[i].photo # r.photo, NEW lg2, lg2 = Append(lg, r)
    PROVE  \E e2 : WithNew(e2, lg2, m, e, lg, r)
<1> DEFINE L == Len(lg) + 1
           e2 == [k \in 1 .. m + 1 |-> IF k <= m THEN e[k] ELSE L]
<1>1. /\ rs \in Reviews /\ lg \in Reviews
      /\ Rising(e, m) /\ Listed(e, 1, m) = Standing(lg)
  BY DEF Latest
<1>2. /\ Len(lg) \in Nat /\ lg2 \in Reviews /\ lg2[L] = r
      /\ \A i \in 1 .. Len(lg) : lg2[i] = lg[i]
  BY <1>1 DEF Reviews
<1>3. m \in Nat /\ e \in [1 .. m -> Nat] /\ \A j, k \in 1 .. m : j < k => e[j] < e[k]
  BY <1>1 DEF Rising
<1>4. \A k \in 1 .. m : e[k] \in 1 .. Len(lg)
  BY <1>1 DEF Listed, Standing
<1>5. /\ \A k \in 1 .. m : k \in 1 .. m + 1 /\ e2[k] = e[k]
      /\ e2[m + 1] = L
  BY <1>3
<1>6. \A k \in 1 .. m + 1 : k \in 1 .. m \/ k = m + 1
  BY <1>3
<1>7. Standing(lg2) = Standing(lg) \cup {L}
  BY <1>1, LastOfAppended
<1>8. e2 \in [1 .. m + 1 -> Nat]
  BY <1>2, <1>3
<1> HIDE DEF e2
<1>9. ASSUME NEW j \in 1 .. m + 1, NEW k \in 1 .. m + 1, j < k PROVE e2[j] < e2[k]
  <2>1. j \in 1 .. m /\ e2[j] = e[j]
    BY <1>3, <1>5, <1>9
  <2>2. CASE k \in 1 .. m
    BY <1>3, <1>5, <1>9, <2>1, <2>2
  <2>3. CASE k = m + 1
    BY <1>2, <1>4, <1>5, <2>1, <2>3
  <2> QED
    BY <1>6, <2>2, <2>3
<1>10. Rising(e2, m + 1)
  BY <1>3, <1>8, <1>9 DEF Rising
<1>11. Listed(e2, 1, m + 1) = Standing(lg2)
  <2>1. \A i : i \in Listed(e2, 1, m + 1) <=> i \in Standing(lg) \/ i = L
    <3>1. m + 1 \in 1 .. m + 1
      BY <1>3
    <3> QED
      BY <1>1, <1>5, <1>6, <3>1 DEF Listed
  <2> QED
    BY <1>7, <2>1
<1>12. \A k \in 1 .. m : lg2[e2[k]] = lg[e[k]]
  BY <1>2, <1>4, <1>5
<1> QED
  BY <1>2, <1>5, <1>10, <1>11, <1>12 DEF WithNew

\* A new review of the page at place h of the list takes that one out.
WithAgain(e2, lg2, m, e, lg, r, h) ==
    /\ Rising(e2, m) /\ Listed(e2, 1, m) = Standing(lg2)
    /\ \A k \in 1 .. m - 1 : lg2[e2[k]] = IF k < h THEN lg[e[k]] ELSE lg[e[k + 1]]
    /\ lg2[e2[m]] = r
    /\ \A k \in 1 .. m : lg[e[k]].photo = r.photo <=> k = h

LEMMA PageAgain ==
    ASSUME NEW rs, NEW lg, NEW m, NEW e, Latest(rs, lg, e, m), NEW r \in PageReview,
           NEW h \in 1 .. m, lg[e[h]].photo = r.photo, NEW lg2, lg2 = Append(lg, r)
    PROVE  \E e2 : WithAgain(e2, lg2, m, e, lg, r, h)
<1> DEFINE L == Len(lg) + 1
           e2 == [k \in 1 .. m |-> IF k = m THEN L ELSE IF k < h THEN e[k] ELSE e[k + 1]]
<1>1. /\ rs \in Reviews /\ lg \in Reviews
      /\ Rising(e, m) /\ Listed(e, 1, m) = Standing(lg)
  BY DEF Latest
<1>2. /\ Len(lg) \in Nat /\ lg2 \in Reviews /\ lg2[L] = r
      /\ \A i \in 1 .. Len(lg) : lg2[i] = lg[i]
  BY <1>1 DEF Reviews
<1>3. m \in Nat /\ e \in [1 .. m -> Nat] /\ \A j, k \in 1 .. m : j < k => e[j] < e[k]
  BY <1>1 DEF Rising
<1>4. \A k \in 1 .. m : e[k] \in Standing(lg) /\ e[k] \in 1 .. Len(lg)
  BY <1>1 DEF Listed, Standing
<1>5. /\ \A k \in 1 .. m - 1 : e2[k] = IF k < h THEN e[k] ELSE e[k + 1]
      /\ e2[m] = L /\ m \in 1 .. m
  BY <1>3
<1>6. \A k \in 1 .. m - 1 : k \in 1 .. m /\ k + 1 \in 1 .. m
  BY <1>3
<1>7. \A k \in 1 .. m : k \in 1 .. m - 1 \/ k = m
  BY <1>3
<1>8. Standing(lg2) = {i \in Standing(lg) : lg[i].photo # r.photo} \cup {L}
  BY <1>1, LastOfAppended
<1> HIDE DEF e2
<1>9. ASSUME NEW k \in 1 .. m PROVE lg[e[k]].photo = r.photo <=> k = h
  <2> SUFFICES ASSUME lg[e[k]].photo = r.photo, k # h PROVE FALSE
    OBVIOUS
  <2>1. e[k] = e[h]
    BY <1>1, <1>4, LastOfPage
  <2>2. e[k] \in Nat /\ e[h] \in Nat /\ (k < h => e[k] < e[h]) /\ (h < k => e[h] < e[k])
    BY <1>3
  <2>3. k < h \/ h < k
    BY <1>3
  <2> QED
    BY <2>1, <2>2, <2>3
<1>10. ASSUME NEW k \in 1 .. m - 1
       PROVE  \E j \in 1 .. m : j # h /\ e2[k] = e[j] /\ j = (IF k < h THEN k ELSE k + 1)
  BY <1>3, <1>5, <1>6
<1>11. \A k \in 1 .. m - 1 : e2[k] \in 1 .. Len(lg)
  BY <1>4, <1>10
<1>12. Rising(e2, m)
  <2>1. ASSUME NEW j \in 1 .. m, NEW k \in 1 .. m, j < k PROVE e2[j] < e2[k]
    <3>1. j \in 1 .. m - 1
      BY <1>3, <2>1
    <3>2. CASE k = m
      BY <1>2, <1>5, <1>11, <3>1, <3>2
    <3>3. CASE k \in 1 .. m - 1
      <4>1. PICK j2 \in 1 .. m : e2[j] = e[j2] /\ j2 = (IF j < h THEN j ELSE j + 1)
        BY <1>10, <3>1
      <4>2. PICK k2 \in 1 .. m : e2[k] = e[k2] /\ k2 = (IF k < h THEN k ELSE k + 1)
        BY <1>10, <3>3
      <4>3. j2 < k2
        <5>1. j \in Nat /\ k \in Nat /\ h \in Nat
          BY <1>3
        <5>2. CASE k < h
          BY <2>1, <4>1, <4>2, <5>1, <5>2
        <5>3. CASE ~(k < h)
          BY <2>1, <4>1, <4>2, <5>1, <5>3
        <5> QED
          BY <5>2, <5>3
      <4> QED
        BY <1>3, <4>1, <4>2, <4>3
    <3> QED
      BY <1>7, <3>2, <3>3
  <2>2. \A k \in 1 .. m : e2[k] \in Nat
    <3>1. L \in Nat /\ 1 .. Len(lg) \subseteq Nat
      BY <1>2
    <3> QED
      BY <1>5, <1>7, <1>11, <3>1
  <2>3. e2 \in [1 .. m -> Nat]
    BY <2>2 DEF e2
  <2> QED
    BY <1>3, <2>1, <2>3 DEF Rising
<1>13. Listed(e2, 1, m) = Standing(lg2)
  <2>1. ASSUME NEW k \in 1 .. m PROVE e2[k] \in Standing(lg2)
    <3>1. CASE k = m
      BY <1>5, <1>8, <3>1
    <3>2. CASE k \in 1 .. m - 1
      <4>1. PICK j \in 1 .. m : j # h /\ e2[k] = e[j]
        BY <1>10, <3>2
      <4> QED
        BY <1>4, <1>8, <1>9, <4>1
    <3> QED
      BY <1>7, <3>1, <3>2
  <2>2. ASSUME NEW i \in Standing(lg2) PROVE \E k \in 1 .. m : e2[k] = i
    <3>1. CASE i = L
      BY <1>5, <3>1
    <3>2. CASE i \in Standing(lg) /\ lg[i].photo # r.photo
      <4>1. PICK j \in 1 .. m : i = e[j]
        BY <1>1, <3>2 DEF Listed
      <4>2. j # h
        BY <1>9, <3>2, <4>1
      <4>3. CASE j < h
        <5>1. j \in 1 .. m - 1
          BY <1>3, <4>3
        <5>2. e2[j] = i
          BY <1>5, <4>1, <4>3, <5>1
        <5> QED
          BY <1>6, <5>1, <5>2
      <4>4. CASE h < j
        <5>1. j - 1 \in 1 .. m - 1 /\ ~(j - 1 < h) /\ j - 1 + 1 = j
          BY <1>3, <4>4
        <5>2. e2[j - 1] = i
          BY <1>5, <4>1, <5>1
        <5> QED
          BY <1>6, <5>1, <5>2
      <4>5. j < h \/ h < j
        BY <1>3, <4>2
      <4> QED
        BY <4>3, <4>4, <4>5
    <3> QED
      BY <1>8, <3>1, <3>2
  <2> QED
    BY <2>1, <2>2 DEF Listed
<1>14. \A k \in 1 .. m - 1 : lg2[e2[k]] = IF k < h THEN lg[e[k]] ELSE lg[e[k + 1]]
  BY <1>2, <1>4, <1>5, <1>6
<1> QED
  BY <1>2, <1>5, <1>9, <1>12, <1>13, <1>14 DEF WithAgain

LEMMA AppendParts ==
    ASSUME NEW R, NEW s \in Seq(R), NEW r \in R
    PROVE  LET t == Append(s, r)
           IN  /\ t \in Seq(R) /\ Len(t) = Len(s) + 1
               /\ \A k \in 1 .. Len(s) : t[k] = s[k]
               /\ t[Len(s) + 1] = r
OBVIOUS

\* One more review: what is on record stays the newest of the reviews that count.
LEMMA AppendedIsLatest ==
    ASSUME NEW rs, NEW lg, NEW m, NEW e, Latest(rs, lg, e, m), NEW p \in Photo, NEW v \in Opinion
    PROVE  OnRecord(Appended(rs, p, v), Append(lg, [photo |-> p, verdict |-> v]))
<1> DEFINE r == [photo |-> p, verdict |-> v]
           lg2 == Append(lg, r)
           n == Len(rs)
           longer == Append(Filtered(rs, p), r)
           trimmed == Appended(rs, p, v)
<1>1. r \in PageReview /\ r.photo = p
  BY DEF PageReview
<1>2. /\ rs \in Reviews /\ lg \in Reviews
      /\ Rising(e, m) /\ Listed(e, 1, m) = Standing(lg)
      /\ n = Smaller(m, MaxRecords)
      /\ \A k \in 1 .. n : rs[k] = lg[e[m - n + k]]
  BY DEF Latest
<1>3. m \in Nat /\ n \in Nat /\ MaxRecords \in Nat \ {0}
  BY <1>2, SeqParts, ReviewAssumption DEF Rising, Reviews
<1>4. n <= m /\ n <= MaxRecords /\ (n = m \/ n = MaxRecords)
  BY <1>2, <1>3 DEF Smaller
<1>5. lg2 \in Reviews
  BY <1>1, <1>2, AppendParts DEF Reviews
<1>6. \A k \in 1 .. m : e[k] \in Standing(lg)
  BY <1>2 DEF Listed
<1>7. \A k \in 1 .. n : m - n + k \in 1 .. m
  BY <1>3, <1>4
<1> HIDE DEF r, lg2
<1>8. ASSUME Filtered(rs, p) \in Reviews, NEW n2 \in Nat, NEW e2, Rising(e2, n2),
             Listed(e2, 1, n2) = Standing(lg2), Smaller(n2, MaxRecords) <= Len(longer), Len(longer) <= n2,
             \A q \in 1 .. Len(longer) : longer[q] = lg2[e2[n2 - Len(longer) + q]]
      PROVE  OnRecord(trimmed, lg2)
  <2>1. longer \in Reviews
    BY <1>1, <1>8, AppendParts DEF Reviews
  <2>2. EndOf(trimmed, longer)
    BY <2>1, AppendedIsEnd DEF r
  <2> HIDE DEF longer, trimmed
  <2>3. Latest(trimmed, lg2, e2, n2)
    BY <1>5, <1>8, <2>1, <2>2, EndIsLatest
  <2>4. e2 \in [1 .. n2 -> Nat]
    BY <1>8 DEF Rising
  <2> QED
    BY <1>8, <2>3, <2>4 DEF OnRecord
<1> HIDE DEF n, trimmed
<1>9. ASSUME Filtered(rs, p) \in Reviews
      PROVE  LET f == Filtered(rs, p)
             IN  /\ Len(f) \in Nat /\ Len(longer) = Len(f) + 1
                 /\ \A k \in 1 .. Len(f) : longer[k] = f[k]
                 /\ longer[Len(f) + 1] = r
                 /\ \A q \in 1 .. Len(f) + 1 : q \in 1 .. Len(f) \/ q = Len(f) + 1
  BY <1>1, <1>9, AppendParts, SeqParts DEF Reviews
<1> HIDE DEF longer
<1>10. CASE \A i \in Standing(lg) : lg[i].photo # p
  <2> DEFINE n2 == m + 1
  <2>7. PICK e2 : WithNew(e2, lg2, m, e, lg, r)
    <3>1. lg2 = Append(lg, r) /\ \A i \in Standing(lg) : lg[i].photo # r.photo
      BY <1>1, <1>10 DEF lg2
    <3> QED
      BY <1>1, <3>1, NewPage
  <2>1. /\ Rising(e2, n2) /\ Listed(e2, 1, n2) = Standing(lg2)
        /\ \A k \in 1 .. m : lg2[e2[k]] = lg[e[k]]
        /\ lg2[e2[n2]] = r
    BY <2>7 DEF WithNew
  <2>2. \A i \in 1 .. Len(rs) : rs[i].photo # p
    BY <1>2, <1>6, <1>7, <1>10 DEF n
  <2>3. /\ Filtered(rs, p) \in Reviews /\ Len(Filtered(rs, p)) = n
        /\ \A k \in 1 .. n : Filtered(rs, p)[k] = rs[k]
    BY <1>2, <2>2, FilteredNone DEF n
  <2>4. /\ Len(longer) = n + 1 /\ longer[n + 1] = r
        /\ \A k \in 1 .. n : longer[k] = lg[e[m - n + k]]
    BY <1>2, <1>9, <2>3
  <2>5. n2 \in Nat /\ Smaller(n2, MaxRecords) <= n + 1 /\ n + 1 <= n2
    BY <1>3, <1>4 DEF Smaller
  <2>6. ASSUME NEW q \in 1 .. n + 1 PROVE longer[q] = lg2[e2[n2 - (n + 1) + q]]
    <3>1. CASE q = n + 1
      <4>1. n2 - (n + 1) + q = n2
        BY <1>3, <3>1
      <4> QED
        BY <2>1, <2>4, <3>1, <4>1
    <3>2. CASE q \in 1 .. n
      <4>1. n2 - (n + 1) + q = m - n + q
        BY <1>3, <3>2
      <4> QED
        BY <1>7, <2>1, <2>4, <3>2, <4>1
    <3> QED
      BY <1>3, <3>1, <3>2
  <2> HIDE DEF n2
  <2> QED
    BY <1>8, <2>1, <2>3, <2>4, <2>5, <2>6 DEF trimmed, lg2, r
<1>11. ASSUME NEW i \in Standing(lg), lg[i].photo = p PROVE OnRecord(trimmed, lg2)
  <2>1. PICK h \in 1 .. m : i = e[h]
    BY <1>2 DEF Listed
  <2>5. lg[e[h]].photo = r.photo /\ lg2 = Append(lg, r)
    BY <1>1, <1>11, <2>1 DEF lg2
  <2>6. PICK e2 : WithAgain(e2, lg2, m, e, lg, r, h)
    BY <1>1, <2>5, PageAgain
  <2>2. /\ Rising(e2, m) /\ Listed(e2, 1, m) = Standing(lg2)
        /\ \A k \in 1 .. m - 1 : lg2[e2[k]] = IF k < h THEN lg[e[k]] ELSE lg[e[k + 1]]
        /\ lg2[e2[m]] = r
        /\ \A k \in 1 .. m : lg[e[k]].photo = p <=> k = h
    BY <1>1, <2>6 DEF WithAgain
  <2>3. CASE h <= m - n
    <3>1. \A k \in 1 .. n : m - n + k # h
      BY <1>3, <2>3
    <3>2. \A k \in 1 .. Len(rs) : rs[k].photo # p
      BY <1>2, <1>7, <2>2, <3>1 DEF n
    <3>3. /\ Filtered(rs, p) \in Reviews /\ Len(Filtered(rs, p)) = n
          /\ \A k \in 1 .. n : Filtered(rs, p)[k] = rs[k]
      BY <1>2, <3>2, FilteredNone DEF n
    <3>4. /\ Len(longer) = n + 1 /\ longer[n + 1] = r
          /\ \A k \in 1 .. n : longer[k] = lg[e[m - n + k]]
      BY <1>2, <1>9, <3>3
    <3>5. Smaller(m, MaxRecords) <= n + 1 /\ n + 1 <= m
      BY <1>3, <1>4, <2>3 DEF Smaller
    <3>6. ASSUME NEW q \in 1 .. n + 1 PROVE longer[q] = lg2[e2[m - (n + 1) + q]]
      <4>1. CASE q = n + 1
        <5>1. m - (n + 1) + q = m
          BY <1>3, <4>1
        <5> QED
          BY <2>2, <3>4, <4>1, <5>1
      <4>2. CASE q \in 1 .. n
        <5> DEFINE k == m - (n + 1) + q
        <5>1. k \in 1 .. m - 1 /\ ~(k < h) /\ k + 1 = m - n + q
          BY <1>3, <2>3, <3>5, <4>2
        <5> HIDE DEF k
        <5>2. lg2[e2[k]] = lg[e[m - n + q]]
          BY <2>2, <5>1
        <5> QED
          BY <3>4, <4>2, <5>2 DEF k
      <4> QED
        BY <1>3, <4>1, <4>2
    <3> QED
      BY <1>3, <1>8, <2>2, <3>3, <3>4, <3>5, <3>6
  <2>4. CASE ~(h <= m - n)
    <3> DEFINE j == h - (m - n)
    <3>1. j \in 1 .. n /\ \A k \in 1 .. n : m - n + k = h <=> k = j
      BY <1>3, <1>4, <2>4
    <3> HIDE DEF j
    <3>2. \A k \in 1 .. Len(rs) : rs[k].photo = p <=> k = j
      BY <1>2, <1>7, <2>2, <3>1 DEF n
    <3>3. /\ Filtered(rs, p) \in Reviews /\ Len(Filtered(rs, p)) = n - 1
          /\ \A k \in 1 .. n - 1 : Filtered(rs, p)[k] = IF k < j THEN rs[k] ELSE rs[k + 1]
      BY <1>2, <3>1, <3>2, FilteredOne DEF n
    <3>4. /\ Len(longer) = n /\ longer[n] = r
          /\ \A k \in 1 .. n - 1 : longer[k] = IF k < j THEN rs[k] ELSE rs[k + 1]
      <4>1. n - 1 + 1 = n
        BY <1>3
      <4> QED
        BY <1>9, <3>3, <4>1
    <3>5. Smaller(m, MaxRecords) <= n /\ n <= m
      BY <1>2, <1>3, <1>4
    <3>6. ASSUME NEW q \in 1 .. n PROVE longer[q] = lg2[e2[m - n + q]]
      <4>1. CASE q = n
        <5>1. m - n + q = m
          BY <1>3, <4>1
        <5> QED
          BY <2>2, <3>4, <4>1, <5>1
      <4>2. CASE q \in 1 .. n - 1
        <5> DEFINE k == m - n + q
        <5>1. /\ k \in 1 .. m - 1 /\ (k < h <=> q < j)
              /\ k + 1 = m - n + (q + 1)
              /\ q \in 1 .. n /\ q + 1 \in 1 .. n
          BY <1>3, <1>4, <4>2 DEF j
        <5> HIDE DEF k
        <5>2. rs[q] = lg[e[k]] /\ rs[q + 1] = lg[e[k + 1]]
          BY <1>2, <5>1 DEF k
        <5>3. lg2[e2[k]] = IF q < j THEN rs[q] ELSE rs[q + 1]
          BY <2>2, <5>1, <5>2
        <5> QED
          BY <3>4, <4>2, <5>3 DEF k
      <4> QED
        BY <1>3, <4>1, <4>2
    <3> QED
      BY <1>3, <1>8, <2>2, <3>3, <3>4, <3>5, <3>6
  <2> QED
    BY <2>3, <2>4
<1> QED
  BY <1>10, <1>11 DEF trimmed, lg2, r

LEMMA ConcatParts ==
    ASSUME NEW R, NEW s \in Seq(R), NEW t \in Seq(R)
    PROVE  /\ s \o t \in Seq(R) /\ Len(s \o t) = Len(s) + Len(t)
           /\ \A k \in 1 .. Len(s) : (s \o t)[k] = s[k]
           /\ \A k \in 1 .. Len(t) : (s \o t)[Len(s) + k] = t[k]
OBVIOUS

LEMMA SameSeq ==
    ASSUME NEW R, NEW s \in Seq(R), NEW t \in Seq(R), Len(s) = Len(t),
           \A k \in 1 .. Len(s) : s[k] = t[k]
    PROVE  s = t
OBVIOUS

\* The first n of the reviews w, after the log.
LogWith(lg, w, n) == lg \o [k \in 1 .. n |-> w[k]]

LEMMA LogGrows ==
    ASSUME NEW R, NEW lg \in Seq(R), NEW c \in Nat, NEW w \in [1 .. c -> R]
    PROVE  /\ LogWith(lg, w, 0) = lg
           /\ \A n \in 1 .. c : LogWith(lg, w, n) = Append(LogWith(lg, w, n - 1), w[n])
<1>1. LogWith(lg, w, 0) = lg
  BY DEF LogWith
<1>2. ASSUME NEW n \in 1 .. c PROVE LogWith(lg, w, n) = Append(LogWith(lg, w, n - 1), w[n])
  <2> DEFINE u == [k \in 1 .. n - 1 |-> w[k]]
             t == [k \in 1 .. n |-> w[k]]
  <2>1. n - 1 \in Nat /\ u \in [1 .. n - 1 -> R] /\ n \in Nat /\ t \in [1 .. n -> R] /\ w[n] \in R
    OBVIOUS
  <2>2. /\ \A k \in 1 .. n - 1 : u[k] = w[k] /\ t[k] = w[k]
        /\ t[n] = w[n]
    OBVIOUS
  <2> HIDE DEF u, t
  <2>3. u \in Seq(R) /\ Len(u) = n - 1 /\ t \in Seq(R) /\ Len(t) = n
    BY <2>1, SeqMade
  <2>4. t = Append(u, w[n])
    <3> DEFINE s == Append(u, w[n])
    <3>1. s \in Seq(R) /\ Len(s) = n /\ \A k \in 1 .. n : s[k] = t[k]
      BY <2>1, <2>2, <2>3
    <3> HIDE DEF s
    <3>2. s = t
      BY <2>3, <3>1
    <3> QED
      BY <3>2 DEF s
  <2>5. lg \o Append(u, w[n]) = Append(lg \o u, w[n])
    <3> DEFINE x == lg \o Append(u, w[n])
               y == Append(lg \o u, w[n])
               z == Append(u, w[n])
               q == lg \o u
    <3>1. z \in Seq(R) /\ Len(z) = n /\ z[n] = w[n] /\ \A k \in 1 .. n - 1 : z[k] = u[k]
      BY <2>1, <2>3
    <3>2. /\ q \in Seq(R) /\ Len(q) = Len(lg) + (n - 1) /\ Len(lg) \in Nat
          /\ \A k \in 1 .. Len(lg) : q[k] = lg[k]
          /\ \A k \in 1 .. n - 1 : q[Len(lg) + k] = u[k]
      <4>1. u \in Seq(R) /\ Len(lg) \in Nat
        BY <2>3, SeqParts
      <4>2. /\ q \in Seq(R) /\ Len(q) = Len(lg) + Len(u)
            /\ \A k \in 1 .. Len(lg) : q[k] = lg[k]
            /\ \A k \in 1 .. Len(u) : q[Len(lg) + k] = u[k]
        BY <4>1, ConcatParts
      <4> HIDE DEF q
      <4> QED
        BY <2>3, <4>1, <4>2
    <3> HIDE DEF z, q
    <3>3. /\ Append(q, w[n]) \in Seq(R) /\ Len(Append(q, w[n])) = Len(lg) + n
          /\ \A k \in 1 .. Len(lg) : Append(q, w[n])[k] = lg[k]
          /\ \A k \in 1 .. n - 1 : Append(q, w[n])[Len(lg) + k] = u[k]
          /\ Append(q, w[n])[Len(lg) + n] = w[n]
      BY <2>1, <3>2
    <3>4. /\ (lg \o z) \in Seq(R) /\ Len(lg \o z) = Len(lg) + n
          /\ \A k \in 1 .. Len(lg) : (lg \o z)[k] = lg[k]
          /\ \A k \in 1 .. n : (lg \o z)[Len(lg) + k] = z[k]
      BY <2>1, <3>1
    <3>5. x = lg \o z /\ y = Append(q, w[n])
      BY DEF z, q
    <3> HIDE DEF x, y
    <3>6. ASSUME NEW i \in 1 .. Len(lg) + n PROVE x[i] = y[i]
      <4>1. CASE i \in 1 .. Len(lg)
        BY <3>3, <3>4, <3>5, <4>1
      <4>2. CASE i \notin 1 .. Len(lg)
        <5> DEFINE k == i - Len(lg)
        <5>1. k \in 1 .. n /\ i = Len(lg) + k /\ (k \in 1 .. n - 1 \/ k = n)
          BY <2>1, <3>2, <4>2
        <5> HIDE DEF k
        <5> QED
          BY <3>1, <3>3, <3>4, <3>5, <5>1
      <4> QED
        BY <4>1, <4>2
    <3>7. x = y
      <4>1. /\ x \in Seq(R) /\ y \in Seq(R) /\ Len(x) = Len(lg) + n /\ Len(y) = Len(x)
        BY <3>3, <3>4, <3>5
      <4> QED
        BY <3>6, <4>1, SameSeq
    <3> QED
      BY <3>7 DEF x, y
  <2> QED
    BY <2>4, <2>5 DEF LogWith, u, t
<1> QED
  BY <1>1, <1>2

\* Reviews one after the other, f[n] being what is on record after n of them.
LEMMA RunIsLatest ==
    ASSUME NEW lg, NEW c \in Nat, NEW w \in [1 .. c -> PageReview],
           NEW f, OnRecord(f[0], lg),
           \A n \in 1 .. c : f[n - 1] \in Reviews
                                => f[n] = Appended(f[n - 1], w[n].photo, w[n].verdict)
    PROVE  \A n \in 0 .. c : f[n] \in Reviews /\ OnRecord(f[n], LogWith(lg, w, n))
<1> DEFINE Bad == {n \in 0 .. c : ~OnRecord(f[n], LogWith(lg, w, n))}
<1>1. ASSUME NEW n, NEW lg2, OnRecord(f[n], lg2) PROVE f[n] \in Reviews /\ lg2 \in Reviews
  BY <1>1 DEF OnRecord, Latest
<1>2. lg \in Reviews
  BY <1>1
<1>3. Bad = {}
  <2> SUFFICES ASSUME Bad # {} PROVE FALSE
    OBVIOUS
  <2>1. PICK n \in Bad : \A m \in Bad : n <= m
    <3>1. Bad \in SUBSET Nat
      OBVIOUS
    <3> HIDE DEF Bad
    <3> QED
      BY <3>1, LeastOf
  <2>2. n \in 0 .. c /\ ~OnRecord(f[n], LogWith(lg, w, n))
    OBVIOUS
  <2>3. n # 0
    BY <1>2, <2>2, LogGrows DEF Reviews
  <2>4. n \in 1 .. c /\ n - 1 \in 0 .. c /\ ~(n <= n - 1)
    BY <2>2, <2>3
  <2>5. n - 1 \notin Bad
    BY <2>1, <2>4
  <2>6. OnRecord(f[n - 1], LogWith(lg, w, n - 1))
    BY <2>4, <2>5
  <2> HIDE DEF Bad
  <2> DEFINE lg2 == LogWith(lg, w, n - 1)
  <2>7. f[n - 1] \in Reviews
    BY <1>1, <2>6
  <2>8. f[n] = Appended(f[n - 1], w[n].photo, w[n].verdict)
    BY <2>4, <2>7
  <2>9. /\ w[n] = [photo |-> w[n].photo, verdict |-> w[n].verdict]
        /\ w[n].photo \in Photo /\ w[n].verdict \in Opinion
    <3>1. w[n] \in PageReview
      BY <2>4
    <3> QED
      BY <3>1 DEF PageReview
  <2>10. LogWith(lg, w, n) = Append(lg2, [photo |-> w[n].photo, verdict |-> w[n].verdict])
    BY <1>2, <2>4, <2>9, LogGrows DEF Reviews
  <2> HIDE DEF lg2
  <2>11. PICK m \in Nat : \E e \in [1 .. m -> Nat] : Latest(f[n - 1], lg2, e, m)
    BY <2>6 DEF OnRecord, lg2
  <2>12. OnRecord(Appended(f[n - 1], w[n].photo, w[n].verdict),
                  Append(lg2, [photo |-> w[n].photo, verdict |-> w[n].verdict]))
    BY <2>9, <2>11, AppendedIsLatest
  <2> QED
    BY <2>2, <2>8, <2>10, <2>12
<1> QED
  BY <1>1, <1>3

\* The recursion of Reviewed has a solution, and any solution is such a run.
LEMMA ReviewedIsLatest ==
    ASSUME NEW rs, NEW lg, OnRecord(rs, lg), NEW d \in SUBSET Photo, NEW v \in Opinion
    PROVE  OnRecord(Reviewed(rs, d, v),
                    lg \o [n \in 1 .. Cardinality(d) |-> [photo |-> AtPlace(n, d), verdict |-> v]])
<1> DEFINE c == Cardinality(d)
           D == 0 .. c
           w == [n \in 1 .. c |-> [photo |-> AtPlace(n, d), verdict |-> v]]
           Solves(f) == f = [n \in 0 .. c |-> IF n = 0 THEN rs
                                              ELSE Appended(f[n - 1], AtPlace(n, d), v)]
<1>1. c \in Nat /\ \A n \in 1 .. c : AtPlace(n, d) \in Photo
  <2>1. IsFiniteSet(d) /\ d \in SUBSET Nat
    BY ReviewAssumption, FS_Subset
  <2> QED
    BY <2>1, PlacesInOrder
<1>2. w \in [1 .. c -> PageReview]
  BY <1>1 DEF PageReview
<1>3. \A n \in 1 .. c : w[n].photo = AtPlace(n, d) /\ w[n].verdict = v
  OBVIOUS
<1> HIDE DEF c
<1>4. PICK f : Solves(f)
  <2> DEFINE prev == [n \in D |-> IF n = 0 THEN 0 ELSE n - 1]
             rank == [n \in D |-> n]
             iterate == [x \in D \X Reviews |-> Appended(x[2], AtPlace(x[1], d), v)]
  <2>1. /\ prev \in [D -> D] /\ rank \in [D -> Nat]
        /\ \A n \in D : rank[n] <= c
        /\ \A n \in D : prev[n] # n => rank[prev[n]] < rank[n]
    BY <1>1
  <2>2. \A n \in D : prev[n] = IF n = 0 THEN 0 ELSE n - 1
    OBVIOUS
  <2>3. \A n \in D, s \in Reviews : iterate[<<n, s>>] = Appended(s, AtPlace(n, d), v)
    OBVIOUS
  <2> HIDE DEF prev, rank, iterate
  <2>4. PICK f : Follows(f, D, prev, rs, iterate)
    <3> HIDE DEF D
    <3> QED
      BY <1>1, <2>1, ChainExists
  <2>5. ASSUME NEW n \in D PROVE f[n] = IF n = 0 THEN rs ELSE iterate[<<n, f[n - 1]>>]
    <3>1. f[n] = IF prev[n] = n THEN rs ELSE iterate[<<n, f[prev[n]]>>]
      <4> HIDE DEF D
      <4> QED
        BY <2>4, FollowsAt
    <3>2. prev[n] = n <=> n = 0
      BY <1>1, <2>2
    <3> QED
      BY <2>2, <3>1, <3>2
  <2>6. \A n \in 1 .. c : f[n - 1] \in Reviews
                             => f[n] = Appended(f[n - 1], w[n].photo, w[n].verdict)
    <3> SUFFICES ASSUME NEW n \in 1 .. c, f[n - 1] \in Reviews
                 PROVE  f[n] = Appended(f[n - 1], AtPlace(n, d), v)
      BY <1>3
    <3>1. n \in D /\ n # 0
      BY <1>1
    <3> QED
      BY <2>3, <2>5, <3>1
  <2>7. f[0] = rs
    <3>1. 0 \in D
      BY <1>1
    <3> HIDE DEF D
    <3> QED
      BY <2>5, <3>1
  <2> HIDE DEF w
  <2>8. \A n \in 0 .. c : f[n] \in Reviews
    BY <1>1, <1>2, <2>6, <2>7, RunIsLatest
  <2>9. ASSUME NEW n \in D PROVE f[n] = IF n = 0 THEN rs ELSE Appended(f[n - 1], AtPlace(n, d), v)
    <3>1. CASE n = 0
      BY <2>7, <3>1
    <3>2. CASE n # 0
      <4>1. n \in 1 .. c /\ n - 1 \in 0 .. c
        BY <1>1, <3>2
      <4> QED
        BY <1>3, <2>6, <2>8, <3>2, <4>1
    <3> QED
      BY <3>1, <3>2
  <2>10. f = [n \in D |-> f[n]]
    BY <2>4 DEF Follows
  <2> QED
    BY <2>9, <2>10
<1> DEFINE g == CHOOSE g : Solves(g)
<1>5. Solves(g)
  <2> HIDE DEF Solves
  <2> QED
    BY <1>4
<1>6. Reviewed(rs, d, v) = g[c]
  BY DEF Reviewed, c
<1> HIDE DEF g
<1>7. ASSUME NEW n \in 0 .. c PROVE g[n] = IF n = 0 THEN rs ELSE Appended(g[n - 1], AtPlace(n, d), v)
  <2> DEFINE G == [k \in 0 .. c |-> IF k = 0 THEN rs ELSE Appended(g[k - 1], AtPlace(k, d), v)]
  <2>1. G[n] = IF n = 0 THEN rs ELSE Appended(g[n - 1], AtPlace(n, d), v)
    OBVIOUS
  <2>2. g = G
    BY <1>5
  <2> HIDE DEF G
  <2> QED
    BY <2>1, <2>2
<1>8. g[0] = rs
  BY <1>1, <1>7
<1>9. \A n \in 1 .. c : g[n] = Appended(g[n - 1], w[n].photo, w[n].verdict)
  <2> SUFFICES ASSUME NEW n \in 1 .. c PROVE g[n] = Appended(g[n - 1], AtPlace(n, d), v)
    BY <1>3
  <2>1. n \in 0 .. c /\ n # 0
    BY <1>1
  <2> QED
    BY <1>7, <2>1
<1>10. OnRecord(g[c], LogWith(lg, w, c))
  <2>1. c \in 0 .. c
    BY <1>1
  <2> HIDE DEF w
  <2> QED
    BY <1>1, <1>2, <1>8, <1>9, <2>1, RunIsLatest
<1>11. LogWith(lg, w, c) = lg \o w
  <2> HIDE DEF w
  <2>1. w = [k \in 1 .. c |-> w[k]]
    BY <1>2
  <2> QED
    BY <2>1 DEF LogWith
<1> QED
  BY <1>6, <1>10, <1>11 DEF w, c

\* Counting in the log, as the property does, finds the same reviews.
LEMMA LatestIsCounted ==
    ASSUME NEW m, NEW e, Latest(records, log, e, m)
    PROVE  FeedbackIsTheLatest
<1> DEFINE last == {i \in 1 .. Len(log) : \A j \in i + 1 .. Len(log) : log[j].photo # log[i].photo}
           newest == {i \in last : Cardinality({j \in last : j >= i}) <= MaxRecords}
           n == Len(records)
           e2 == [k \in 1 .. n |-> e[m - n + k]]
<1>1. /\ Rising(e, m) /\ Listed(e, 1, m) = last
      /\ n = Smaller(m, MaxRecords)
      /\ \A k \in 1 .. n : records[k] = log[e[m - n + k]]
  BY DEF Latest, Standing
<1>2. m \in Nat /\ n \in Nat /\ MaxRecords \in Nat /\ n <= m
      /\ \A k \in 1 .. m : m - k + 1 <= MaxRecords <=> m - n + 1 <= k
  <2>1. m \in Nat /\ MaxRecords \in Nat
    BY <1>1, ReviewAssumption DEF Rising
  <2> HIDE DEF n
  <2>2. n \in {m, MaxRecords} /\ n <= m /\ n <= MaxRecords
    BY <1>1, <2>1 DEF Smaller
  <2> QED
    BY <2>1, <2>2
<1> HIDE DEF last, n
<1>3. e \in [1 .. m -> Nat] /\ \A j, k \in 1 .. m : j < k => e[j] < e[k]
  BY <1>1 DEF Rising
<1>4. ASSUME NEW k \in 1 .. m PROVE Cardinality({j \in last : j >= e[k]}) = m - k + 1
  <2>1. \A j \in 1 .. m : e[j] \in Nat /\ (e[j] >= e[k] <=> k <= j)
    <3> SUFFICES ASSUME NEW j \in 1 .. m PROVE e[j] \in Nat /\ (e[j] >= e[k] <=> k <= j)
      OBVIOUS
    <3>1. /\ e[j] \in Nat /\ e[k] \in Nat
          /\ j < k => e[j] < e[k]
          /\ k < j => e[k] < e[j]
          /\ j = k => e[j] = e[k]
      BY <1>3
    <3> QED
      BY <1>2, <3>1
  <2>2. \A i : i \in last <=> \E j \in 1 .. m : i = e[j]
    BY <1>1 DEF Listed
  <2>3. \A j : j \in k .. m <=> j \in 1 .. m /\ k <= j
    BY <1>2
  <2>4. {j \in last : j >= e[k]} = Listed(e, k, m)
    <3>1. \A i : i \in Listed(e, k, m) <=> \E j \in k .. m : i = e[j]
      BY DEF Listed
    <3>2. \A i : i \in Listed(e, k, m) <=> i \in last /\ i >= e[k]
      BY <2>1, <2>2, <2>3, <3>1
    <3> QED
      BY <3>2
  <2>5. Cardinality(Listed(e, k, m)) = m - k + 1
    BY <1>1, <1>2, CountOfListed
  <2> QED
    BY <2>4, <2>5
<1>5. \A k \in 1 .. n : m - n + k \in 1 .. m /\ e2[k] = e[m - n + k] /\ e2[k] \in Nat
  BY <1>2, <1>3
<1>6. Rising(e2, n)
  <2>1. e2 \in [1 .. n -> Nat]
    BY <1>5
  <2>2. ASSUME NEW j \in 1 .. n, NEW k \in 1 .. n, j < k PROVE e2[j] < e2[k]
    <3>1. m - n + j < m - n + k
      BY <1>2, <2>2
    <3> HIDE DEF e2
    <3> QED
      BY <1>3, <1>5, <3>1
  <2> HIDE DEF e2
  <2> QED
    BY <1>2, <2>1, <2>2 DEF Rising
<1> HIDE DEF e2
<1>7. Listed(e2, 1, n) = newest
  <2>1. ASSUME NEW i \in newest PROVE i \in Listed(e2, 1, n)
    <3>1. i \in last
      OBVIOUS
    <3>2. PICK k \in 1 .. m : i = e[k]
      BY <1>1, <3>1 DEF Listed
    <3>3. m - k + 1 <= MaxRecords
      BY <1>4, <3>2
    <3> DEFINE h == k - (m - n)
    <3>4. h \in 1 .. n /\ m - n + h = k
      BY <1>2, <3>3
    <3> HIDE DEF h
    <3>5. e2[h] = i
      BY <1>5, <3>2, <3>4
    <3> QED
      BY <3>4, <3>5 DEF Listed
  <2>2. ASSUME NEW i \in Listed(e2, 1, n) PROVE i \in newest
    <3>1. PICK h \in 1 .. n : i = e2[h]
      BY DEF Listed
    <3> DEFINE k == m - n + h
    <3>2. k \in 1 .. m /\ i = e[k] /\ m - n + 1 <= k
      BY <1>2, <1>5, <3>1
    <3> HIDE DEF k
    <3>3. i \in last
      BY <1>1, <3>2 DEF Listed
    <3>4. Cardinality({j \in last : j >= i}) <= MaxRecords
      BY <1>2, <1>4, <3>2
    <3> QED
      BY <3>3, <3>4
  <2> HIDE DEF newest
  <2> QED
    BY <2>1, <2>2
<1> HIDE DEF newest
<1>8. Cardinality(newest) = n /\ \A k \in 1 .. n : Place(e2[k], newest) = k
  BY <1>6, <1>7, PlacesOfListed
<1>9. ASSUME NEW i \in newest PROVE records[Cardinality({j \in newest : j <= i})] = log[i]
  <2>1. PICK k \in 1 .. n : i = e2[k]
    BY <1>7 DEF Listed
  <2>2. Cardinality({j \in newest : j <= i}) = k
    BY <1>8, <2>1 DEF Place
  <2> QED
    BY <1>1, <1>5, <2>1, <2>2
<1> QED
  BY <1>8, <1>9 DEF FeedbackIsTheLatest, last, newest, n

LEMMA FeedbackStart == OnRecord(Earlier, Earlier)
<1> DEFINE m == Len(Earlier)
           e == [k \in 1 .. m |-> k]
<1>1. /\ Earlier \in Reviews /\ m \in Nat /\ MaxRecords \in Nat /\ m <= MaxRecords
      /\ \A i, j \in 1 .. m : i # j => Earlier[i].photo # Earlier[j].photo
  <2>1. Earlier \in Reviews
    BY ReviewAssumption DEF Reviews, PageReview, Opinion
  <2> QED
    BY <2>1, ReviewAssumption, SeqParts DEF Reviews
<1> HIDE DEF m
<1>2. Rising(e, m) /\ \A k \in 1 .. m : e[k] = k
  BY <1>1 DEF Rising
<1>3. e \in [1 .. m -> Nat]
  BY <1>1
<1> HIDE DEF e
<1>4. Listed(e, 1, m) = 1 .. m
  BY <1>2 DEF Listed
<1>5. Standing(Earlier) = 1 .. m
  <2>1. ASSUME NEW i \in 1 .. m, NEW j \in i + 1 .. m PROVE j \in 1 .. m /\ i # j
    BY <1>1
  <2> QED
    BY <1>1, <2>1 DEF Standing, m
<1>6. Smaller(m, MaxRecords) = m /\ \A k \in 1 .. m : m - m + k = k
  BY <1>1 DEF Smaller
<1>7. Latest(Earlier, Earlier, e, m)
  BY <1>1, <1>2, <1>4, <1>5, <1>6 DEF Latest, m
<1> QED
  BY <1>1, <1>3, <1>7 DEF OnRecord

\* The pages that are sent are recorded as they are logged.
LEMMA ApprovalIsLatest ==
    ASSUME OnRecord(records, log), NEW h \in Handler, approving[h] \subseteq Approval,
           ApprovalSucceeds(h)
    PROVE  OnRecord(records', log')
<1>1. PICK a \in approving[h] :
          LET sent == a.draft \cap a.shown
          IN  /\ records' = Reviewed(records, sent, a.verdict)
              /\ log' = log \o [n \in 1 .. Cardinality(sent) |->
                                   [photo |-> AtPlace(n, sent), verdict |-> a.verdict]]
  BY DEF ApprovalSucceeds
<1> DEFINE sent == a.draft \cap a.shown
<1>2. a.draft \in SUBSET Photo /\ a.verdict \in Opinion
  BY DEF Approval, Draft
<1>3. sent \in SUBSET Photo
  BY <1>2
<1> HIDE DEF sent
<1>4. OnRecord(Reviewed(records, sent, a.verdict),
               log \o [n \in 1 .. Cardinality(sent) |->
                          [photo |-> AtPlace(n, sent), verdict |-> a.verdict]])
  BY <1>2, <1>3, ReviewedIsLatest
<1> QED
  BY <1>1, <1>4 DEF sent

\* No two drafts of the service are of one lecture, and every set of at most one is that.
DraftsApart ==
    /\ drafts \subseteq Draft
    /\ \A d1, d2 \in drafts : \A p \in d1, q \in d2 : TakenIn[p] = TakenIn[q] => d1 = d2
    /\ refreshing \subseteq SUBSET Photo /\ \A x, y \in refreshing : x = y
    /\ \A h \in Handler : \A a, b \in approving[h] : a = b

ReviewInv == ReviewTypeOK /\ DraftsApart /\ OnRecord(records, log)

LEMMA AtMostOne ==
    ASSUME NEW S, \A x, y \in S : x = y
    PROVE  IsFiniteSet(S) /\ Cardinality(S) <= 1
<1>1. CASE S = {}
  BY <1>1, FS_EmptySet
<1>2. CASE S # {}
  <2>1. PICK x : S = {x}
    BY <1>2
  <2>2. IsFiniteSet({x}) /\ Cardinality({x}) = 1
    BY FS_Singleton
  <2>3. IsFiniteSet(S) /\ Cardinality(S) = 1
    BY <2>1, <2>2
  <2> QED
    BY <2>3
<1> QED
  BY <1>1, <1>2

LEMMA LecturesCounted == IsFiniteSet(Lecture) /\ Cardinality(Lecture) \in Nat
<1>1. TakenIn \in Surjection(Photo, Lecture) /\ IsFiniteSet(Photo)
  BY ReviewAssumption DEF Surjection, Lecture
<1> QED
  BY <1>1, FS_Surjection, FS_CardinalityType

\* As many drafts as lectures at most.
LEMMA DraftsOfLectures ==
    ASSUME DraftsApart
    PROVE  Cardinality(drafts) \in 0 .. Cardinality(Lecture)
<1> DEFINE Of(d) == TakenIn[CHOOSE p \in d : TRUE]
           f == [d \in drafts |-> Of(d)]
<1>1. IsFiniteSet(Lecture) /\ Cardinality(Lecture) \in Nat
  BY LecturesCounted
<1>2. ASSUME NEW d \in drafts PROVE (CHOOSE p \in d : TRUE) \in d /\ Of(d) \in Lecture
  <2>1. d \subseteq Photo /\ d # {}
    BY DEF DraftsApart, Draft
  <2>2. (CHOOSE p \in d : TRUE) \in d
    BY <2>1
  <2> QED
    BY <2>1, <2>2 DEF Lecture
<1>3. \A d1, d2 \in drafts : f[d1] = f[d2] => d1 = d2
  BY <1>2 DEF DraftsApart
<1>4. f \in [drafts -> Lecture]
  BY <1>2
<1> HIDE DEF f
<1>5. f \in Injection(drafts, Lecture)
  BY <1>3, <1>4 DEF Injection, IsInjective
<1>6. IsFiniteSet(drafts) /\ Cardinality(drafts) <= Cardinality(Lecture)
  BY <1>1, <1>5, FS_Injection
<1> QED
  BY <1>1, <1>6, FS_CardinalityType

LEMMA ReviewStart == ReviewInit => ReviewInv
<1> SUFFICES ASSUME ReviewInit PROVE ReviewInv
  OBVIOUS
<1>1. OnRecord(records, log)
  BY FeedbackStart DEF ReviewInit
<1>2. DraftsApart
  BY DEF ReviewInit, DraftsApart
<1>3. MaxUploads \in Nat
  BY ReviewAssumption
<1>4. /\ Cardinality({}) = 0 /\ Cardinality(Lecture) \in Nat
  BY LecturesCounted, FS_EmptySet
<1>5. /\ records \in Seq([photo : Photo, verdict : Opinion]) /\ Len(records) <= MaxRecords
      /\ log \in Seq([photo : Photo, verdict : Opinion])
  BY ReviewAssumption DEF ReviewInit, Opinion
<1>6. ReviewTypeOK
  BY <1>3, <1>4, <1>5 DEF ReviewInit, ReviewTypeOK
<1> QED
  BY <1>1, <1>2, <1>6 DEF ReviewInv

\* What the actions leave alone.
LEMMA FeedbackStays == OnRecord(records, log) /\ UNCHANGED feedback => OnRecord(records', log')
  BY DEF feedback

\* A preview that goes leaves the approvals as they are, and locks nothing any more.
LEMMA UnlockedApprovals ==
    ASSUME NEW as, NEW gone, as \subseteq Approval, \A a, b \in as : a = b
    PROVE  /\ Unlocked(as, gone) \subseteq Approval
           /\ \A a, b \in Unlocked(as, gone) : a = b
<1> DEFINE Without(a) == [a EXCEPT !.locks = @ \ gone]
<1>1. Unlocked(as, gone) = {Without(a) : a \in as}
  BY DEF Unlocked
<1>2. \A a \in Approval : Without(a) \in Approval
  BY DEF Approval
<1> HIDE DEF Without
<1> QED
  BY <1>1, <1>2

LEMMA WindowSteps ==
    ASSUME ReviewInv, NEW w \in Reader,
           \/ PollDashboard(w) \/ LoadDrafts(w) \/ ClosePreview(w) \/ PressRefresh(w)
           \/ \E d \in listed[w] : OpenPreview(w, d)
    PROVE  ReviewInv'
<1> USE DEF ReviewInv, ReviewTypeOK, DraftsApart, service, feedback, Set
<1>1. Cardinality(drafts) \in 0 .. Cardinality(Lecture)
  BY DraftsOfLectures
<1>2. \A d \in drafts : d \subseteq Photo
  BY DEF Draft
<1>3. CASE PollDashboard(w)
  BY <1>1, <1>3 DEF PollDashboard
<1>4. CASE LoadDrafts(w)
  <2>1. UNION Current(drafts, w) \subseteq Photo
    BY <1>2 DEF Current, OfLecture
  <2>2. ASSUME NEW h \in Handler
        PROVE  /\ approving'[h] \in SUBSET Approval
               /\ \A a, b \in approving'[h] : a = b
    <3>1. approving[h] \subseteq Approval /\ \A a, b \in approving[h] : a = b
      OBVIOUS
    <3>2. approving'[h] \in {approving[h], Unlocked(approving[h], {w})}
      BY <1>4 DEF LoadDrafts
    <3>3. /\ Unlocked(approving[h], {w}) \subseteq Approval
          /\ \A a, b \in Unlocked(approving[h], {w}) : a = b
      BY <3>1, UnlockedApprovals
    <3> HIDE DEF ReviewInv, ReviewTypeOK, DraftsApart
    <3> QED
      BY <3>1, <3>2, <3>3, ZenonT(30)
  <2>3. \A h \in Handler : Cardinality(approving'[h]) <= 1
    BY <2>2, AtMostOne
  <2>4. approving' \in [Handler -> SUBSET Approval]
    BY <1>4, <2>2 DEF LoadDrafts
  <2>5. listed' \in [Reader -> SUBSET Draft] /\ stale' \in [Reader -> BOOLEAN]
    BY <1>4 DEF LoadDrafts
  <2>6. pages' \in [Reader -> SUBSET Photo]
    BY <1>4, <2>1 DEF LoadDrafts
  <2>7. UNCHANGED <<held, uploads, drafts, refreshing, count, news, open, waits, written,
                    records, log>>
    BY <1>4 DEF LoadDrafts
  <2> QED
    BY <2>2, <2>3, <2>4, <2>5, <2>6, <2>7
<1>5. CASE ClosePreview(w)
  BY <1>5 DEF ClosePreview
<1>6. CASE PressRefresh(w)
  <2> DEFINE marked(f) == [f EXCEPT ![w] = TRUE]
  <2>1. /\ refreshing' \in {refreshing, {held}}
        /\ waits' \in {waits, marked(waits)}
        /\ stale' \in {stale, marked(stale)}
        /\ UNCHANGED <<held, uploads, drafts, approving, listed, count, news, open, pages,
                       written, records, log>>
    BY <1>6 DEF PressRefresh
  <2>2. refreshing' \subseteq SUBSET Photo /\ \A x, y \in refreshing' : x = y
    BY <2>1
  <2>3. Cardinality(refreshing') <= 1
    BY <2>2, AtMostOne
  <2>4. \A f \in [Reader -> BOOLEAN] : marked(f) \in [Reader -> BOOLEAN]
    OBVIOUS
  <2> HIDE DEF marked
  <2>5. waits' \in [Reader -> BOOLEAN] /\ stale' \in [Reader -> BOOLEAN]
    BY <2>1, <2>4
  <2> QED
    BY <2>1, <2>2, <2>3, <2>5
<1>7. CASE \E d \in listed[w] : OpenPreview(w, d)
  <2>1. PICK d \in listed[w] : OpenPreview(w, d)
    BY <1>7
  <2>2. d \subseteq Photo /\ d # {}
    BY DEF Draft
  <2>3. (CHOOSE p \in d : TRUE) \in Photo
    BY <2>2
  <2>4. TakenIn[CHOOSE p \in d : TRUE] \in Lecture
    BY <2>3 DEF Lecture
  <2> QED
    BY <2>1, <2>2, <2>4 DEF OpenPreview
<1> QED
  BY <1>3, <1>4, <1>5, <1>6, <1>7

LEMMA HandlerSteps ==
    ASSUME ReviewInv,
           \/ \E w \in Reader : \/ ReloadWindow(w)
                                \/ \E h \in Handler, verdict \in Opinion : PressApprove(w, h, verdict)
           \/ \E h \in Handler : ApprovalFails(h)
    PROVE  ReviewInv'
<1> USE DEF ReviewInv, ReviewTypeOK, DraftsApart, service, window, feedback, Set
<1>1. CASE \E w \in Reader : ReloadWindow(w)
  <2>1. PICK w \in Reader : ReloadWindow(w)
    BY <1>1
  <2>2. Cardinality(drafts) \in 0 .. Cardinality(Lecture)
    BY DraftsOfLectures
  <2>3. ASSUME NEW h \in Handler
        PROVE  /\ approving'[h] \subseteq Approval
               /\ \A a, b \in approving'[h] : a = b
    <3> DEFINE Without(a) == [a EXCEPT !.by = @ \ {w}, !.locks = @ \ {w}]
    <3>1. approving'[h] = {Without(a) : a \in approving[h]}
      BY <2>1 DEF ReloadWindow
    <3>2. \A a \in Approval : Without(a) \in Approval
      BY DEF Approval
    <3> HIDE DEF Without
    <3> QED
      BY <3>1, <3>2
  <2>4. \A h \in Handler : Cardinality(approving'[h]) <= 1
    BY <2>3, AtMostOne
  <2>5. approving' \in [Handler -> SUBSET Approval]
    BY <2>1, <2>3 DEF ReloadWindow
  <2> QED
    BY <2>1, <2>2, <2>3, <2>4, <2>5 DEF ReloadWindow
<1>2. CASE \E w \in Reader, h \in Handler, verdict \in Opinion : PressApprove(w, h, verdict)
  <2>1. PICK w \in Reader, h \in Handler, verdict \in Opinion : PressApprove(w, h, verdict)
    BY <1>2
  <2>2. PICK d \in listed[w], mine \in drafts :
            approving' = [approving EXCEPT ![h] =
                              {[draft |-> mine, shown |-> d, verdict |-> verdict,
                                by |-> {w}, locks |-> {w}]}]
    BY <2>1 DEF PressApprove, Current, OfLecture
  <2> DEFINE a == [draft |-> mine, shown |-> d, verdict |-> verdict, by |-> {w}, locks |-> {w}]
  <2>3. a \in Approval
    BY DEF Approval
  <2> HIDE DEF a
  <2>4. approving' = [approving EXCEPT ![h] = {a}]
    BY <2>2 DEF a
  <2>5. Cardinality({a}) = 1
    BY FS_Singleton
  <2>6. /\ approving' \in [Handler -> SUBSET Approval]
        /\ \A g \in Handler : Cardinality(approving'[g]) <= 1 /\ \A b, c \in approving'[g] : b = c
    BY <2>3, <2>4, <2>5
  <2>7. UNCHANGED <<held, uploads, drafts, refreshing, window, written, feedback>>
    BY <2>1 DEF PressApprove
  <2> QED
    BY <2>6, <2>7
<1>3. CASE \E h \in Handler : ApprovalFails(h)
  <2>1. Cardinality({}) = 0
    BY FS_EmptySet
  <2> QED
    BY <1>3, <2>1 DEF ApprovalFails
<1> QED
  BY <1>1, <1>2, <1>3

\* What is left of a set of drafts has no two of one lecture either.
LEMMA ApprovedSteps ==
    ASSUME ReviewInv, NEW h \in Handler, ApprovalSucceeds(h)
    PROVE  ReviewInv'
<1> USE DEF ReviewInv, ReviewTypeOK, DraftsApart
<1>1. OnRecord(records', log')
  BY ApprovalIsLatest
<1>2. /\ records' \in Seq([photo : Photo, verdict : Opinion]) /\ Len(records') <= MaxRecords
      /\ log' \in Seq([photo : Photo, verdict : Opinion])
  <2>1. PICK m \in Nat : \E e \in [1 .. m -> Nat] : Latest(records', log', e, m)
    BY <1>1 DEF OnRecord
  <2>2. MaxRecords \in Nat
    BY ReviewAssumption
  <2> QED
    BY <2>1, <2>2 DEF Latest, Reviews, PageReview, Smaller
<1>3. PICK a \in approving[h] :
          /\ written' = written \cup {[photo |-> p, shown |-> p \in a.shown] : p \in a.draft}
          /\ held' = held \ a.draft
          /\ drafts' \subseteq drafts
          /\ approving' = [g \in Handler |-> IF g = h THEN {} ELSE Unlocked(approving[g], a.by)]
          /\ open' = [w \in Reader |-> IF w \in a.by THEN NoLecture ELSE open[w]]
          /\ pages' = [w \in Reader |-> IF w \in a.by THEN {} ELSE pages[w]]
          /\ stale' = [w \in Reader |-> stale[w] \/ w \in a.by]
          /\ UNCHANGED <<uploads, refreshing, listed, count, news, waits>>
  BY DEF ApprovalSucceeds, Set
<1>4. a.draft \subseteq Photo
  BY DEF Approval, Draft
<1>5. written' \subseteq NotePage
  <2>1. \A p \in a.draft : [photo |-> p, shown |-> p \in a.shown] \in NotePage
    BY <1>4 DEF NotePage
  <2> QED
    BY <1>3, <2>1
<1>6. Cardinality({}) = 0
  BY FS_EmptySet
<1>7. stale' \in [Reader -> BOOLEAN]
  BY <1>3
<1>8. open' \in [Reader -> Lecture \cup {NoLecture}] /\ pages' \in [Reader -> SUBSET Photo]
  BY <1>3
<1>9. /\ approving' \in [Handler -> SUBSET Approval]
      /\ \A g \in Handler : Cardinality(approving'[g]) <= 1 /\ \A b, c \in approving'[g] : b = c
  <2>2. ASSUME NEW g \in Handler
        PROVE  /\ approving'[g] \in SUBSET Approval
               /\ \A b, c \in approving'[g] : b = c
    <3>1. approving[g] \subseteq Approval /\ \A b, c \in approving[g] : b = c
      OBVIOUS
    <3>2. approving'[g] \in {{}, Unlocked(approving[g], a.by)}
      BY <1>3
    <3>3. /\ Unlocked(approving[g], a.by) \subseteq Approval
          /\ \A b, c \in Unlocked(approving[g], a.by) : b = c
      BY <3>1, UnlockedApprovals
    <3> QED
      BY <3>2, <3>3
  <2>3. \A g \in Handler : Cardinality(approving'[g]) <= 1
    BY <2>2, AtMostOne
  <2> QED
    BY <1>3, <2>2, <2>3
<1>10. ReviewTypeOK'
  BY <1>2, <1>3, <1>5, <1>7, <1>8, <1>9
<1>11. DraftsApart'
  BY <1>3, <1>9
<1> QED
  BY <1>1, <1>10, <1>11

\* One draft for each lecture, and none without a page.
LEMMA DraftsGrouped ==
    ASSUME NEW photos \in SUBSET Photo
    PROVE  /\ Grouped(photos) \subseteq Draft
           /\ \A d1, d2 \in Grouped(photos) : \A p \in d1, q \in d2 : TakenIn[p] = TakenIn[q] => d1 = d2
  BY DEF Grouped, Draft

LEMMA RefreshedSteps ==
    ASSUME ReviewInv, NEW ds, NEW loading, EndOfRefresh(ds, loading), ds \subseteq Draft,
           \A d1, d2 \in ds : \A p \in d1, q \in d2 : TakenIn[p] = TakenIn[q] => d1 = d2
    PROVE  ReviewInv'
<1> USE DEF ReviewInv, ReviewTypeOK, DraftsApart, feedback
<1>1. Cardinality({}) = 0
  BY FS_EmptySet
<1>2. stale' \in [Reader -> BOOLEAN] /\ waits' \in [Reader -> BOOLEAN]
  BY DEF EndOfRefresh
<1> QED
  BY <1>1, <1>2 DEF EndOfRefresh

LEMMA ServiceSteps ==
    ASSUME ReviewInv,
           RefreshSucceeds \/ RefreshBreaks \/ RevokePhone \/ KillDesktop
             \/ \E p \in Photo : UploadPhoto(p)
    PROVE  ReviewInv'
<1>1. Cardinality({}) = 0
  BY FS_EmptySet
<1>2. CASE RefreshSucceeds
  <2>1. PICK photos \in refreshing : EndOfRefresh(Grouped(photos), {w \in Reader : waits[w]})
    BY <1>2 DEF RefreshSucceeds
  <2>2. photos \in SUBSET Photo
    BY DEF ReviewInv, DraftsApart
  <2> QED
    BY <2>1, <2>2, DraftsGrouped, RefreshedSteps
<1>3. CASE RefreshBreaks
  <2>1. EndOfRefresh(drafts, {})
    BY <1>3 DEF RefreshBreaks
  <2> QED
    BY <2>1, RefreshedSteps DEF ReviewInv, DraftsApart
<1> USE DEF ReviewInv, ReviewTypeOK, DraftsApart, service, window, feedback
<1>4. CASE RevokePhone
  BY <1>4 DEF RevokePhone
<1>5. CASE KillDesktop
  BY <1>1, <1>5 DEF KillDesktop
<1>6. CASE \E p \in Photo : UploadPhoto(p)
  <2>1. PICK p \in Photo : UploadPhoto(p)
    BY <1>6
  <2>2. uploads' \in 0 .. MaxUploads
    BY <2>1, ReviewAssumption DEF UploadPhoto
  <2> QED
    BY <2>1, <2>2 DEF UploadPhoto
<1> QED
  BY <1>2, <1>3, <1>4, <1>5, <1>6

LEMMA ReviewSteps == ReviewInv /\ [ReviewNext]_reviewVars => ReviewInv'
<1> SUFFICES ASSUME ReviewInv, [ReviewNext]_reviewVars PROVE ReviewInv'
  OBVIOUS
<1>1. CASE ReviewNext
  BY <1>1, WindowSteps, HandlerSteps, ApprovedSteps, ServiceSteps DEF ReviewNext
<1>2. CASE UNCHANGED reviewVars
  BY <1>2 DEF ReviewInv, ReviewTypeOK, DraftsApart, reviewVars, service, window, feedback
<1> QED
  BY <1>1, <1>2

LEMMA ReviewInvHolds == ReviewSpec => []ReviewInv
  BY ReviewStart, ReviewSteps, PTL DEF ReviewSpec

\* The drafts, the windows and the file are well typed: the service has one draft of a
\* lecture at most, a refresh and an answer are there once, and the file holds no more than
\* MAX_RECORDS reviews (api.ts:300-346, feedbackStore.ts:44-63).
THEOREM ReviewTypeCorrect == ReviewSpec => []ReviewTypeOK
  BY ReviewInvHolds, PTL DEF ReviewInv

\* feedback.json has what the reader said last of the pages, the newest MAX_RECORDS of them
\* in their order, for any readers, photographs, approvals that overlap, and any reviews it
\* began with (feedbackStore.ts:44-63).
THEOREM FeedbackIsAlwaysTheLatest == ReviewSpec => []FeedbackIsTheLatest
<1>1. ReviewInv => FeedbackIsTheLatest
  BY LatestIsCounted DEF ReviewInv, OnRecord
<1> QED
  BY <1>1, ReviewInvHolds, PTL
-----------------------------------------------------------------------------
(* The parts together *)

PartSteps ==
    /\ [NotesNext]_notesVars /\ [CropsNext]_cropVars /\ [ResearchNext]_researchVars
    /\ [VaultNext]_vaultVars /\ [SetupNext]_setupVars /\ [ModelsNext]_modelsVars
    /\ [ReviewNext]_reviewVars

\* A step of the desktop is a step of one part, and the others stay.
LEMMA StepOfAPart == [DesktopNext]_desktopVars => PartSteps
<1> SUFFICES ASSUME [DesktopNext]_desktopVars PROVE PartSteps
  OBVIOUS
<1>1. CASE NotesPart
  BY <1>1 DEF NotesPart, PartSteps
<1>2. CASE CropsPart
  BY <1>2 DEF CropsPart, PartSteps
<1>3. CASE ResearchPart
  BY <1>3 DEF ResearchPart, PartSteps
<1>4. CASE VaultPart
  BY <1>4 DEF VaultPart, PartSteps
<1>5. CASE SetupPart
  BY <1>5 DEF SetupPart, PartSteps
<1>6. CASE ModelsPart
  BY <1>6 DEF ModelsPart, PartSteps
<1>7. CASE ReviewPart
  BY <1>7 DEF ReviewPart, PartSteps
<1>8. CASE UNCHANGED desktopVars
  BY <1>8 DEF desktopVars, PartSteps
<1> QED
  BY <1>1, <1>2, <1>3, <1>4, <1>5, <1>6, <1>7, <1>8 DEF DesktopNext

\* Putting the parts into one run takes nothing from them: each behaves as it is specified,
\* so the theorems of the parts are theorems of what is checked.
THEOREM PartsBehave ==
    DesktopSpec => /\ CropsSpec /\ ResearchSpec /\ VaultSpec /\ SetupSpec /\ ModelsSpec
                   /\ ReviewSpec
                   /\ NotesInit /\ [][NotesNext]_notesVars
<1>1. DesktopInit => /\ CropsInit /\ ResearchInit /\ VaultInit /\ SetupInit /\ ModelsInit
                     /\ ReviewInit /\ NotesInit
  BY DEF DesktopInit
<1>2. [DesktopNext]_desktopVars => /\ [CropsNext]_cropVars /\ [ResearchNext]_researchVars
                                   /\ [VaultNext]_vaultVars /\ [SetupNext]_setupVars
                                   /\ [ModelsNext]_modelsVars /\ [ReviewNext]_reviewVars
                                   /\ [NotesNext]_notesVars
  BY StepOfAPart DEF PartSteps
<1> QED
  BY <1>1, <1>2, PTL DEF DesktopSpec, CropsSpec, ResearchSpec, VaultSpec, SetupSpec, ModelsSpec,
     ReviewSpec

\* Every part of the desktop is well typed in every reachable state of it, for all values of
\* its constants (Notes, Crops, Research, Vault, Setup, Models, Review).
THEOREM DesktopTypeCorrect == DesktopSpec => []DesktopTypeOK
<1>1. DesktopInit => part \in Parts
  BY DEF DesktopInit
<1>2. part \in Parts /\ [DesktopNext]_desktopVars => (part \in Parts)'
  BY DEF DesktopNext, desktopVars, NotesPart, CropsPart, ResearchPart, VaultPart, SetupPart,
         ModelsPart, ReviewPart
<1>3. DesktopSpec => [](part \in Parts)
  BY <1>1, <1>2, PTL DEF DesktopSpec
<1>4. NotesInit /\ [][NotesNext]_notesVars => []NotesInv
  BY NotesStart, NotesSteps, PTL
<1>5. CropsSpec => []CropsTypeOK
  BY CropsInvHolds, PTL DEF CropsInv
<1>6. /\ part \in Parts /\ NotesInv /\ CropsTypeOK /\ ResearchTypeOK /\ VaultTypeOK
      /\ SetupTypeOK /\ ModelsTypeOK /\ ReviewTypeOK
      => DesktopTypeOK
  BY DEF DesktopTypeOK, NotesInv
<1> QED
  BY <1>3, <1>4, <1>5, <1>6, PartsBehave, ResearchTypeCorrect, VaultTypeCorrect,
     SetupTypeCorrect, ModelsTypeCorrect, ReviewTypeCorrect, PTL
=============================================================================
