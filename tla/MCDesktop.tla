------------------------------ MODULE MCDesktop ------------------------------
(***************************************************************************)
(* The parts of the desktop that share no state with each other, checked   *)
(* in one run: part says which of them moves.  An interleaving of them     *)
(* would reach every combination of their states and no other state of any *)
(* part, and every property is about one part.                             *)
(***************************************************************************)
EXTENDS Notes, Crops, Research, Vault, Setup, Models, Review, TLC

CONSTANTS
    Parts,      \* the parts that this run is about
    t1, t2, t3, \* terms
    m1, m2,     \* models
    l1, l2      \* lectures

VARIABLE part

desktopVars == <<part, notesVars, cropVars, researchVars, vaultVars, setupVars, modelsVars,
                 reviewVars>>

DesktopInit ==
    /\ part \in Parts
    /\ NotesInit /\ CropsInit /\ ResearchInit /\ VaultInit /\ SetupInit /\ ModelsInit /\ ReviewInit
    \* The initial states of the parts at rest are one each.
    /\ part # "notes" => allowed = "off"
    /\ part # "research" => settings = CHOOSE s \in Settings : TRUE
    /\ part # "setup" => accounts = {}
    /\ part # "models" => ~running /\ name = [w \in Wizard |-> m1] /\ context = [w \in Wizard |-> 2]

NotesPart ==
    /\ NotesNext
    /\ UNCHANGED <<part, cropVars, researchVars, vaultVars, setupVars, modelsVars, reviewVars>>

CropsPart ==
    /\ CropsNext
    /\ UNCHANGED <<part, notesVars, researchVars, vaultVars, setupVars, modelsVars, reviewVars>>

ResearchPart ==
    /\ ResearchNext
    /\ UNCHANGED <<part, notesVars, cropVars, vaultVars, setupVars, modelsVars, reviewVars>>

VaultPart ==
    /\ VaultNext
    /\ UNCHANGED <<part, notesVars, cropVars, researchVars, setupVars, modelsVars, reviewVars>>

SetupPart ==
    /\ SetupNext
    /\ UNCHANGED <<part, notesVars, cropVars, researchVars, vaultVars, modelsVars, reviewVars>>

ModelsPart ==
    /\ ModelsNext
    /\ UNCHANGED <<part, notesVars, cropVars, researchVars, vaultVars, setupVars, reviewVars>>

\* review: three photographs, and one approval at a time.
\* overlap: approvals that overlap, of one photograph.
ReviewPart ==
    /\ ReviewNext
    /\ IF part = "review"
       THEN Cardinality({h \in Handler : approving'[h] # {}}) <= 1
       ELSE held' \subseteq {1}
    /\ UNCHANGED <<part, notesVars, cropVars, researchVars, vaultVars, setupVars, modelsVars>>

DesktopNext ==
    \/ part = "notes" /\ NotesPart
    \/ part = "crops" /\ CropsPart
    \/ part = "research" /\ ResearchPart
    \/ part = "vault" /\ VaultPart
    \/ part = "setup" /\ SetupPart
    \/ part = "models" /\ ModelsPart
    \/ part \in {"review", "overlap"} /\ ReviewPart

\* The fairness of NotesSpec; the other parts have none.
Collecting == part = "notes" /\ CollectStep /\ NotesPart

DesktopSpec == DesktopInit /\ [][DesktopNext]_desktopVars /\ WF_desktopVars(Collecting)

\* Each part is well typed where it moves.
DesktopTypeOK ==
    /\ part \in Parts
    /\ part = "notes" => NotesTypeOK
    /\ part = "crops" => CropsTypeOK
    /\ part = "research" => ResearchTypeOK
    /\ part = "vault" => VaultTypeOK
    /\ part = "setup" => SetupTypeOK
    /\ part = "models" => ModelsTypeOK
    /\ part \in {"review", "overlap"} => ReviewTypeOK
-----------------------------------------------------------------------------
\* t1 is on both pages and underlined on the second; t3 is too general.
MCWritten == [p \in Page |-> IF p = 1 THEN {t1} ELSE {t1, t2, t3}]
MCBold == [p \in Page |-> IF p = 1 THEN {} ELSE {t1}]

AtPercent(x, y, w, h) == [x |-> x, y |-> y, w |-> w, h |-> h]

\* Boxes that touch, overlap by little, by about half, by most, or run off the page; and
\* some that are too flat, too narrow, too small, or the page itself.
MCBox == {AtPercent(10, 10, 60, 20), AtPercent(10, 30, 60, 25), AtPercent(10, 20, 80, 41),
          AtPercent(0, 33, 90, 17), AtPercent(5, 80, 70, 30), AtPercent(5, 97, 95, 10),
          AtPercent(0, 0, 90, 9), AtPercent(1, 1, 98, 98), AtPercent(20, 50, 3, 80),
          AtPercent(10, 60, 80, 11)}

\* A SearXNG server on this machine, or elsewhere with and without TLS.
MCSettings == {s \in Setting :
    /\ s.enabled
    /\ s.provider = "searxng"
    /\ ~s.cx
    /\ s.host \in {"local", "https", "http"}
    /\ s.secrets \in {{}, {"searxngToken"}}}

\* A page fits into the smaller context with one model, and into the larger with both.
MCTokens == m1 :> 1 @@ m2 :> 3

\* Two pages of one lecture, and one of another.
MCTakenIn == [p \in Photo |-> IF p = 3 THEN l2 ELSE l1]

\* The page of the other lecture has been reviewed once.
MCEarlier == <<[photo |-> 3, verdict |-> "good"]>>
=============================================================================
