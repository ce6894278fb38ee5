-------------------------------- MODULE Setup --------------------------------
(***************************************************************************)
(* Setting the desktop up, or restoring it from a recovery phrase: the     *)
(* wizard of each window (ui Wizard.tsx, App.tsx) and the two handlers of  *)
(* the service behind it (api.ts, keystore.ts, config.ts).                 *)
(*                                                                         *)
(* A handler awaits git and then the server, and in between another        *)
(* window's handler runs, the server fails, the window is closed or        *)
(* reloaded, or the service is killed.  What it leaves behind are two      *)
(* files: keys.json, and config.json with the device it registered.        *)
(*                                                                         *)
(* A recovery phrase and the keys derived from it are one number, and a    *)
(* device is known by the keys it was registered with.  The three steps of *)
(* the wizard that only fill in the form are one.                          *)
(***************************************************************************)
EXTENDS Integers, FiniteSets

CONSTANTS
    Window,
    NoPhrase,
    MaxPhrases,     \* bound of the model: the phrases there are
    OldPhrases,     \* those the user has on paper from another computer
    MaxKills        \* bound of the model

Phrase == 1 .. MaxPhrases

ASSUME SetupAssumption ==
    /\ MaxPhrases \in Nat
    /\ NoPhrase \notin Phrase
    /\ OldPhrases \subseteq Phrase
    /\ MaxKills \in Nat

VARIABLES
    keys,       \* keys.json: the phrase its keys are of
    config,     \* config.json: the keys its device registered with
    accounts,   \* the keys that the server knows
    made,       \* the phrases that were ever generated
    paper,      \* the phrases the user has written down
    screen,     \* what each window shows
    step,       \* the step its wizard is at
    mode,       \* whether it sets up or restores
    phrase,     \* the phrase it was sent
    request,    \* its setup or restore: where the handler is
    typed,      \* the phrase it restores, or that was made for it
    heard,      \* whether a window still waits for the answer
    kills

files == <<keys, config>>
windows == <<screen, step, mode, phrase>>
requests == <<request, typed, heard>>
setupVars == <<files, accounts, made, paper, windows, requests, kills>>

SetupTypeOK ==
    /\ keys \in Phrase \cup {NoPhrase}
    /\ config \in Phrase \cup {NoPhrase}
    /\ accounts \subseteq made
    /\ made \subseteq Phrase
    /\ paper \subseteq made
    /\ screen \in [Window -> {"closed", "splash", "wizard", "dashboard"}]
    /\ step \in [Window -> {"start", "form", "model", "recovery", "pair"}]
    /\ mode \in [Window -> {"new", "restore"}]
    /\ phrase \in [Window -> Phrase \cup {NoPhrase}]
    /\ request \in [Window -> {"none", "checking", "registering"}]
    /\ typed \in [Window -> Phrase \cup {NoPhrase}]
    /\ heard \in [Window -> BOOLEAN]
    /\ kills \in Nat

\* On a new computer; another one may have registered the phrases on paper.
SetupInit ==
    /\ keys = NoPhrase
    /\ config = NoPhrase
    /\ accounts \in SUBSET OldPhrases
    /\ made = OldPhrases
    /\ paper = OldPhrases
    /\ screen = [w \in Window |-> "closed"]
    /\ step = [w \in Window |-> "start"]
    /\ mode = [w \in Window |-> "new"]
    /\ phrase = [w \in Window |-> NoPhrase]
    /\ request = [w \in Window |-> "none"]
    /\ typed = [w \in Window |-> NoPhrase]
    /\ heard = [w \in Window |-> FALSE]
    /\ kills = 0

\* state().configured
Configured == keys # NoPhrase /\ config # NoPhrase
-----------------------------------------------------------------------------
(* A window *)

OpenWindow(w) ==
    /\ screen[w] = "closed"
    /\ screen' = [screen EXCEPT ![w] = "splash"]
    /\ UNCHANGED <<files, accounts, made, paper, step, mode, phrase, requests, kills>>

\* mutant: the screen follows every status
DerivedScreen(w) == IF Configured THEN "dashboard" ELSE "wizard"

\* The wizard is decided on once, from the first status, though the status is polled.
PolledScreen(w) ==
    IF screen[w] # "splash" THEN screen[w] ELSE IF Configured THEN "dashboard" ELSE "wizard"

PollWindow(w) ==
    /\ screen[w] # "closed"
    /\ screen' = [screen EXCEPT ![w] = PolledScreen(w)]
    /\ UNCHANGED <<files, accounts, made, paper, step, mode, phrase, requests, kills>>

\* It is closed or reloaded, and what it showed is gone.  A handler does not notice.
CloseWindow(w) ==
    /\ screen[w] # "closed"
    /\ screen' = [screen EXCEPT ![w] = "closed"]
    /\ step' = [step EXCEPT ![w] = "start"]
    /\ mode' = [mode EXCEPT ![w] = "new"]
    /\ phrase' = [phrase EXCEPT ![w] = NoPhrase]
    /\ heard' = [heard EXCEPT ![w] = FALSE]
    /\ UNCHANGED <<files, accounts, made, paper, request, typed, kills>>

AtStep(w, s) == screen[w] = "wizard" /\ step[w] = s /\ ~heard[w]

ChooseMode(w, m) ==
    /\ AtStep(w, "start")
    /\ mode' = [mode EXCEPT ![w] = m]
    /\ step' = [step EXCEPT ![w] = "form"]
    /\ UNCHANGED <<files, accounts, made, paper, screen, phrase, requests, kills>>

\* next() and back(), among the steps before the submission.
Walk(w, from, to) ==
    /\ <<from, to>> \in {<<"form", "model">>, <<"model", "form">>, <<"form", "start">>}
    /\ AtStep(w, from)
    /\ step' = [step EXCEPT ![w] = to]
    /\ UNCHANGED <<files, accounts, made, paper, screen, mode, phrase, requests, kills>>

\* RecoveryStep goes on only when the user confirms that the phrase is written down.
ConfirmPhrase(w) ==
    /\ AtStep(w, "recovery")
    /\ phrase[w] # NoPhrase
    /\ paper' = paper \cup {phrase[w]}
    /\ step' = [step EXCEPT ![w] = "pair"]
    /\ UNCHANGED <<files, accounts, made, screen, mode, phrase, requests, kills>>

\* PairStep shows a code for the phone, and ends the wizard.
FinishWizard(w) ==
    /\ AtStep(w, "pair")
    /\ screen' = [screen EXCEPT ![w] = "dashboard"]
    /\ step' = [step EXCEPT ![w] = "start"]
    /\ mode' = [mode EXCEPT ![w] = "new"]
    /\ phrase' = [phrase EXCEPT ![w] = NoPhrase]
    /\ UNCHANGED <<files, accounts, made, paper, requests, kills>>
-----------------------------------------------------------------------------
(* POST /api/setup and /api/restore *)

\* The window submits, and the handler begins: it goes on if nothing is configured.
Submit(w) ==
    /\ AtStep(w, "model")
    /\ request[w] = "none"
    /\ ~Configured
    /\ \E p \in IF mode[w] = "restore" THEN paper ELSE {NoPhrase} :
          typed' = [typed EXCEPT ![w] = p]
    /\ request' = [request EXCEPT ![w] = "checking"]
    /\ heard' = [heard EXCEPT ![w] = TRUE]
    /\ UNCHANGED <<files, accounts, made, paper, windows, kills>>

\* The answer is an error, and the window stays at its step.
Fails(w) ==
    /\ request' = [request EXCEPT ![w] = "none"]
    /\ typed' = [typed EXCEPT ![w] = NoPhrase]
    /\ heard' = [heard EXCEPT ![w] = FALSE]

BadVault(w) ==
    /\ request[w] = "checking"
    /\ Fails(w)
    /\ UNCHANGED <<files, accounts, made, paper, windows, kills>>

\* mutant: keys that are there are written over
Overwrites(p) == keys' = p

\* mutant: keys that are there are kept, and the new ones used
Keeps(p) == keys' = IF keys = NoPhrase THEN p ELSE keys

\* createKeys and restoreKeys refuse when there are keys; the handler then fails.
Writes(p) == keys = NoPhrase /\ keys' = p

\* The vault is a git repository.  A new phrase is one that nobody has made before.
WriteKeys(w) ==
    /\ request[w] = "checking"
    /\ \E p \in IF typed[w] = NoPhrase THEN Phrase \ made ELSE {typed[w]} :
          /\ Writes(p)
          /\ made' = made \cup {p}
          /\ typed' = [typed EXCEPT ![w] = p]
    /\ request' = [request EXCEPT ![w] = "registering"]
    /\ UNCHANGED <<config, accounts, paper, windows, heard, kills>>

RefuseKeys(w) ==
    /\ request[w] = "checking"
    /\ keys # NoPhrase
    /\ Fails(w)
    /\ UNCHANGED <<files, accounts, made, paper, windows, kills>>

\* The server registers the device, and a lost answer is an error as well.  The keys stay.
RegisterFails(w, reached) ==
    /\ request[w] = "registering"
    /\ accounts' = IF reached THEN accounts \cup {typed[w]} ELSE accounts
    /\ Fails(w)
    /\ UNCHANGED <<files, made, paper, windows, kills>>

\* The device is registered, the configuration saved, and the window answered, if it is
\* still there: with the phrase to write down when it was made for it.
Register(w) ==
    /\ request[w] = "registering"
    /\ accounts' = accounts \cup {typed[w]}
    /\ config' = typed[w]
    /\ Fails(w)
    /\ IF heard[w]
       THEN /\ step' = [step EXCEPT ![w] = IF mode[w] = "restore" THEN "pair" ELSE "recovery"]
            /\ phrase' = [phrase EXCEPT ![w] = IF mode[w] = "restore" THEN NoPhrase ELSE typed[w]]
       ELSE UNCHANGED <<step, phrase>>
    /\ UNCHANGED <<keys, made, paper, screen, mode, kills>>
-----------------------------------------------------------------------------
KillSetup ==
    /\ kills < MaxKills
    /\ kills' = kills + 1
    /\ request' = [w \in Window |-> "none"]
    /\ typed' = [w \in Window |-> NoPhrase]
    /\ heard' = [w \in Window |-> FALSE]
    /\ UNCHANGED <<files, accounts, made, paper, windows>>

\* The user moves the keys aside, as the refusal to overwrite them asks for, or loses a
\* file; not in the seconds in which a handler is at work.
LoseFiles ==
    /\ \A w \in Window : request[w] = "none"
    /\ files # <<NoPhrase, NoPhrase>>
    /\ \/ keys' = NoPhrase /\ UNCHANGED config
       \/ config' = NoPhrase /\ UNCHANGED keys
    /\ UNCHANGED <<accounts, made, paper, windows, requests, kills>>

SetupNext ==
    \/ \E w \in Window :
          \/ OpenWindow(w) \/ PollWindow(w) \/ CloseWindow(w)
          \/ \E m \in {"new", "restore"} : ChooseMode(w, m)
          \/ \E from, to \in {"start", "form", "model"} : Walk(w, from, to)
          \/ ConfirmPhrase(w) \/ FinishWizard(w)
          \/ Submit(w) \/ BadVault(w) \/ WriteKeys(w) \/ RefuseKeys(w)
          \/ \E reached \in BOOLEAN : RegisterFails(w, reached)
          \/ Register(w)
    \/ KillSetup \/ LoseFiles

SetupSpec == SetupInit /\ [][SetupNext]_setupVars
-----------------------------------------------------------------------------
\* Keys are never replaced by others: pages sealed for them would be unreadable for ever.
\* Only the user takes them away, whatever two windows, a retry after a failed registration
\* or a restart do (keystore.ts:50-54, 71-75).
KeysNeverReplaced == [][keys' \in {keys, NoPhrase} \/ keys = NoPhrase]_setupVars

\* A setup or restore that saves its configuration names a device that is registered with
\* the keys on disk, though it awaited git and the server since it looked for them
\* (api.ts:257-285, 336-365).
ConfigNamesTheKeys == [][config' \notin {config, NoPhrase} => config' = keys' /\ config' \in accounts']_setupVars

\* A phrase that is shown stays on the screen until it is written down, or the window is
\* closed: no poll of the status takes the wizard away (App.tsx:9-15, Wizard.tsx:7-8).
PhraseStaysShown == \A w \in Window :
    phrase[w] \notin paper \cup {NoPhrase} => screen[w] = "wizard" /\ step[w] = "recovery"
=============================================================================
