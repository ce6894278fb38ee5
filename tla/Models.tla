-------------------------------- MODULE Models -------------------------------
(***************************************************************************)
(* The wizard's model step: is Ollama there, has it the model, and does a  *)
(* page fit into its context (desktop service ollama.ts and the ollama     *)
(* handlers of api.ts, ui Wizard.tsx ModelStep).                           *)
(*                                                                         *)
(* The service starts a download, answers at once, and records what the    *)
(* stream reports in one variable of its memory, which every wizard polls. *)
(* Ollama itself is external: it runs or not, and a stream may stall.      *)
(*                                                                         *)
(* Left out: versions, sizes and percentages, the advice on models.        *)
(***************************************************************************)
EXTENDS Integers, FiniteSets

CONSTANTS
    Wizard,         \* windows at their model step
    Model,
    Tokens,         \* Tokens[m]: what a prepared page costs with model m
    Contexts,       \* bound of the model: the context sizes that are tried
    Headroom        \* what probeContext adds to a cost, for the transcript

ASSUME ModelsAssumption ==
    /\ Tokens \in [Model -> Nat]
    /\ Contexts \subseteq Nat
    /\ Headroom \in Nat

Pull == [model : Model, status : {"starting", "working", "complete", "failed"}]
None == [status |-> "none"]
Idle == [status |-> "idle"]     \* what the service answers when it has no record

Done(p) == p.status \in {"complete", "failed"}

VARIABLES
    running,    \* Ollama answers
    models,     \* the models it has
    pull,       \* the service's record of the last download
    streams,    \* the downloads that are streamed to the service
    offered,    \* the list of models in the last status each wizard has: none if Ollama did not run
    name,       \* the model it would use
    context,    \* and the context
    shown,      \* the download it shows
    answer,     \* an answer on the way to it: a snapshot of pull
    probe       \* what it was told of the context

ollama == <<running, models>>
inService == <<pull, streams>>
inWizard == <<offered, name, context, shown, answer, probe>>
modelsVars == <<ollama, inService, inWizard>>

ModelsTypeOK ==
    /\ running \in BOOLEAN
    /\ models \subseteq Model
    /\ pull \in Pull \cup {None}
    /\ streams \subseteq Model
    /\ offered \in [Wizard -> SUBSET SUBSET Model]
    /\ name \in [Wizard -> Model]
    /\ context \in [Wizard -> Contexts]
    /\ shown \in [Wizard -> Pull \cup {Idle, None}]
    /\ answer \in [Wizard -> SUBSET (Pull \cup {Idle})]
    /\ \A w \in Wizard : Cardinality(answer[w]) <= 1
    /\ probe \in [Wizard -> {"none", "fits", "raise", "failed"}]

ModelsInit ==
    /\ running \in BOOLEAN
    /\ models = {}
    /\ pull = None
    /\ streams = {}
    /\ offered = [w \in Wizard |-> {}]
    /\ name \in [Wizard -> Model]
    /\ context \in [Wizard -> Contexts]
    /\ shown = [w \in Wizard |-> None]
    /\ answer = [w \in Wizard |-> {}]
    /\ probe = [w \in Wizard |-> "none"]

\* A wizard shows a download that still runs: its button is disabled, and it polls.  Being
\* told that the service is idle counts as such, because it is not done either.
Downloading(w) == shown[w] # None /\ ~Done(shown[w])
-----------------------------------------------------------------------------
(* The wizard *)

\* detect: a server that answers outranks a binary that is not found; without one there
\* is nothing to choose from.
Detected == IF running THEN {models} ELSE {}

\* Every few seconds, and at "Re-check".
CheckOllama(w) ==
    /\ offered' = [offered EXCEPT ![w] = Detected]
    /\ UNCHANGED <<ollama, inService, name, context, shown, answer, probe>>

ChooseModel(w, m, size) ==
    /\ offered[w] # {}
    /\ name' = [name EXCEPT ![w] = m]
    /\ context' = [context EXCEPT ![w] = size]
    /\ UNCHANGED <<ollama, inService, offered, shown, answer, probe>>

\* Back and forth: the form is kept, and the step begins anew.
ReenterStep(w) ==
    /\ shown[w] # None \/ probe[w] # "none"
    /\ offered' = [offered EXCEPT ![w] = {}]
    /\ shown' = [shown EXCEPT ![w] = None]
    /\ answer' = [answer EXCEPT ![w] = {}]
    /\ probe' = [probe EXCEPT ![w] = "none"]
    /\ UNCHANGED <<ollama, inService, name, context>>

\* mutant: a pull is started beside another
PullAnyway == TRUE

PullAllowed == pull = None \/ Done(pull)

\* POST /api/ollama/pull.  The button is there while the model is not.
StartPull(w) ==
    /\ \E list \in offered[w] : name[w] \notin list
    /\ ~Downloading(w)
    /\ PullAllowed
    /\ pull' = [model |-> name[w], status |-> "starting"]
    /\ streams' = streams \cup {name[w]}
    /\ shown' = [shown EXCEPT ![w] = pull']
    /\ UNCHANGED <<ollama, offered, name, context, answer, probe>>

\* GET /api/ollama/pull, and the answer, which comes when it comes.
PollPull(w) ==
    /\ Downloading(w)
    /\ answer[w] = {}
    /\ answer' = [answer EXCEPT ![w] = {IF pull = None THEN Idle ELSE pull}]
    /\ UNCHANGED <<ollama, inService, offered, name, context, shown, probe>>

ShowPull(w) ==
    /\ \E p \in answer[w] : shown' = [shown EXCEPT ![w] = p]
    /\ answer' = [answer EXCEPT ![w] = {}]
    /\ UNCHANGED <<ollama, inService, offered, name, context, probe>>

\* POST /api/ollama/probe: a page is sent to the model.  When it does not fit, the answer
\* names the cost, and the next context that has room for it.
ProbeContext(w) ==
    /\ \E list \in offered[w] : name[w] \in list
    /\ probe' = [probe EXCEPT ![w] =
           IF ~running \/ name[w] \notin models THEN "failed"
           ELSE IF Tokens[name[w]] <= context[w] THEN "fits" ELSE "raise"]
    /\ UNCHANGED <<ollama, inService, offered, name, context, shown, answer>>

TakeSuggestion(w) ==
    /\ probe[w] = "raise"
    /\ \E size \in Contexts :
          /\ size >= Tokens[name[w]] + Headroom
          /\ \A s \in Contexts : s >= Tokens[name[w]] + Headroom => size <= s
          /\ context' = [context EXCEPT ![w] = size]
    /\ UNCHANGED <<ollama, inService, offered, name, shown, answer, probe>>
-----------------------------------------------------------------------------
(* pullModel, and what the service makes of it *)

\* A line of the stream.
Progress(m) ==
    /\ m \in streams
    /\ pull' = [model |-> m, status |-> "working"]
    /\ UNCHANGED <<ollama, streams, inWizard>>

\* The stream ends, and the model is there; or it ended before it was.
PullEnds(m) ==
    /\ m \in streams
    /\ pull' = [model |-> m, status |-> "complete"]
    /\ streams' = streams \ {m}
    /\ models' \in {models, models \cup {m}}
    /\ UNCHANGED <<running, inWizard>>

\* Ollama is not there, refuses, or reports an error in a line.
PullBreaks(m) ==
    /\ m \in streams
    /\ pull' = [model |-> m, status |-> "failed"]
    /\ streams' = streams \ {m}
    /\ UNCHANGED <<ollama, inWizard>>

StartOrStopOllama ==
    /\ running' = ~running
    /\ UNCHANGED <<models, inService, inWizard>>

\* The service is killed, and forgets its downloads; the wizards stay.
KillPulls ==
    /\ pull' = None
    /\ streams' = {}
    /\ UNCHANGED <<ollama, inWizard>>

ModelsNext ==
    \/ \E w \in Wizard :
          \/ CheckOllama(w) \/ ReenterStep(w) \/ StartPull(w) \/ PollPull(w) \/ ShowPull(w)
          \/ ProbeContext(w) \/ TakeSuggestion(w)
          \/ \E m \in Model, size \in Contexts : ChooseModel(w, m, size)
    \/ \E m \in Model : Progress(m) \/ PullEnds(m) \/ PullBreaks(m)
    \/ StartOrStopOllama \/ KillPulls

ModelsSpec == ModelsInit /\ [][ModelsNext]_modelsVars
-----------------------------------------------------------------------------
\* The outcome of a download stays until another one is started: no late line of a stream
\* writes over it, which would block every later download (api.ts:409-431).
OutcomeStays == [][Done(pull) /\ pull # pull' => pull' = None \/ pull'.status = "starting"]_modelsVars
=============================================================================
