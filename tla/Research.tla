------------------------------ MODULE Research ------------------------------
(***************************************************************************)
(* Checking explanations against a web search: the settings that allow it  *)
(* (desktop service research.ts, agent search.ts providerFromConfig), the  *)
(* lookup of one term, and the file that keeps its cache and its daily     *)
(* budget.                                                                 *)
(*                                                                         *)
(* A lookup reads the budget, awaits the provider, and then spends and     *)
(* remembers by reading and writing the file again: midnight, a crash or   *)
(* the loss of the file may fall in between.  Time goes by in whole days.  *)
(*                                                                         *)
(* Left out: the query text (a term long or short enough is a query), the  *)
(* snippets, and the course, which is part of the key and never changes    *)
(* during a run.                                                           *)
(***************************************************************************)
EXTENDS Places

CONSTANTS
    Query,         \* the terms that are looked up
    NoQuery,
    TooLong,      \* the terms buildQuery refuses: too long, or of several lines
    Settings,      \* the settings and secrets the user may choose
    Limit,         \* research.maxQueriesPerDay
    MaxAge,        \* research.cacheMaxAgeDays; 0 is never
    MaxEntries,    \* MAX_ENTRIES of the cache
    MaxDay         \* bound of the model: the last day

Hosts == {"none", "local", "https", "http", "notAUrl"}

\* research of the config, and which secrets are saved beside it.
Setting == [enabled : BOOLEAN, provider : {"google", "searxng"}, host : Hosts, cx : BOOLEAN,
            secrets : SUBSET {"searchApiKey", "searxngToken"}]

ASSUME ResearchAssumption ==
    /\ NoQuery \notin Query
    /\ TooLong \subseteq Query
    /\ Settings \subseteq Setting
    /\ {Limit, MaxAge} \subseteq Nat
    /\ {MaxEntries, MaxDay} \subseteq Nat \ {0}

VARIABLES
    day,         \* the date
    settings,    \* config.json and secrets.json
    polled,      \* how the last GET /api/status ended
    lookups,     \* a refresh that looks terms up: built from the settings at its start
    asking,      \* the term whose query is with the provider
    askedOn,     \* the day that query was sent
    usedOn,      \* day of research.json
    used,        \* used of research.json
    entries,     \* entries of research.json, newest first
    charged      \* history: the queries of each day that count, since the file was last lost

researchFile == <<usedOn, used, entries>>
researchVars == <<day, settings, polled, lookups, asking, askedOn, researchFile, charged>>

Days == 0 .. MaxDay

\* The inductive part of a cache: each term once, and no more than fit.
Entries == {e \in Seq([term : Query, at : Days]) :
    Len(e) <= MaxEntries /\ \A i, j \in 1 .. Len(e) : e[i].term = e[j].term => i = j}

ResearchTypeOK ==
    /\ day \in Days
    /\ settings \in Setting
    /\ polled \in {"unknown", "answered", "failed"}
    /\ lookups \in {"idle", "ready", "failed"}
    /\ asking \in Query \cup {NoQuery}
    /\ askedOn \in Days
    /\ usedOn \in Days
    /\ used \in Nat
    /\ entries \in Entries
    /\ charged \in [Days -> Nat]

\* No file yet; day is the empty string, a date that is never today.
ResearchInit ==
    /\ day = 1
    /\ settings \in Settings
    /\ polled = "unknown"
    /\ lookups = "idle"
    /\ asking = NoQuery
    /\ askedOn = 0
    /\ usedOn = 0
    /\ used = 0
    /\ entries = <<>>
    /\ charged = [d \in Days |-> 0]
-----------------------------------------------------------------------------
(* The settings *)

\* What researchBlocker finds missing, or nothing.
ResearchBlocked(s) ==
    \/ ~s.enabled
    \/ s.provider = "google" /\ (~s.cx \/ "searchApiKey" \notin s.secrets)
    \/ s.provider = "searxng" /\ s.host = "none"
    \/ s.provider = "searxng" /\ s.host # "local" /\ "searxngToken" \notin s.secrets

\* Settings that providerFromConfig throws at.
NotConfigured(s) ==
    \/ s.provider = "google" /\ (~s.cx \/ "searchApiKey" \notin s.secrets)
    \/ s.provider = "searxng" /\ s.host \in {"none", "notAUrl", "http"}

\* buildResearch: null when research is blocked, and otherwise it builds the provider.
BuildThrows(s) == ~ResearchBlocked(s) /\ NotConfigured(s)

\* PUT /api/config, POST /api/research/key, or secrets.json by hand.
ChangeSettings ==
    /\ lookups = "idle"
    /\ settings' \in Settings \ {settings}
    /\ polled' = "unknown"
    /\ UNCHANGED <<day, lookups, asking, askedOn, researchFile, charged>>

\* GET /api/status builds the research it counts the remaining queries of.
PollStatus ==
    /\ polled = "unknown"
    /\ polled' = IF BuildThrows(settings) THEN "failed" ELSE "answered"
    /\ UNCHANGED <<day, settings, lookups, asking, askedOn, researchFile, charged>>

\* A refresh builds the lookup before it asks the server for pages.  Without research it
\* has nothing to do here.
StartRefresh ==
    /\ lookups # "ready"
    /\ ~ResearchBlocked(settings)
    /\ lookups' = IF BuildThrows(settings) THEN "failed" ELSE "ready"
    /\ UNCHANGED <<day, settings, polled, asking, askedOn, researchFile, charged>>

FinishRefresh ==
    /\ lookups = "failed" \/ (lookups = "ready" /\ asking = NoQuery)
    /\ lookups' = "idle"
    /\ UNCHANGED <<day, settings, polled, asking, askedOn, researchFile, charged>>
-----------------------------------------------------------------------------
(* lookup *)

\* budget.remaining(): a file of another day has nothing used.
Remaining(d) == Limit - (IF usedOn = d THEN used ELSE 0)

Affords(d) == Remaining(d) > 0

Fresh(t) == \E i \in 1 .. Len(entries) :
    entries[i].term = t /\ (MaxAge = 0 \/ day - entries[i].at < MaxAge)

\* buildQuery makes a query of it.
IsQuery(t) == t \notin TooLong

\* The cache has no answer, the term is a query, and the budget allows it.
Ask(t) ==
    /\ lookups = "ready"
    /\ asking = NoQuery
    /\ ~Fresh(t)
    /\ IsQuery(t)
    /\ Affords(day)
    /\ asking' = t
    /\ askedOn' = day
    /\ UNCHANGED <<day, settings, polled, lookups, researchFile, charged>>

\* budget.spend().
Spend ==
    /\ usedOn' = day
    /\ used' = IF usedOn = day THEN used + 1 ELSE 1

\* The entries of other terms, in their order.
OtherEntries(t) == Those({i \in 1 .. Len(entries) : entries[i].term # t}, entries)

\* mutant: the oldest entries are not dropped
RememberAll(t) == entries' = <<[term |-> t, at |-> day]>> \o OtherEntries(t)

\* cache.set() after spend(): the file is read again, and write drops the oldest entries.
Remember(t) ==
    LET all == <<[term |-> t, at |-> day]>> \o OtherEntries(t)
    IN  entries' = SubSeq(all, 1, IF Len(all) < MaxEntries THEN Len(all) ELSE MaxEntries)

Charge == charged' = [charged EXCEPT ![askedOn] = @ + 1]

\* mutant: the cache writes back the file as it was before the query was spent
AnsweredOverSpent ==
    /\ asking # NoQuery
    /\ Remember(asking)
    /\ Charge
    /\ asking' = NoQuery
    /\ UNCHANGED <<day, settings, polled, lookups, askedOn, usedOn, used>>

\* The provider answered.
Answered ==
    /\ asking # NoQuery
    /\ Spend
    /\ Remember(asking)
    /\ Charge
    /\ asking' = NoQuery
    /\ UNCHANGED <<day, settings, polled, lookups, askedOn>>

\* It refused because its quota is spent: that counts as a query too.
RateLimited ==
    /\ asking # NoQuery
    /\ Spend
    /\ Charge
    /\ asking' = NoQuery
    /\ UNCHANGED <<day, settings, polled, lookups, askedOn, entries>>

\* It could not be reached, or its answer was of no use: nothing is spent.
LookupFailed ==
    /\ asking # NoQuery
    /\ asking' = NoQuery
    /\ UNCHANGED <<day, settings, polled, lookups, askedOn, researchFile, charged>>
-----------------------------------------------------------------------------
NextDay ==
    /\ day < MaxDay
    /\ day' = day + 1
    /\ UNCHANGED <<settings, polled, lookups, asking, askedOn, researchFile, charged>>

\* The service is killed: the query it waits for is forgotten.
KillService ==
    /\ lookups # "idle" \/ polled # "unknown"
    /\ lookups' = "idle"
    /\ asking' = NoQuery
    /\ polled' = "unknown"
    /\ UNCHANGED <<day, settings, askedOn, researchFile, charged>>

\* research.json is deleted or cannot be read: read starts from an empty one.
LoseFile ==
    /\ entries # <<>> \/ used > 0
    /\ usedOn' = 0
    /\ used' = 0
    /\ entries' = <<>>
    /\ charged' = [d \in Days |-> 0]
    /\ UNCHANGED <<day, settings, polled, lookups, asking, askedOn>>

ResearchNext ==
    \/ ChangeSettings \/ PollStatus \/ StartRefresh \/ FinishRefresh
    \/ \E t \in Query : Ask(t)
    \/ Answered \/ RateLimited \/ LookupFailed
    \/ NextDay \/ KillService \/ LoseFile

ResearchSpec == ResearchInit /\ [][ResearchNext]_researchVars
-----------------------------------------------------------------------------
\* No more queries of a day count than the settings allow, though the budget is read
\* before the query and spent after it, perhaps on the next day, and the cache rewrites
\* the file it is kept in (research.ts:99-120, search.ts:396-407).
BudgetHolds == \A d \in Days : charged[d] <= Limit
============================================================================
