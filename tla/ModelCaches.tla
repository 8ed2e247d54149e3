----------------------------- MODULE ModelCaches -----------------------------
(***************************************************************************)
(* What the service keeps in memory of Relay and of the key table: the     *)
(* loaded models, the queue priorities of Relay and of the Provider jobs,  *)
(* the execution times, and the public catalog two tickers rebuild         *)
(* (src/service/loaded_models_cache.go, models_catalog_cache.go,           *)
(* queued_priority_cache.go, provider_queue_priority.go,                   *)
(* execution_time_cache.go, provider_catalog.go, src/tasks/).              *)
(*                                                                         *)
(* A step is what happens under one lock, or one query of the database or  *)
(* of Relay.  keyChanges[p] counts the changes of whether p has an enabled *)
(* key: it has one when the count is odd, and the count is the version of  *)
(* what a query of the key table sees.                                     *)
(***************************************************************************)
EXTENDS Pricing

CONSTANTS
  RelayListings,    \* the lists of loaded models Relay may return
  QueueListings,    \* the priority snapshots Relay may return
  ProviderQueues,   \* the sets of priorities of Provider jobs that may be queued
  TimeListings,     \* the execution-time coefficients Relay may return
  MinOnDisk,        \* llm.min_catalog_on_disk_node_count
  DefaultVram,      \* llm.default_vram_limit
  CacheTTL,         \* llm.execution_time_cache_ttl
  MaxRefreshes,     \* bound: refreshes of each ticker
  MaxKeyChanges,    \* bound: changes of each provider's keys
  MaxClock          \* bound: the time

Tickers == {"loaded", "catalog"}
NoQueue == [count |-> 0, highest |-> -1, median |-> -1, lowest |-> -1]
NoTick == [at |-> "idle", listing |-> {}, seen |-> <<>>, chat |-> {}, image |-> {}]

\* A snapshot has -1 for nil. Negative coefficients are refused (validateExecutionTimeCoefficients).
Snapshots == [count : Nat, highest : Int, median : Int, lowest : Int]
ExecutionTimes == [constant : Nat, input : Nat, output : Nat, overhead : Nat, step : Nat]

ASSUME CachesAssumption ==
  /\ \A listing \in RelayListings :
       /\ IsFiniteSet(listing)
       /\ \A r \in listing : r.type \in {"llm", "sd"} /\ r.vram \in Nat /\ r.onDisk \in Int /\ r.order \in Nat
       /\ \A r, s \in listing : r.order = s.order => r = s
  /\ QueueListings \subseteq Snapshots /\ TimeListings \subseteq ExecutionTimes
  /\ \A priorities \in ProviderQueues : priorities \subseteq Nat /\ IsFiniteSet(priorities)
  /\ {MinOnDisk, DefaultVram, CacheTTL} \subseteq Nat \ {0}

VARIABLES
  llmModels,      \* llmModelsCache.models
  sdModels,       \* sdModelsCache.models
  tick,           \* tick[t]: how far ticker t is in its refresh
  left,           \* left[t]: what is left of MaxRefreshes
  catalog,        \* modelsCatalogCache: the Crynux rows, and the key versions its Provider rows were read at
  keyChanges,     \* changes of the shared_api_keys rows
  queue,          \* priorityCache.snapshot
  lastMedian,     \* priorityCache.lastNonEmptyMedian, -1 for nil
  providerQueue,  \* providerQueuePrioritySnapshot
  times,          \* the execution-time entries, by query
  clock

tickVars == <<tick, left, catalog>>
queueVars == <<queue, lastMedian, providerQueue>>
cacheVars == <<llmModels, sdModels, tick, left, catalog, keyChanges, queue, lastMedian, providerQueue, times, clock>>

-----------------------------------------------------------------------------
(* Loaded models. A row has a type, a model, dtype, quantization, the      *)
(* components and lora of images, min_vram, its on-disk nodes, the         *)
(* identity its cache configuration gives, and its place in the order of   *)
(* ties.                                                                   *)

\* LookupProviderModel over the configured routes
IsProviderModel(model) == \E r \in Routes : r.name = model
RouteOf(model) == CHOOSE r \in Routes : r.name = model

\* newLoadedModel: the cache configuration of the row is of its kind, its model and its quantization.
IsConsistent(r) ==
  /\ r.model # "" /\ r.dtype # ""
  /\ r.config = [kind |-> IF r.type = "sd" THEN "image" ELSE "llm", model |-> r.model, quant |-> r.quant]

\* RefreshLoadedModels: inconsistent rows and names that Provider models reserve are skipped.
Kept(listing, type) == {r \in listing : r.type = type /\ IsConsistent(r) /\ ~IsProviderModel(r.model)}

\* catalogVisible, filterCatalogModels; ListLoadedLLMModels and ListLoadedSDModels return these
Visible(rows) == {r \in rows : r.onDisk >= MinOnDisk}

\* betterMaxMinVRAM, with the rest of its comparisons in the order of ties
Better(r, s) == r.vram > s.vram \/ (r.vram = s.vram /\ r.order < s.order)

\* pickBest over the rows a request matches
Best(rows) == CHOOSE r \in rows : \A s \in rows \ {r} : Better(r, s)

\* lookupExactOrMax, GetLoadedLLMModel, GetLoadedLLMModelExact: "" is a field the client left out
MatchingLLM(model, dtype, quant) ==
  {r \in llmModels : r.model = model /\ (dtype # "" => r.dtype = dtype) /\ (quant # "" => r.quant = quant)}

\* ResolveLLMModelExecution: what the client gives, else the best matching row, else the defaults.
ResolveLLMExecution(model, dtype, quant) ==
  LET rows == MatchingLLM(model, dtype, quant)
      default == IF model = "qwen" THEN "bfloat16" ELSE "auto"
  IN IF rows # {} THEN [dtype |-> Best(rows).dtype, quant |-> Best(rows).quant]
     ELSE [dtype |-> IF dtype # "" THEN dtype ELSE default, quant |-> IF quant # "" THEN quant ELSE "null"]

\* ResolveEffectiveVram: the limit the client gave (-1 when it gave none), else min_vram of the best row of the model, else the default.
EffectiveVram(model, vram) ==
  LET rows == MatchingLLM(model, "", "")
  IN IF vram # -1 THEN vram ELSE IF rows # {} THEN Best(rows).vram ELSE DefaultVram

ConcreteDTypes == {"float16", "bfloat16", "float32"}

\* newImageRequestIdentity and matches: in exact mode left-out fields take the defaults of the task
\* arguments, else they match any row; lora is always compared.
MatchingSD(r, exact) ==
  LET field(given, value, default) == value = (IF given # "" THEN given ELSE default)
  IN {s \in sdModels :
        /\ s.model = r.model /\ s.lora = r.lora
        /\ exact => s.dtype = r.dtype
        /\ exact \/ r.quant # "" => field(r.quant, s.quant, "null")
        /\ exact \/ r.components # "" => field(r.components, s.components, "none")}

\* ResolveImageModelExecution: a concrete dtype is kept, hit or not; otherwise one row decides.
\* The result is unresolved without such a row, or when its own dtype is not concrete.
ResolveImageExecution(r) ==
  LET exact == r.dtype \in ConcreteDTypes
      rows == MatchingSD(r, exact)
      vram == IF rows # {} /\ Best(rows).vram > 0 THEN Best(rows).vram ELSE DefaultVram
      given(value, default) == IF value # "" THEN value ELSE default
  IN IF exact THEN [ok |-> TRUE, dtype |-> r.dtype, quant |-> given(r.quant, "null"), vram |-> vram]
     ELSE IF rows = {} \/ r.dtype \notin {"", "auto"} THEN [ok |-> FALSE]
     ELSE IF Best(rows).dtype \notin ConcreteDTypes THEN [ok |-> FALSE]
     ELSE [ok |-> TRUE, dtype |-> Best(rows).dtype, quant |-> given(r.quant, Best(rows).quant), vram |-> vram]

-----------------------------------------------------------------------------
(* The two tickers: loaded models every interval, with the catalog behind  *)
(* it, and the catalog on its own interval.                                *)

Step(t, at) == tick' = [tick EXCEPT ![t].at = at]

\* The tick of StartLoadedModelsRefresh: the answer of Relay; a failed call ends the tick and changes nothing.
FetchLoadedModels ==
  /\ tick["loaded"].at = "idle" /\ left["loaded"] > 0
  /\ \E listing \in RelayListings :
       tick' = [tick EXCEPT !["loaded"] = [NoTick EXCEPT !.at = "fetched", !.listing = listing]]
  /\ left' = [left EXCEPT !["loaded"] = @ - 1]
  /\ UNCHANGED <<llmModels, sdModels, catalog, keyChanges, queueVars, times, clock>>

\* The two snapshots are replaced one after the other, under two locks.
ReplaceLLMModels ==
  /\ tick["loaded"].at = "fetched"
  /\ llmModels' = Kept(tick["loaded"].listing, "llm")
  /\ Step("loaded", "half")
  /\ UNCHANGED <<sdModels, left, catalog, keyChanges, queueVars, times, clock>>

ReplaceSDModels ==
  /\ tick["loaded"].at = "half"
  /\ sdModels' = Kept(tick["loaded"].listing, "sd")
  /\ Step("loaded", "lock")
  /\ UNCHANGED <<llmModels, left, catalog, keyChanges, queueVars, times, clock>>

\* The tick of StartModelsCatalogRefresh.
CatalogTick ==
  /\ tick["catalog"].at = "idle" /\ left["catalog"] > 0
  /\ Step("catalog", "lock")
  /\ left' = [left EXCEPT !["catalog"] = @ - 1]
  /\ UNCHANGED <<llmModels, sdModels, catalog, keyChanges, queueVars, times, clock>>

InRefresh == {"query", "chat", "image", "write"}

\* Mutant of RefreshMuIsFree: the mutex is not taken.
NoMutex(t) == TRUE
\* modelsCatalogCache.refreshMu
RefreshMuIsFree(t) == \A s \in Tickers : tick[s].at \notin InRefresh

\* RefreshModelsCatalog takes the mutex.
BeginCatalogRefresh(t) ==
  /\ tick[t].at = "lock" /\ RefreshMuIsFree(t)
  /\ tick' = [tick EXCEPT ![t] = [NoTick EXCEPT !.at = "query"]]
  /\ UNCHANGED <<llmModels, sdModels, left, catalog, keyChanges, queueVars, times, clock>>

CatalogProviders == {r.provider : r \in Routes}

\* ListVisibleProviderModels: one query for each provider of the routes.
QueryEnabledKeys(t, p) ==
  /\ tick[t].at = "query" /\ p \notin DOMAIN tick[t].seen
  /\ tick' = [tick EXCEPT ![t].seen = [q \in DOMAIN @ \cup {p} |-> IF q = p THEN keyChanges[p] ELSE @[q]]]
  /\ UNCHANGED <<llmModels, sdModels, left, catalog, keyChanges, queueVars, times, clock>>

\* One of the queries fails: the Provider rows of the snapshot there is are used again.
QueryFails(t) ==
  /\ tick[t].at = "query"
  /\ tick' = [tick EXCEPT ![t].seen = catalog.seen, ![t].at = "chat"]
  /\ UNCHANGED <<llmModels, sdModels, left, catalog, keyChanges, queueVars, times, clock>>

ListChat(t) ==
  /\ tick[t].at = "chat" \/ (tick[t].at = "query" /\ DOMAIN tick[t].seen = CatalogProviders)
  /\ tick' = [tick EXCEPT ![t].chat = Visible(llmModels), ![t].at = "image"]
  /\ UNCHANGED <<llmModels, sdModels, left, catalog, keyChanges, queueVars, times, clock>>

ListImages(t) ==
  /\ tick[t].at = "image"
  /\ tick' = [tick EXCEPT ![t].image = Visible(sdModels), ![t].at = "write"]
  /\ UNCHANGED <<llmModels, sdModels, left, catalog, keyChanges, queueVars, times, clock>>

\* The snapshot is replaced and the mutex released; the tick is over.
WriteCatalog(t) ==
  /\ tick[t].at = "write"
  /\ catalog' = [seen |-> tick[t].seen, chat |-> tick[t].chat, image |-> tick[t].image]
  /\ tick' = [tick EXCEPT ![t] = NoTick]
  /\ UNCHANGED <<llmModels, sdModels, left, keyChanges, queueVars, times, clock>>

\* The handlers of shared keys: a provider gets its first enabled key, or loses its last.
ChangeKeys(p) ==
  /\ keyChanges[p] < MaxKeyChanges
  /\ keyChanges' = [keyChanges EXCEPT ![p] = @ + 1]
  /\ UNCHANGED <<llmModels, sdModels, tickVars, queueVars, times, clock>>

-----------------------------------------------------------------------------
(* Queue priorities and execution times. *)

\* RefreshQueuedPriority; a failed call keeps the snapshot.
RefreshQueuedPriority ==
  /\ left["queue"] > 0
  /\ \E s \in QueueListings :
       /\ queue' = s
       /\ lastMedian' = IF s.median # -1 /\ s.count > 0 THEN s.median ELSE lastMedian
  /\ left' = [left EXCEPT !["queue"] = @ - 1]
  /\ UNCHANGED <<llmModels, sdModels, tick, catalog, keyChanges, providerQueue, times, clock>>

\* ResolveMedianPriorityGwei and ResolveQueueMedianHint
QueueMedianHint ==
  IF queue.median # -1 /\ queue.count > 0 THEN queue.median
  ELSE IF lastMedian # -1 THEN lastMedian ELSE EmptyQueueMedian

\* InitialProjectPriorityGwei, the Cost Level of a new project
InitialProjectPriority == NormalizeStaticPriority(ClampPriority(QueueMedianHint))

\* RefreshProviderQueuePrioritySnapshot: the lowest and the highest are two queries, with jobs coming
\* and going between them; when none is left for the second, its error keeps the old snapshot.
RefreshProviderQueue ==
  /\ left["providers"] > 0
  /\ \E first, second \in ProviderQueues :
       providerQueue' =
         IF first = {} THEN NoQueue
         ELSE IF second = {} THEN providerQueue
         ELSE [NoQueue EXCEPT !.count = 1, !.lowest = Min(first), !.highest = Max(second)]
  /\ left' = [left EXCEPT !["providers"] = @ - 1]
  /\ UNCHANGED <<llmModels, sdModels, tick, catalog, keyChanges, queue, lastMedian, times, clock>>

\* ProviderQueueBoundsForUI: a snapshot whose two queries crossed is not shown.
ProviderQueueIsShown == providerQueue.count > 0 /\ providerQueue.highest >= providerQueue.lowest

\* ResolveProviderEffectivePriority with ResolveAutoPriorityFromBounds: a highest of zero is a bound here.
ProviderEffectivePriority(project) ==
  LET position == IF project.position = -1 THEN 50 ELSE project.position
  IN IF project.mode = "static" THEN Accepted(project.priority)
     ELSE IF ~ProviderQueueIsShown THEN Accepted(MinPriority)
     ELSE IF project.maxCredits = 0 THEN Rejected("auto_max_credits_required")
     ELSE Accepted(ClampPriority(providerQueue.lowest
                     + ((providerQueue.highest - providerQueue.lowest) * position) \div 100))

\* GetLLMExecutionTimeForQuery and GetSDExecutionTime: the entries that are still valid
IsCached(query) == query \in DOMAIN times /\ clock < times[query].until

\* A fetched entry lives for the TTL.
CacheTime(query, time) ==
  times' = [q \in DOMAIN times \cup {query} |->
              IF q = query THEN [time |-> time, until |-> clock + CacheTTL] ELSE times[q]]

TimePasses ==
  /\ clock < MaxClock
  /\ clock' = clock + 1
  /\ UNCHANGED <<llmModels, sdModels, tickVars, keyChanges, queueVars, times>>

-----------------------------------------------------------------------------
(* The start: main.go's first refreshes may all have failed. *)

CacheInit ==
  /\ llmModels = {} /\ sdModels = {}
  /\ tick = [t \in Tickers |-> NoTick]
  /\ left = [t \in Tickers \cup {"queue", "providers"} |-> MaxRefreshes]
  /\ catalog = [seen |-> [p \in CatalogProviders |-> 0], chat |-> {}, image |-> {}]
  /\ keyChanges = [p \in CatalogProviders |-> 0]
  /\ queue = NoQueue /\ lastMedian = -1 /\ providerQueue = NoQueue
  /\ times = <<>> /\ clock = 0

CatalogNext ==
  \/ CatalogTick
  \/ \E t \in Tickers :
       \/ BeginCatalogRefresh(t) \/ QueryFails(t) \/ ListChat(t) \/ ListImages(t) \/ WriteCatalog(t)
       \/ \E p \in CatalogProviders : QueryEnabledKeys(t, p)
  \/ \E p \in CatalogProviders : ChangeKeys(p)

LoadNext == FetchLoadedModels \/ ReplaceLLMModels \/ ReplaceSDModels

HintNext == RefreshQueuedPriority \/ RefreshProviderQueue

-----------------------------------------------------------------------------
(* Properties. *)

\* The comment of RefreshModelsCatalog: a refresh never replaces Provider rows by rows of an
\* earlier query, however the two tickers, failed queries and changes of keys interleave.
CatalogNeverRegresses ==
  [][\A p \in CatalogProviders : catalog'.seen[p] >= catalog.seen[p]]_catalog
=============================================================================
