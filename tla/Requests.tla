------------------------------ MODULE Requests ------------------------------
(***************************************************************************)
(* A client's request from its authentication to its settlement: which     *)
(* rows of the caches decide its execution, vram and price, which project  *)
(* rules lower, raise or refuse it, and what it is charged (src/api/llm/,  *)
(* src/api/raw_task/handlers.go, src/service/task_fee.go).                 *)
(*                                                                         *)
(* request.todo lists the steps of its handler that are left.  Each takes  *)
(* one lock or makes one call, and between two of them the dashboard and   *)
(* the tickers go on: a request works on the project row it was            *)
(* authenticated with and on whatever each cache held at its own step.     *)
(***************************************************************************)
EXTENDS Projects, Answers

CONSTANTS
  Asks,         \* the requests clients may send
  MaxRequests   \* bound: requests, one after the other

\* The fields of a request that anything here depends on; a limit of vram is -1 when there is none.
RequestFields ==
  [api : {"chat", "completions", "responses", "images", "raw_llm", "raw_image"}, model : STRING, dtype : STRING,
   quant : STRING, components : STRING, lora : STRING, vram : Nat \cup {-1}, prompt : Nat, completion : Nat,
   image : [count : Nat, width : Nat, height : Nat, steps : Nat],
   tools : [declared : SUBSET STRING, choice : STRING, strict : BOOLEAN, json : BOOLEAN],
   timeoutValid : BOOLEAN, stream : BOOLEAN, includeUsage : BOOLEAN, key : Nat]

ASSUME RequestsAssumption == Asks \subseteq RequestFields

VARIABLES
  request,   \* the request that is being served
  served     \* requests so far

vars == <<cacheVars, projectVars, streamVars, request, served>>

NoRequest == [todo |-> <<>>, answer |-> "none"]
NoAnswer == [content |-> <<>>, finish |-> "", prompt |-> 0, completion |-> 0]

(* The handlers. *)

IsRaw(ask) == ask.api \in {"raw_llm", "raw_image"}
IsImage(ask) == ask.api \in {"images", "raw_image"}
IsProvider(ask) == ~IsRaw(ask) /\ IsProviderModel(ask.model)

\* handleTaskJobRequest and CreateResponse, which write what the worker formatted.
TextSteps == <<"execution", "vram", "model", "wish", "price", "create", "settle", "answer">>

\* ImagesGenerations and ImagesEdits: a limit of vram is parsed with the execution.
ImageSteps == <<"execution", "model", "wish", "price", "create", "settle">>

\* prepareTask; the result is downloaded later.
RawSteps == <<"execution", "model", "vram", "wish", "price", "create", "settle">>

\* handleProviderTaskJobRequest and handleProviderImagesCanonical
ProviderSteps(ask) == <<"wish", "create", IF ask.stream THEN "stream" ELSE "execute", "settle">>

StepsOf(ask) ==
  IF IsProvider(ask) THEN ProviderSteps(ask)
  ELSE CASE IsRaw(ask) -> RawSteps
         [] ask.api = "images" -> ImageSteps
         [] OTHER -> TextSteps

\* The checks a Provider request must pass: handleProviderTaskJobRequest and handleProviderImagesCanonical.
ProviderAccepts(ask) ==
  /\ ask.vram = -1 /\ ask.api # "completions"
  /\ IF ask.api = "images" THEN RouteOf(ask.model).apiKind = "image"
     ELSE RouteOf(ask.model).apiKind = "chat" /\ ask.dtype = "" /\ ask.quant = ""

Idle == request.todo = <<>>
Doing(step) == ~Idle /\ Head(request.todo) = step

Refuse(answer) == request' = [request EXCEPT !.todo = <<>>, !.answer = answer]
Proceed(r) == request' = [r EXCEPT !.todo = Tail(@)]

\* Images are not streamed, and Responses only by a Provider.
StreamIsUnsupported(ask) == ask.stream /\ (ask.api = "images" \/ (ask.api = "responses" /\ ~IsProvider(ask)))

\* What is refused before anything is looked up: queue timeouts of raw and image tasks are parsed here, those of texts later.
IsRefused(ask) ==
  \/ IsProvider(ask) /\ ~ProviderAccepts(ask)
  \/ StreamIsUnsupported(ask)
  \/ (IsRaw(ask) \/ IsImage(ask)) /\ ~ask.timeoutValid
  \/ ~IsChoice(ask.tools)

\* The middleware loads the project of the endpoint, the handler parses, routes and makes the checks of its input.
Receive ==
  /\ Idle /\ served < MaxRequests /\ project.status # "none"
  /\ \E ask \in Asks :
       LET started == [todo |-> StepsOf(ask), answer |-> "none", row |-> project,
                       ask |-> [ask EXCEPT !.tools.choice = NormalizeToolChoice(ask.tools)],
                       dtype |-> ask.dtype, quant |-> ask.quant, vram |-> ask.vram, wish |-> -1, time |-> <<>>,
                       offer |-> Rejected("none"), hold |-> 0, median |-> -1, usage |-> NoUsage, generated |-> NoAnswer, charge |-> -1]
       IN request' = IF ~IsAuthorized(ask.key) THEN [started EXCEPT !.todo = <<>>, !.answer = "unauthorized"]
                     ELSE IF IsRefused(ask) THEN [started EXCEPT !.todo = <<>>, !.answer = "bad_request"]
                     ELSE started
  /\ served' = served + 1
  /\ UNCHANGED <<cacheVars, projectVars, streamVars>>

-----------------------------------------------------------------------------
(* Requests on Crynux. *)

\* A raw LLM task keeps the fields of its arguments; the rest is resolved from the loaded models.
ResolveExecution ==
  /\ Doing("execution")
  /\ LET ask == request.ask
         image == ResolveImageExecution(ask)
         text == ResolveLLMExecution(ask.model, ask.dtype, ask.quant)
     IN IF ask.api = "raw_llm" THEN Proceed(request)
        ELSE IF ~IsImage(ask)
        THEN Proceed([request EXCEPT !.dtype = text.dtype, !.quant = text.quant])
        ELSE IF ~image.ok \/ (ask.api = "images" /\ ask.vram = 0) THEN Refuse("bad_request")
        ELSE Proceed([request EXCEPT !.dtype = image.dtype, !.quant = image.quant,
                                     !.vram = IF @ # -1 THEN @ ELSE image.vram])
  /\ UNCHANGED <<cacheVars, projectVars, streamVars, served>>

\* The vram a raw LLM task is billed at: the exact row, else the best row of the model, else the default.
RawVram(ask) ==
  LET positive(rows) == rows # {} /\ Best(rows).vram > 0
      exact == {r \in MatchingLLM(ask.model, "", "") : r.dtype = ask.dtype /\ r.quant = IF ask.quant = "" THEN "null" ELSE ask.quant}
      any == MatchingLLM(ask.model, "", "")
  IN IF positive(exact) THEN Best(exact).vram ELSE IF positive(any) THEN Best(any).vram ELSE DefaultVram

\* A limit of zero is refused where the handlers parse it.
ResolveVram ==
  /\ Doing("vram")
  /\ IF request.vram = 0 THEN Refuse("bad_request")
     ELSE Proceed([request EXCEPT !.vram = IF @ # -1 THEN @
                                           ELSE IF IsRaw(request.ask) THEN RawVram(request.ask)
                                           ELSE EffectiveVram(request.ask.model, -1)])
  /\ UNCHANGED <<cacheVars, projectVars, streamVars, served>>

\* ValidateTaskModel: a loaded row of the model is enough, else Hugging Face is asked.
ValidateModel ==
  /\ Doing("model")
  /\ LET rows == IF IsImage(request.ask) THEN sdModels ELSE llmModels
     IN \/ Proceed(request)
        \/ /\ \A r \in rows : r.model # request.ask.model
           /\ Refuse("bad_request") \/ Refuse("server_error")
  /\ UNCHANGED <<cacheVars, projectVars, streamVars, served>>

\* ResolveEffectivePriorityGwei and ResolveProviderEffectivePriority, on the snapshots there are by now.
Wish(row) ==
  IF IsProvider(request.ask) THEN ProviderEffectivePriority(row) ELSE ResolveEffectivePriority(row, queue)

ResolveWish ==
  /\ Doing("wish")
  /\ IF Wish(request.row).error # "none" THEN Refuse("server_error")
     ELSE Proceed([request EXCEPT !.wish = Wish(request.row).priority])
  /\ UNCHANGED <<cacheVars, projectVars, streamVars, served>>

Query == [type |-> IF IsImage(request.ask) THEN "sd" ELSE "llm", model |-> request.ask.model,
          dtype |-> request.dtype, quant |-> request.quant, vram |-> request.vram]

ImageUnits(ask) == ImagePixelStepUnits(ask.image)
HasWorkload(ask) == IsImage(ask) => ImageUnits(ask) > 0

\* The billable amount of r at priority p, with the times it was priced at.
CrynuxAmount(r, p) ==
  CrynuxBillable(p, IF IsImage(r.ask) THEN ImageSeconds(r.time, ImageUnits(r.ask))
                    ELSE NodeSeconds(r.time, r.ask.prompt, r.ask.completion), r.vram)

CrynuxMinFee(ask) ==
  IF IsImage(ask) THEN ScaleMinTaskFee(MinTaskFee["crynux"], ImageUnits(ask), BaselineUnits)
  ELSE ScaleMinTaskFee(MinTaskFee["crynux"], ask.completion, DefaultMaxTokens)

\* An offer that is an error is the client's fault, with the hold it would have been.
Offered(r, offer, hold) ==
  IF offer.error # "none" THEN request' = [r EXCEPT !.offer = offer, !.todo = <<>>, !.answer = "bad_request"]
  ELSE Proceed([r EXCEPT !.offer = offer, !.hold = hold])

\* EstimateLLMTaskFeeWithQuery and EstimateImageTaskFee, once they have the times. The optional queue
\* timeout of chat, completions and responses is checked after the estimate.
PriceCrynux(time) ==
  LET r == [request EXCEPT !.time = time, !.median = QueueMedianHint]
      Fee == [p \in MinPriority..MaxPriority |-> Gwei(CrynuxAmount(r, p))]
      offer == EnforceMinTaskFee(r.row, r.wish, CrynuxMinFee(r.ask), Fee)
  IN IF r.vram = 0 THEN Refuse("server_error")
     ELSE IF offer.error = "none" /\ ~IsImage(r.ask) /\ ~r.ask.timeoutValid THEN Refuse("bad_request")
     ELSE Offered(r, offer, Credits(CrynuxAmount(r, offer.priority)))

\* A query the cache still answers.
PriceFromCache ==
  /\ Doing("price") /\ IsCached(Query) /\ HasWorkload(request.ask)
  /\ PriceCrynux(times[Query].time)
  /\ UNCHANGED <<cacheVars, projectVars, streamVars, served>>

\* Relay answers the query, and the answer is kept.
PriceFromRelay ==
  /\ Doing("price") /\ ~IsCached(Query)
  /\ HasWorkload(request.ask)
  /\ \E time \in TimeListings : PriceCrynux(time) /\ CacheTime(Query, time)
  /\ UNCHANGED <<llmModels, sdModels, tickVars, keyChanges, queueVars, clock, projectVars, streamVars, served>>

\* Relay fails, or the workload of an image is not a positive uint64.
PriceFails ==
  /\ Doing("price")
  /\ ~IsCached(Query) \/ ~HasWorkload(request.ask)
  /\ Refuse("server_error")
  /\ UNCHANGED <<cacheVars, projectVars, streamVars, served>>

-----------------------------------------------------------------------------
(* Requests on a Provider, and the creation of the job. *)

\* BuildProviderBillingData
ProviderAmount(r, p) ==
  LET route == RouteOf(r.ask.model)
  IN ProviderBillable(p, EstimateProviderUnits(route.weights, r.ask.prompt, r.ask.completion),
                      MaxTaskFee[route.provider])

ProviderOffer(r) ==
  EnforceSharedMinPriority(r.row, r.wish,
    SharedMinPriority(r.ask.prompt, r.ask.completion, RouteOf(r.ask.model).apiKind),
    [p \in MinPriority..MaxPriority |-> ProviderAmount(r, p)])

PriceProvider ==
  /\ Doing("create") /\ IsProvider(request.ask) /\ request.offer.priority = 0
  /\ LET offer == ProviderOffer(request)
     IN IF offer.error # "none"
        THEN request' = [request EXCEPT !.offer = offer, !.todo = <<>>, !.answer = "bad_request"]
        ELSE request' = [request EXCEPT !.offer = offer, !.hold = Credits(ProviderAmount(request, offer.priority))]
  /\ UNCHANGED <<cacheVars, projectVars, streamVars, served>>

\* ReserveCreditsAndCreateTaskJob and ReserveCreditsAndCreateRawTaskJob: the hold and the job row.
CreateCrynuxJob ==
  /\ Doing("create") /\ ~IsProvider(request.ask)
  /\ Proceed(request)
  /\ UNCHANGED <<cacheVars, projectVars, streamVars, served>>

\* The same for a Provider; a streamed job is registered before it is queued.
CreateProviderJob ==
  /\ Doing("create") /\ IsProvider(request.ask) /\ request.offer.priority > 0
  /\ Proceed(request)
  /\ IF request.ask.stream
     THEN OpenStream(RouteOf(request.ask.model).provider, request.ask.api, request.ask.includeUsage)
     ELSE UNCHANGED streamVars
  /\ UNCHANGED <<cacheVars, projectVars, served>>

\* The owner's free Credits do not cover the hold.
CreateIsRefused ==
  /\ Doing("create") /\ request.offer.priority > 0
  /\ Refuse("payment_required")
  /\ UNCHANGED <<cacheVars, projectVars, streamVars, served>>

-----------------------------------------------------------------------------
(* The end of the job. *)

\* A Crynux job is charged for the tokens of its answer, an image job its hold.
SettleCrynux ==
  /\ Doing("settle") /\ ~IsProvider(request.ask)
  /\ \E a \in {a \in Answers : a.prompt <= request.ask.prompt /\ a.completion <= request.ask.completion} :
       LET seconds == NodeSeconds(request.time, a.prompt, a.completion)
           billable == CrynuxBillable(request.offer.priority, seconds, request.vram)
       IN IF IsImage(request.ask) THEN Proceed([request EXCEPT !.charge = request.hold])
          ELSE Proceed([request EXCEPT !.generated = a, !.charge = Credits(billable)])
  /\ UNCHANGED <<cacheVars, projectVars, streamVars, served>>

\* The handler finds the job completed, and writes its formatted result.
AnswerText ==
  /\ Doing("answer")
  /\ Proceed(request)
  /\ IF request.ask.stream THEN WriteCompleted(request.generated, request.ask) ELSE UNCHANGED streamVars
  /\ UNCHANGED <<cacheVars, projectVars, served>>

\* What the Images adapters count: no output tokens, and Google's thoughts.
ImageUsage(provider, r) ==
  [parts |-> Only(r, {"input_tokens", "image_output_tokens"}
                       \cup IF provider = "openai" THEN {"image_input_tokens"} ELSE {"reasoning_tokens"}),
   reasoningIncluded |-> FALSE]

UsageOf(ask, r) ==
  LET provider == RouteOf(ask.model).provider IN
  IF ask.api = "images" THEN ImageUsage(provider, r)
  ELSE CASE provider = "openai" -> OpenAIUsage(r)
         [] provider = "anthropic" -> AnthropicUsage(r)
         [] provider = "google" -> GoogleUsage(r)

\* The upstream call of a job that is not streamed ends with usage.
ExecuteProvider ==
  /\ Doing("execute")
  /\ \E r \in Reports : Proceed([request EXCEPT !.usage = [known |-> TRUE, report |-> UsageOf(request.ask, r)]])
  /\ UNCHANGED <<cacheVars, projectVars, streamVars, served>>

\* The stream of the job was confirmed, and its events are published.
StreamIsConfirmed ==
  /\ Doing("stream") /\ upstream.at = "confirmed" /\ outbox = <<>>
  /\ Proceed([request EXCEPT !.usage = upstream.message.usage])
  /\ UNCHANGED <<cacheVars, projectVars, streamVars, served>>

Weights == RouteOf(request.ask.model).weights

ProviderCharge(r) ==
  Credits(ProviderBillable(r.offer.priority, CalculateProviderUnits(r.usage.report, RouteOf(r.ask.model).weights),
                           MaxTaskFee[RouteOf(r.ask.model).provider]))

\* completeProviderJob, and the end of the stream behind it.
SettleProvider ==
  /\ Doing("settle") /\ IsProvider(request.ask) /\ IsPriced(request.usage.report, Weights)
  /\ Proceed([request EXCEPT !.charge = ProviderCharge(request)])
  /\ IF request.ask.stream THEN SettleStream ELSE UNCHANGED streamVars
  /\ UNCHANGED <<cacheVars, projectVars, served>>

\* A job that fails: on Crynux, upstream, or when its stream does. It is charged nothing.
JobFails ==
  /\ ~Idle
  /\ \/ Doing("settle") /\ ~IsProvider(request.ask)
     \/ Doing("execute")
     \/ Doing("stream") /\ upstream.at \in {"failed", "stranded"} /\ outbox = <<>>
  /\ Refuse("failed")
  /\ UNCHANGED <<cacheVars, projectVars, streamVars, served>>

\* Usage a weight is missing for is retried for as long as the process lives, and the owner's Credits stay held.
RetrySettlement ==
  /\ Doing("settle") /\ IsProvider(request.ask) /\ ~IsPriced(request.usage.report, Weights)
  /\ UNCHANGED vars

-----------------------------------------------------------------------------

Init == CacheInit /\ ProjectInit /\ StreamInit /\ request = NoRequest /\ served = 0

RequestNext ==
  \/ Receive \/ ResolveExecution \/ ResolveVram \/ ValidateModel \/ ResolveWish
  \/ PriceFromCache \/ PriceFromRelay \/ PriceFails \/ PriceProvider
  \/ CreateCrynuxJob \/ CreateProviderJob \/ CreateIsRefused
  \/ SettleCrynux \/ AnswerText \/ ExecuteProvider \/ StreamIsConfirmed \/ SettleProvider \/ JobFails

\* Bounds on what goes on together. A stream, and a request with tools, is served before anything was refreshed or edited; nothing
\* goes on beside a job once it is priced; the catalog, which no request reads, is refreshed before there
\* is a project; and a second request repeats one that was refused for lack of Credits, some time later.
HintsAreUnread == left["queue"] = MaxRefreshes /\ left["providers"] = MaxRefreshes
CatalogIsUnread == left["catalog"] = MaxRefreshes /\ \A p \in CatalogProviders : keyChanges[p] = 0
NothingChanged ==
  HintsAreUnread /\ CatalogIsUnread /\ left["loaded"] = MaxRefreshes /\ clock = 0 /\ editsLeft = MaxEdits
ServesAlone == ~Idle /\ (request.ask.stream \/ request.ask.tools.declared # {})
IsRefusedForCredits == served = 1 /\ Idle /\ request.answer = "payment_required" /\ editsLeft = MaxEdits
IsRepeated == IsRefusedForCredits /\ ~request.ask.stream /\ request'.ask = request.ask
PriceIsOpen == \E step \in {"execution", "vram", "model", "wish", "price"} : step \in Range(request.todo)
MayChange == ~ServesAlone /\ ((served = 0 /\ client.at = "none") \/ (served = 1 /\ PriceIsOpen))

Next ==
  \/ RequestNext /\ (ServesAlone' => NothingChanged) /\ (served' = 2 /\ served = 1 => IsRepeated)
  \/ RetrySettlement
  \/ StreamNext /\ UNCHANGED <<cacheVars, projectVars, request, served>>
  \/ TimePasses /\ IsRefusedForCredits /\ UNCHANGED <<projectVars, streamVars, request, served>>
  \/ /\ MayChange
     /\ \/ LoadNext /\ UNCHANGED <<projectVars, streamVars, request, served>>
        \/ HintNext /\ CatalogIsUnread /\ UNCHANGED <<projectVars, streamVars, request, served>>
        \/ ProjectNext /\ (project.status = "none" => CatalogIsUnread) /\ UNCHANGED <<cacheVars, streamVars, request, served>>
        \/ CatalogNext /\ project.status = "none" /\ HintsAreUnread /\ UNCHANGED <<projectVars, streamVars, request, served>>

Spec == Init /\ [][Next]_vars

-----------------------------------------------------------------------------
(* Properties. *)

IsOffered == request # NoRequest /\ request.offer # Rejected("none")

\* What a job at priority p would hold: the Credits of its exact amount.
HoldAt(p) ==
  Credits(IF IsProvider(request.ask) THEN ProviderAmount(request, p) ELSE CrynuxAmount(request, p))

\* The Credits of one Gwei, rounded up: the most that an estimate of whole Gwei can miss.
CreditsOfOneGwei == (Rate.n + Rate.d - 1) \div Rate.d

\* The priorities whose hold is beyond the project's maximum by no more than slack.
WithinBudget(slack) == {p \in MinPriority..MaxPriority : HoldAt(p) <= request.row.maxCredits + slack}

\* What admission on Crynux should choose: the lowest affordable priority that pays the minimum and is
\* not below the wish, unless the wish itself is beyond every affordable one.
CrynuxReference(affordable) ==
  LET pays(p) == CrynuxAmount(request, p) >= CrynuxMinFee(request.ask) * FeeScale
      willing == IF request.row.mode = "static" THEN affordable \cap {request.wish}
                 ELSE {p \in affordable : p >= request.wish \/ \A q \in affordable : q <= p}
      paying == {p \in willing : pays(p)}
  IN {p \in paying : \A q \in paying : p <= q}
     \cup {p \in affordable : request.row.mode = "auto" /\ paying = {} /\ pays(p)}

\* The lowest priority at which the cheapest model of the kind pays the Provider minimum, or the highest there is.
SharedReference ==
  LET units == {u \in {EstimateProviderUnits(r.weights, request.ask.prompt, request.ask.completion) :
                         r \in {r \in Routes : r.apiKind = RouteOf(request.ask.model).apiKind}} : u > 0}
      enough == {p \in MinPriority..MaxPriority : \A u \in units : p * u >= MinTaskFee["providers"] * FeeScale}
  IN IF units = {} THEN MinPriority ELSE Min(enough \cup {MaxPriority})

\* What admission to a Provider should choose: of the affordable priorities from the shared minimum on, the
\* one nearest to the wish. A fixed priority is taken when its hold is within the maximum, to the Credit.
ProviderReference(affordable) ==
  LET minimum == SharedReference
      allowed == {p \in affordable : p >= minimum}
      distance(p) == IF p < request.wish THEN request.wish - p ELSE p - request.wish
  IN IF request.row.mode = "static"
     THEN {p \in {request.wish} : p >= minimum /\ HoldAt(p) <= request.row.maxCredits}
     ELSE {p \in allowed : \A q \in allowed : distance(p) <= distance(q)}

Reference(affordable) ==
  IF IsProvider(request.ask) THEN ProviderReference(affordable) ELSE CrynuxReference(affordable)

\* The priority of a job is the one its project's rules call for, and there is none exactly when the
\* request is refused, whatever changed while it was priced: the searches and clamps of
\* enforceAdmissionMinTaskFee, enforceAdmissionSharedMinPriority and MaxPriorityWithinAutoMaxCredits
\* against their meaning. The affordable priorities go up to some top: they are all those whose hold is
\* within the maximum, and, as the code rounds the amount down to Gwei before it compares, perhaps some
\* whose hold is beyond it, by no more than the Credits of one Gwei.
PriorityIsReference ==
  IsOffered =>
    LET within == WithinBudget(0)
        nearly == WithinBudget(CreditsOfOneGwei)
    IN \E top \in (MinPriority - 1)..MaxPriority :
      /\ within \subseteq MinPriority..top /\ MinPriority..top \subseteq nearly
      /\ Reference(MinPriority..top) = IF request.offer.error = "none" THEN {request.offer.priority} ELSE {}

\* Whether the details of a report are parts of its totals or counted beside them, it stays within the estimate.
IsWithinEstimate(usage) ==
  LET n == usage.parts
      detail == n["cached_input_tokens"] + n["cache_write_input_tokens"] + n["tool_use_prompt_tokens"]
      input == n["input_tokens"] + n["image_input_tokens"]
      output == n["output_tokens"] + n["image_output_tokens"]
  IN /\ (input <= request.ask.prompt /\ detail <= n["input_tokens"]) \/ input + detail <= request.ask.prompt
     /\ IF usage.reasoningIncluded THEN output <= request.ask.completion /\ n["reasoning_tokens"] <= n["output_tokens"]
        ELSE output + n["reasoning_tokens"] <= request.ask.completion

\* A job whose tokens stay within its estimate is charged no more than was held for it, although the hold
\* was made with one rule and the charge with another (largest weights against billed parts, a capped
\* estimate against the actual time). A Crynux job that was held at the maximum price may pay the
\* fraction of a Gwei that applyMaxTaskFeeCap leaves.
HoldCoversCharge ==
  request # NoRequest /\ request.charge # -1 =>
    IF IsProvider(request.ask) THEN IsWithinEstimate(request.usage.report) => request.charge <= request.hold
    ELSE LET estimate == CrynuxAmount(request, request.offer.priority)
             fraction == IF estimate >= MaxTaskFee["crynux"] * FeeScale THEN FeeScale - 1 ELSE 0
         IN request.charge <= Credits(estimate + fraction)

HasResult == request # NoRequest /\ request.generated # NoAnswer /\ ~IsRaw(request.ask)

\* The result of a Crynux job: nothing generated is lost or repeated, sections are taken out of the text
\* when their first call is declared, only calls of declared tools are returned, and a client is told of
\* a cap only when it was reached. A section that begins with an undeclared call stays in the text and
\* its declared calls are returned as well, as removeToolCallMatches leaves it.
AnswerIsWhole ==
  HasResult =>
    LET answer == request.generated
        result == ResultOf(answer, request.ask)
    IN /\ IsWhole(result, answer, request.ask)
       /\ \A i \in DOMAIN result.calls :
            result.calls[i].name \in request.ask.tools.declared /\ request.ask.tools.choice # "none"
       /\ result.finish = "length" => answer.completion = request.ask.completion
       /\ request.ask.api = "chat" => (result.finish = "tool_calls" <=> result.calls # <<>>)
=============================================================================
