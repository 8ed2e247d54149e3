------------------------------- MODULE Pricing -------------------------------
(***************************************************************************)
(* What a request costs and at which priority it is queued: Credits and    *)
(* fees of the two billing formulas, the admission rules that raise and    *)
(* lower an Auto project's priority, and the configuration they rely on    *)
(* (src/service/task_fee.go, provider_billing.go, priority_gwei.go,        *)
(* provider_cost_hints.go, src/config/config.go).                          *)
(*                                                                         *)
(* A billable amount is counted in parts of a Gwei, FeeScale of them, so   *)
(* that the fractions of the code's big.Float and big.Rat are integers:    *)
(* every rounding below is one the code makes.  Errors are the values of   *)
(* the field "error" of a result, "none" when there is none.               *)
(***************************************************************************)
EXTENDS Integers, FiniteSets, FiniteSetsExt

CONSTANTS
  MinPriority,       \* llm.min_priority_gwei
  MaxPriority,       \* llm.max_priority_gwei
  Kgwei,             \* PriorityGweiPerKgwei: 1000
  Rate,              \* llm.credits_per_gwei, the fraction Rate.n / Rate.d
  SecondScale,       \* parts of a second
  BaseVram,          \* llm.base_vram
  MinTaskFee,        \* llm.min_task_price_cnx in Gwei, by "crynux" and "providers"
  MaxTaskFee,        \* llm.max_task_price_cnx in Gwei, by execution source
  DefaultMaxTokens,  \* llm.default_max_tokens
  EmptyQueueMedian,  \* llm.empty_queue_median_priority_gwei
  BaselineUnits,     \* imageAdmissionBaselineUnits: 1024 * 1024 * 30
  MaxUint64,         \* math.MaxUint64
  Routes             \* the models of provider.services

ServiceProviders == {"openai", "anthropic", "google"}
InputComponents == {"input_tokens", "cached_input_tokens", "cache_write_input_tokens",
                    "tool_use_prompt_tokens", "image_input_tokens"}
OutputComponents == {"output_tokens", "reasoning_tokens", "image_output_tokens"}
Components == InputComponents \cup OutputComponents

-----------------------------------------------------------------------------
(* What the start-up checks of the configuration leave to rely on. *)

\* checkLLMConfig, with the parsers of priorities and rates.
LLMConfigIsChecked ==
  /\ {MinPriority, MaxPriority, BaseVram, DefaultMaxTokens, EmptyQueueMedian, Rate.n, Rate.d} \subseteq Nat \ {0}
  /\ MinPriority <= MaxPriority

\* checkMaxTaskPriceCNXConfig
MaxTaskPricesAreChecked == \A s \in DOMAIN MaxTaskFee : MaxTaskFee[s] \in Nat \ {0}

\* checkMinTaskPriceCNXConfig: both keys and no other, each within the maximum of every source it bounds.
MinTaskPricesAreChecked ==
  /\ MinTaskFee \in [{"crynux", "providers"} -> Nat]
  /\ \A s \in DOMAIN MaxTaskFee :
       (IF s = "crynux" THEN MinTaskFee["crynux"] ELSE MinTaskFee["providers"]) <= MaxTaskFee[s]

\* checkProviderUsageWeights: an empty weight is a key that is missing.
UsageWeightsAreChecked(r) ==
  /\ DOMAIN r.weights \subseteq Components
  /\ \A c \in DOMAIN r.weights : r.weights[c] \in Nat
  /\ \E c \in DOMAIN r.weights : r.weights[c] > 0

\* checkProviderRequiredUsageWeights
RequiredWeightsAreChecked(r) ==
  /\ r.apiKind = "chat" /\ r.provider # "anthropic" => "reasoning_tokens" \in DOMAIN r.weights
  /\ r.apiKind = "image" => {"image_input_tokens", "image_output_tokens"} \subseteq DOMAIN r.weights
  /\ r.apiKind = "image" /\ r.provider = "google" => "reasoning_tokens" \in DOMAIN r.weights

\* checkProviderConfig: the models of the services.
ProviderModelsAreChecked ==
  \A r \in Routes :
    /\ r.provider \in ServiceProviders \cap DOMAIN MaxTaskFee
    /\ r.apiKind \in {"chat", "image"}
    /\ ~(r.provider = "anthropic" /\ r.apiKind = "image")
    /\ \A q \in Routes : q.name = r.name => q = r
    /\ UsageWeightsAreChecked(r) /\ RequiredWeightsAreChecked(r)

ASSUME PricingAssumption ==
  /\ {Kgwei, SecondScale, BaselineUnits, MaxUint64} \subseteq Nat \ {0}
  /\ "crynux" \in DOMAIN MaxTaskFee /\ IsFiniteSet(Routes)
  /\ LLMConfigIsChecked /\ MaxTaskPricesAreChecked /\ MinTaskPricesAreChecked /\ ProviderModelsAreChecked

-----------------------------------------------------------------------------
(* Results and small numbers. *)

Larger(a, b) == IF a < b THEN b ELSE a
Smaller(a, b) == IF a < b THEN a ELSE b
Clamp(n, lo, hi) == IF n < lo THEN lo ELSE IF n > hi THEN hi ELSE n

Accepted(p) == [error |-> "none", priority |-> p]
Rejected(e) == [error |-> e, priority |-> 0]

-----------------------------------------------------------------------------
(* Billable amounts. *)

FeeScale == SecondScale * BaseVram

\* The task fee in Gwei, the Int of the product; floorProviderBillableGwei.
Gwei(billable) == billable \div FeeScale

\* CalcCreditsFromBillable and ProviderConsumerCredits: max(1, floor(billable * credits_per_gwei)).
Credits(billable) == Larger(1, (billable * Rate.n) \div (FeeScale * Rate.d))

\* The linear model of the execution time, in parts of a second.
NodeSeconds(time, prompt, completion) == time.constant + time.input * prompt + time.output * completion

\* CalcBillableGwei: priority * seconds * vram weight.
\* applyMaxTaskFeeCap compares the floored fee, so a fraction of a Gwei above the maximum stays.
CrynuxBillable(p, seconds, vram) ==
  LET billable == p * seconds * Larger(vram, BaseVram)
  IN IF Gwei(billable) <= MaxTaskFee["crynux"] THEN billable ELSE MaxTaskFee["crynux"] * FeeScale

\* ProviderBillableGwei with ApplyMaxTaskPriceCap: an exact rational up to the maximum.
ProviderBillable(p, units, maxFee) == Smaller(p * units, maxFee * FeeScale)

-----------------------------------------------------------------------------
(* Provider units: tokens times their weights. *)

\* maxWeight
MaxWeight(weights, keys) == Max({0} \cup {weights[c] : c \in keys \cap DOMAIN weights})

\* EstimateProviderUnits
EstimateProviderUnits(weights, input, maxOutput) ==
  input * MaxWeight(weights, InputComponents) + maxOutput * MaxWeight(weights, OutputComponents)

\* Mutant of BilledParts: the details of a total are billed on top of it.
StackedParts(usage) == usage.parts

\* Details that are part of a total are billed in its place; Google's thoughts are not in the output.
BilledParts(usage) ==
  LET n == usage.parts
      detail == n["cached_input_tokens"] + n["cache_write_input_tokens"] + n["tool_use_prompt_tokens"]
      reasoning == IF usage.reasoningIncluded THEN n["reasoning_tokens"] ELSE 0
  IN [n EXCEPT !["input_tokens"] = IF @ >= detail THEN @ - detail ELSE @,
               !["output_tokens"] = IF @ >= reasoning THEN @ - reasoning ELSE @]

\* CalculateProviderUnits fails on a positive component without a weight.
IsPriced(usage, weights) == \A c \in Components : BilledParts(usage)[c] > 0 => c \in DOMAIN weights

CalculateProviderUnits(usage, weights) ==
  LET cost(c) == IF c \in DOMAIN weights THEN BilledParts(usage)[c] * weights[c] ELSE 0
  IN cost("input_tokens") + cost("output_tokens") + cost("cached_input_tokens") + cost("cache_write_input_tokens")
     + cost("reasoning_tokens") + cost("tool_use_prompt_tokens") + cost("image_input_tokens") + cost("image_output_tokens")

-----------------------------------------------------------------------------
(* The shared Provider minimum. *)

\* CheapestProviderUnits: models whose estimate is zero are passed over.
ProviderUnitsOf(apiKind, input, maxOutput) ==
  {EstimateProviderUnits(r.weights, input, maxOutput) : r \in {r \in Routes : r.apiKind = apiKind}} \ {0}

\* Mutant of CeilPriority: rounded down.
FloorPriority(fee, units) == (fee * FeeScale) \div units
\* ceilPriorityFromFeeAndUnits, for a positive fee
CeilPriority(fee, units) == (fee * FeeScale + units - 1) \div units

ClampPriority(p) == Clamp(p, MinPriority, MaxPriority)

\* ResolveProviderSharedMinPriority; 0 stands for nil, no shared minimum.
SharedMinPriority(input, maxOutput, apiKind) ==
  LET units == ProviderUnitsOf(apiKind, input, maxOutput)
  IN IF MinTaskFee["providers"] = 0 \/ units = {} THEN 0
     ELSE ClampPriority(CeilPriority(MinTaskFee["providers"], Min(units)))

-----------------------------------------------------------------------------
(* Admission: the priority a request is queued at. A project has a mode, a *)
(* static priority, a Credits budget (0 when it is not set) and a queue    *)
(* position (-1 when it is not set). Fee[p] is the fee in Gwei at priority *)
(* p, Billable[p] the billable amount.                                     *)

\* creditsForPriority and the comparisons with auto_max_credits_per_task
Affordable(project, billable) == Credits(billable) <= project.maxCredits

\* The highest priority whose Credits are within the budget, by binary search.
MaxPriorityWithinAutoMaxCredits(project, Fee) ==
  LET search[range \in Nat \X Nat] ==
        LET lo == range[1]
            hi == range[2]
            mid == (lo + hi + 1) \div 2
        IN IF lo >= hi THEN lo
           ELSE IF Affordable(project, Fee[mid] * FeeScale) THEN search[<<mid, hi>>] ELSE search[<<lo, mid - 1>>]
  IN IF project.maxCredits = 0 THEN Rejected("auto_max_credits_required")
     ELSE IF ~Affordable(project, Fee[MinPriority] * FeeScale) THEN Rejected("auto_max_credits_insufficient")
     ELSE Accepted(search[<<MinPriority, MaxPriority>>])

\* The lowest priority from lo to hi that pays minFee, which hi does.
LowestPaying(lo, hi, minFee, Fee) ==
  LET search[range \in Nat \X Nat] ==
        LET l == range[1]
            h == range[2]
            mid == (l + h) \div 2
        IN IF l >= h THEN h ELSE IF Fee[mid] >= minFee THEN search[<<l, mid>>] ELSE search[<<mid + 1, h>>]
  IN search[<<lo, hi>>]

\* scaleAdmissionMinTaskFee
ScaleMinTaskFee(base, units, baseline) == (base * units) \div baseline

\* rejectIfStaticCreditsExceedMax, rejectIfStaticProviderCreditsExceedMax: the error, or "none"
StaticCreditsError(project, billable) ==
  IF project.maxCredits = 0 THEN "auto_max_credits_required"
  ELSE IF ~Affordable(project, billable) THEN "max_credits_exceeded" ELSE "none"

\* enforceAdmissionMinTaskFee
EnforceMinTaskFee(project, priority, minFee, Fee) ==
  LET top == MaxPriorityWithinAutoMaxCredits(project, Fee)
      capped == Smaller(priority, top.priority)
      static == StaticCreditsError(project, Fee[priority] * FeeScale)
  IN IF project.mode = "static"
     THEN IF static # "none" THEN Rejected(static)
          ELSE IF Fee[priority] < minFee THEN Rejected("task_fee_below_minimum")
          ELSE Accepted(priority)
     ELSE IF top.error # "none" THEN top
          ELSE IF Fee[capped] >= minFee THEN Accepted(capped)
          ELSE IF Fee[top.priority] < minFee THEN Rejected("auto_max_credits_insufficient")
          ELSE Accepted(LowestPaying(capped, top.priority, minFee, Fee))

\* enforceAdmissionSharedMinPriority, with shared = 0 for no shared minimum.
\* Static projects are held to the exact billable amount, Auto ones to its floor.
EnforceSharedMinPriority(project, priority, shared, Billable) ==
  LET upper == MaxPriorityWithinAutoMaxCredits(project, [p \in DOMAIN Billable |-> Gwei(Billable[p])])
      lower == IF shared > 0 THEN shared ELSE MinPriority
      static == StaticCreditsError(project, Billable[priority])
  IN IF project.mode = "static"
     THEN IF static # "none" THEN Rejected(static)
          ELSE IF priority < shared THEN Rejected("task_fee_below_minimum")
          ELSE Accepted(priority)
     ELSE IF upper.error # "none" THEN upper
          ELSE IF lower > upper.priority THEN Rejected("auto_max_credits_insufficient")
          ELSE Accepted(Clamp(priority, lower, upper.priority))

-----------------------------------------------------------------------------
(* The workload of an image request, and what the WebUI shows as the       *)
(* Provider minimum.                                                       *)

\* imagePixelStepUnits; 0 stands for the error: a zero factor, or a product beyond uint64.
ImagePixelStepUnits(image) ==
  LET units == image.count * image.width * image.height * image.steps
  IN IF units > MaxUint64 THEN 0 ELSE units

\* EstimateImageTaskFee: at least one second.
ImageSeconds(time, units) == Larger(SecondScale, time.overhead + units * time.step)

-----------------------------------------------------------------------------
(* The Cost Level of a project. *)

\* StaticProjectPriorityBounds: whole kgwei within the configured bounds, an error when there are none.
StaticBounds ==
  LET low == Larger(MinPriority, Kgwei)
  IN [lo |-> ((low + Kgwei - 1) \div Kgwei) * Kgwei, hi |-> (MaxPriority \div Kgwei) * Kgwei]
HasStaticBounds == StaticBounds.lo <= StaticBounds.hi

\* ValidateStaticProjectPriorityGwei
IsStaticPriority(p) ==
  HasStaticBounds /\ p > 0 /\ p % Kgwei = 0 /\ p \in StaticBounds.lo..StaticBounds.hi

\* NormalizeStaticProjectPriorityGwei: the nearest kgwei, half up, within the bounds.
NormalizeStaticPriority(p) ==
  Clamp(((p + Kgwei \div 2) \div Kgwei) * Kgwei, StaticBounds.lo, StaticBounds.hi)

\* resolveAutoPriorityGwei: a point between the lowest and the highest queued priority.
\* A lowest of zero is one, a highest of zero makes the bounds unusable.
AutoPriority(project, queue) ==
  LET position == IF project.position = -1 THEN 50 ELSE project.position
      usable == queue.count > 0 /\ queue.highest > 0 /\ queue.lowest >= 0 /\ queue.highest >= queue.lowest
  IN ClampPriority(IF usable THEN queue.lowest + ((queue.highest - queue.lowest) * position) \div 100
                   ELSE MinPriority)

\* ResolveEffectivePriorityGwei
ResolveEffectivePriority(project, queue) ==
  IF project.mode = "static" THEN Accepted(project.priority)
  ELSE IF project.maxCredits = 0 THEN Rejected("auto_max_credits_required")
  ELSE Accepted(AutoPriority(project, queue))
=============================================================================
