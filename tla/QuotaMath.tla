----------------------------- MODULE QuotaMath -----------------------------
(***************************************************************************)
(* The arithmetic of relay/relay_util/quota.go: what a request reserves    *)
(* before it is sent upstream (PreQuotaConsumption) and what it costs once *)
(* its usage is known (GetTotalQuota).                                     *)
(*                                                                         *)
(* A price ratio is a float64 in the code.  Here a price is an integer     *)
(* number of 1/RatioUnit, so that math.Ceil and the int() truncations act  *)
(* on real fractions; a group ratio is a natural number.                   *)
(***************************************************************************)
EXTENDS Integers

CONSTANTS PreConsumedQuota,  \* config.PreConsumedQuota
          RatioUnit          \* the denominator of every price ratio

ASSUME QuotaMathAssumption ==
    /\ PreConsumedQuota \in Nat
    /\ RatioUnit \in Nat \ {0}

\* model.Price.  The code guards itself against a negative price.
Price == [type : {"tokens", "times"}, input : Int, output : Int]

\* What a request brings to the bill: its price, the ratio of its group and
\* the prompt tokens counted before it is sent.
Job == [price : Price, groupRatio : Nat, promptTokens : Nat]

\* types.Usage after the upstream answered.  extraTokens is one entry of
\* GetExtraTokens() whose key is a prompt key and whose ratio is extraRatio;
\* extraBilling is the total over the extra services, in quota.
Usage == [promptTokens : Nat, completionTokens : Nat,
          extraTokens : Nat, extraRatio : Nat, extraBilling : Nat]

-----------------------------------------------------------------------------
CeilDiv(n, d) == -((-n) \div d)

\* int(float64): truncation towards zero.
Trunc(n, d) == IF n >= 0 THEN n \div d ELSE -((-n) \div d)

GetInput(price) == IF price.input <= 0 THEN 0 ELSE price.input

GetOutput(price) ==
    IF price.output <= 0 \/ price.type = "times" THEN 0 ELSE price.output

InputRatio(job) == GetInput(job.price) * job.groupRatio

OutputRatio(job) == GetOutput(job.price) * job.groupRatio

\* The amount PreQuotaConsumption starts from.
PreConsume(job) ==
    IF job.price.type = "times"
    THEN (1000 * InputRatio(job)) \div RatioUnit
    ELSE IF job.price.input # 0 \/ job.price.output # 0
         THEN (job.promptTokens * InputRatio(job)) \div RatioUnit
                 + PreConsumedQuota
         ELSE 0

\* A key whose ratio is below 1 (cached tokens) takes tokens away.
GetIncreaseTokens(tokens, ratio) == Trunc(tokens * (ratio - RatioUnit), RatioUnit)

ComputePromptTokens(usage) ==
    usage.promptTokens + GetIncreaseTokens(usage.extraTokens, usage.extraRatio)

GetTotalQuota(job, promptTokens, completionTokens, extraBilling) ==
    LET base == IF job.price.type = "times"
                THEN (1000 * InputRatio(job)) \div RatioUnit
                ELSE CeilDiv(promptTokens * InputRatio(job)
                                 + completionTokens * OutputRatio(job),
                             RatioUnit)
        billed == base + extraBilling * job.groupRatio
        atLeastOne == IF InputRatio(job) # 0 /\ billed <= 0 THEN 1 ELSE billed
    IN  IF promptTokens + completionTokens = 0 THEN 0 ELSE atLeastOne

GetTotalQuotaByUsage(job, usage) ==
    GetTotalQuota(job, ComputePromptTokens(usage), usage.completionTokens,
                  usage.extraBilling)
=============================================================================
