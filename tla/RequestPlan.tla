------------------------------ MODULE RequestPlan ------------------------------
(***************************************************************************)
(* What one request may cost (src/chat/estimates.py, context.py,            *)
(* accounting.py): the history that goes with a message, the completion the *)
(* limits leave room for, and the reserve.  The line under the editor and   *)
(* the preflight of a send compute it from different questions about the    *)
(* price, and must come to the same.                                        *)
(*                                                                         *)
(* Tokens and money are integers (the code's money is exact, Decimal); a    *)
(* text is its size in bytes.  A schedule of prices has one price for the   *)
(* prompt, one for the completion and one for the request: the prices of    *)
(* caches and reasoning are added to the first two by the code.             *)
(***************************************************************************)
EXTENDS Integers, Sequences, FiniteSets, FiniteSetsExt, SequencesExt

CONSTANTS
    MinCompletion, RequestOverhead, MessageOverhead, RouterContext, \* of the code: 16, 32, 8, 8192
    Unknown,     \* None: a price, a remainder or a length nobody has told
    Snapshots,   \* [chat, budget, model, history, key]: what an estimate may start from
    Sizes        \* sizes of a text

ASSUME PlanAssumption ==
    /\ MinCompletion \in Nat \ {0} /\ RequestOverhead \in Nat /\ MessageOverhead \in Nat \ {0}
    /\ RouterContext \in Nat /\ Sizes \subseteq Nat

-----------------------------------------------------------------------------
(* The history: turns of which both messages were sent, oldest first, as    *)
(* the running total of their estimated tokens.                             *)

MessageTokens(size) == size + MessageOverhead

LastOf(messages, turn, role) ==
    messages[Max({i \in DOMAIN messages : messages[i].turn = turn /\ messages[i].role = role})]
CompletedPairs(messages) ==
    LET sent == SelectSeq(messages, LAMBDA m : m.status = "sent")
        roles(t) == {m.role : m \in {sent[i] : i \in {j \in DOMAIN sent : sent[j].turn = t}}}
        order == FoldLeft(LAMBDA turns, m : IF Contains(turns, m.turn) THEN turns
                                            ELSE Append(turns, m.turn), <<>>, sent)
        whole == SelectSeq(order, LAMBDA t : roles(t) = {"user", "assistant"})
    IN  [i \in DOMAIN whole |-> [user |-> LastOf(sent, whole[i], "user").size,
                                 assistant |-> LastOf(sent, whole[i], "assistant").size]]

PrepareHistory(messages) ==
    FoldLeft(LAMBDA total, pair :
                 Append(total, Last(total) + MessageTokens(pair.user) + MessageTokens(pair.assistant)),
             <<0>>, CompletedPairs(messages))

(* Mutant: the pair that crosses the threshold is taken as well. *)
PairStartMutant(history, threshold) ==
    Max({i \in DOMAIN history : history[i] <= Max({0, threshold})})
(* bisect_left *)
PairStart(history, threshold) ==
    Min({i \in DOMAIN history : history[i] >= Max({0, threshold})})

(* "tokens" of the prompt, from pair "start" on; "fits" says that no exception was raised. *)
SelectContext(history, size, length, reserve, full) ==
    LET available == length - reserve
        alone == RequestOverhead + MessageTokens(size)
        start == PairStart(history, Last(history) - (available - alone))
    IN  IF alone > available \/ (full /\ start > 1)
        THEN [fits |-> FALSE, start |-> 0, tokens |-> 0]
        ELSE [fits |-> TRUE, start |-> start, tokens |-> alone + Last(history) - history[start]]

-----------------------------------------------------------------------------
(* Prices.                                                                 *)

Zero == [prompt |-> 0, completion |-> 0, request |-> 0]
Valid(pricing) ==
    pricing # {} /\ \A s \in pricing : s.prompt >= 0 /\ s.completion >= 0 /\ s.request >= 0

ScheduleCost(s, prompt, completion) ==
    s.request + s.prompt * prompt + s.completion * completion

(* Mutant: the override replaces the base price. *)
MaxCostMutant(pricing, prompt, completion) ==
    Min({ScheduleCost(s, prompt, completion) : s \in pricing})
MaxCost(pricing, prompt, completion) ==
    Max({ScheduleCost(s, prompt, completion) : s \in pricing})

MaximumComponents(pricing) ==
    [part \in DOMAIN Zero |-> Max({s[part] : s \in pricing})]

IsFreeModel(model) == model.standard /\ model.complete /\ model.prices = {Zero}

(* Mutant: only the price of the prompt is compared. *)
PriceIncreasedMutant(chat, model) ==
    \/ ~chat.complete \/ ~model.complete
    \/ MaximumComponents(model.prices).prompt > MaximumComponents(chat.prices).prompt
ModelPriceIncreased(chat, model) ==
    \/ ~chat.complete \/ ~model.complete
    \/ \E part \in DOMAIN Zero :
           MaximumComponents(model.prices)[part] > MaximumComponents(chat.prices)[part]

(* Mutant: a chat that pays unasked is estimated at the confirmed price. *)
EstimatePricingMutant(chat, model) ==
    IF chat.router THEN {Zero}
    ELSE IF chat.mode = "free" THEN IF IsFreeModel(model) THEN model.prices ELSE Unknown
    ELSE IF ~model.complete \/ ~Valid(model.prices) THEN Unknown
    ELSE IF ModelPriceIncreased(chat, model) THEN model.prices
    ELSE chat.prices
EstimatePricing(chat, model) ==
    IF chat.router THEN {Zero}
    ELSE IF chat.mode = "free" THEN IF IsFreeModel(model) THEN model.prices ELSE Unknown
    ELSE IF ~model.complete \/ ~Valid(model.prices) THEN Unknown
    ELSE IF chat.unasked \/ ModelPriceIncreased(chat, model) THEN model.prices
    ELSE chat.prices

-----------------------------------------------------------------------------
(* The plan.                                                               *)

(* Mutant: the upper end of the search leaves out the last candidate. *)
CapByCostMutant(maximum, pricing, prompt, money) ==
    LET affordable(n) == MaxCost(pricing, prompt, n) <= money
        search[lower \in Nat, upper \in Nat] ==
            IF lower >= upper THEN lower
            ELSE LET candidate == (lower + upper + 1) \div 2
                 IN  IF affordable(candidate) THEN search[candidate, upper]
                     ELSE search[lower, candidate - 1]
    IN  IF affordable(maximum) THEN maximum
        ELSE IF ~affordable(MinCompletion) THEN Unknown
        ELSE search[MinCompletion, Max({MinCompletion, maximum - 2})]
(* _cap_completion_by_cost; Unknown stands for its exception.               *)
CapByCost(maximum, pricing, prompt, money) ==
    LET affordable(n) == MaxCost(pricing, prompt, n) <= money
        search[lower \in Nat, upper \in Nat] ==
            IF lower >= upper THEN lower
            ELSE LET candidate == (lower + upper + 1) \div 2
                 IN  IF affordable(candidate) THEN search[candidate, upper]
                     ELSE search[lower, candidate - 1]
    IN  IF affordable(maximum) THEN maximum
        ELSE IF ~affordable(MinCompletion) THEN Unknown
        ELSE search[MinCompletion, maximum - 1]

Refused(error) == [error |-> error, prompt |-> 0, completion |-> 0, cost |-> Unknown]

BudgetFailure(b) ==
    IF ~b.configured THEN "limits_not_configured"
    ELSE IF b.state = "unknown" THEN "accounting_unknown"
    ELSE IF b.state # "exhausted" THEN "none"
    ELSE IF b.used + b.reserved >= b.tokenLimit THEN "token_limit" ELSE "cost_limit"

RemainingTokens(b) == b.tokenLimit - b.used - b.reserved
RemainingMoney(b) == b.costLimit - b.spent - b.costReserved

ContextLength(chat, model) == IF chat.router THEN RouterContext ELSE model.length
CompletionCap(b, model) ==
    IF model.most = Unknown THEN b.completion ELSE Min({b.completion, model.most})

CalculateRequestPlan(s, size, pricing) ==
    LET length == ContextLength(s.chat, s.model)
        context == SelectContext(s.history, size, length, MinCompletion, TRUE)
        offered == Min({CompletionCap(s.budget, s.model),
                        RemainingTokens(s.budget) - context.tokens, length - context.tokens})
        paid == s.chat.mode = "paid" /\ pricing # Unknown
        byBudget == IF ~paid THEN offered
                    ELSE CapByCost(offered, pricing, context.tokens, RemainingMoney(s.budget))
        byKey == IF ~paid \/ s.key = Unknown THEN byBudget
                 ELSE CapByCost(byBudget, pricing, context.tokens, s.key)
    IN  IF size = 0 THEN Refused("invalid_request")
        ELSE IF BudgetFailure(s.budget) # "none" THEN Refused(BudgetFailure(s.budget))
        ELSE IF length = Unknown THEN Refused("context_length")
        ELSE IF length <= MinCompletion THEN Refused("context_length")
        ELSE IF CompletionCap(s.budget, s.model) < MinCompletion THEN Refused("max_tokens")
        ELSE IF ~context.fits THEN Refused("context_length")
        ELSE IF offered < MinCompletion THEN Refused("token_limit")
        ELSE IF paid /\ ~Valid(pricing) THEN Refused("price_unsafe")
        ELSE IF byBudget = Unknown THEN Refused("cost_limit")
        ELSE IF byKey = Unknown THEN Refused("key_limit")
        ELSE [error |-> "none", prompt |-> context.tokens, completion |-> byKey,
              cost |-> IF s.chat.mode = "free" THEN 0
                       ELSE IF pricing = Unknown THEN Unknown
                       ELSE MaxCost(pricing, context.tokens, byKey)]

(* estimate_draft: what the line under the editor shows.                    *)
Shown(s, size, pricing, plan) ==
    IF size = 0 THEN [state |-> "empty", plan |-> Refused("none")]
    ELSE IF s.model = Unknown /\ ~s.chat.router
         THEN [state |-> "unavailable", plan |-> Refused("model_unavailable")]
    ELSE IF plan.error \in {"limits_not_configured", "accounting_unknown", "price_unsafe"}
         THEN [state |-> "unavailable", plan |-> plan]
    ELSE IF plan.error # "none" THEN [state |-> "over_limit", plan |-> plan]
    ELSE [state |-> IF pricing = Unknown THEN "unavailable" ELSE "ready", plan |-> plan]
EstimateDraft(s, size) ==
    LET pricing == EstimatePricing(s.chat, s.model)
    IN  Shown(s, size, pricing, CalculateRequestPlan(s, size, pricing))

(* _preflight, from the checks of the budget on: the model is the catalog's  *)
(* at that moment, and a consent to pay unasked adopts its prices.           *)
PreflightRefusal(s) ==
    LET c == s.chat
        m == s.model
    IN  IF BudgetFailure(s.budget) # "none" THEN BudgetFailure(s.budget)
        ELSE IF c.router THEN "none"
        ELSE IF m = Unknown THEN "model_unavailable"
        ELSE IF c.mode = "free" THEN IF IsFreeModel(m) THEN "none" ELSE "price_unsafe"
        ELSE IF ~m.complete THEN "price_unsafe"
        ELSE IF ~c.unasked /\ ModelPriceIncreased(c, m) THEN "price_reconfirmation"
        ELSE "none"
PreflightPricing(s) ==
    IF s.chat.router THEN {Zero}
    ELSE IF s.chat.mode = "free" \/ s.chat.unasked THEN s.model.prices
    ELSE s.chat.prices
Preflight(s, size) ==
    IF PreflightRefusal(s) # "none" THEN Refused(PreflightRefusal(s))
    ELSE CalculateRequestPlan(s, size, PreflightPricing(s))

(* reconfirm_model_price, once the user has agreed to the new price.        *)
ReconfirmPrice(s) == [s EXCEPT !.chat.prices = s.model.prices]

(* Mutant: the dialog shows the new price and does not adopt it. *)
SendPlanMutant(s, size) ==
    IF PreflightRefusal(s) = "price_reconfirmation" /\ s.chat.complete
    THEN CalculateRequestPlan(s, size, s.chat.prices)
    ELSE Preflight(s, size)
\* A chat whose own prices are not known gets no dialog: there is no change to show.
SendPlan(s, size) ==
    Preflight(IF PreflightRefusal(s) = "price_reconfirmation" /\ s.chat.complete
              THEN ReconfirmPrice(s) ELSE s, size)

-----------------------------------------------------------------------------
(* Properties, of every snapshot and every text.                           *)

(* A request that passes fits everything that limits it: the tokens and the  *)
(* money of the chat, the remainder of the key, the model, and a completion  *)
(* worth asking for; and no longer completion would.                         *)
Fits(s, prompt, completion) ==
    LET pricing == IF s.chat.unasked \/ ModelPriceIncreased(s.chat, s.model)
                   THEN s.model.prices ELSE s.chat.prices
    IN  /\ completion <= CompletionCap(s.budget, s.model)
        /\ prompt + completion <= RemainingTokens(s.budget)
        /\ prompt + completion <= ContextLength(s.chat, s.model)
        /\ s.chat.mode = "paid" =>
              /\ MaxCost(pricing, prompt, completion) <= RemainingMoney(s.budget)
              /\ s.key # Unknown => MaxCost(pricing, prompt, completion) <= s.key
Largest(s, p) ==
    p.error = "none" =>
        /\ p.completion >= MinCompletion
        /\ Fits(s, p.prompt, p.completion) /\ ~Fits(s, p.prompt, p.completion + 1)
PlanIsLargest == \A s \in Snapshots, n \in Sizes : Largest(s, SendPlan(s, n))

(* Where a history may be cut, the most recent pairs that fit are kept and    *)
(* none that would have fitted is dropped.                                    *)
ContextIsLongest ==
    \A s \in Snapshots, n \in Sizes, length \in 1..RouterContext :
        LET c == SelectContext(s.history, n, length, MinCompletion, FALSE)
            tokens(i) == RequestOverhead + MessageTokens(n) + Last(s.history) - s.history[i]
        IN  IF c.fits THEN /\ c.tokens = tokens(c.start) /\ c.tokens + MinCompletion <= length
                           /\ c.start > 1 => tokens(c.start - 1) + MinCompletion > length
            ELSE tokens(Len(s.history)) + MinCompletion > length

(* What the line promises is what a send from the same data reserves, asked   *)
(* or unasked, and before or after a change of the price has been confirmed;   *)
(* it calls ready exactly what can be sent, and gives the reason otherwise.    *)
Agree(e, p) ==
    /\ e.state = "ready" <=> p.error = "none"
    /\ e.state = "ready" => e.plan = p
    /\ e.state = "over_limit" => p.error = e.plan.error \/ p.error = "price_unsafe"
QuoteOf(s, n) == Agree(EstimateDraft(s, n), SendPlan(s, n))

(* That is so unless the chat asks before it pays and its own prices are       *)
(* unknown, as those of a migrated chat are: its sends are refused for ever.   *)
QuoteHolds ==
    \A s \in Snapshots, n \in Sizes \ {0} : s.chat.complete \/ s.chat.unasked => QuoteOf(s, n)

\* Without the exception (violated, see README).
QuoteAlwaysHolds == \A s \in Snapshots, n \in Sizes \ {0} : QuoteOf(s, n)

(* The reserve covers the model's present prices: a price that has risen since *)
(* it was confirmed is not used without being asked or adopted.                *)
Covers(s, p) ==
    p.error = "none" /\ s.chat.mode = "paid" =>
        \A live \in s.model.prices : ScheduleCost(live, p.prompt, p.completion) <= p.cost

(* That is so as long as the chat confirmed one schedule: of several, the code *)
(* compares the highest price of each part, which no schedule need have.       *)
ReserveCoversPrice ==
    \A s \in Snapshots, n \in Sizes : Cardinality(s.chat.prices) = 1 => Covers(s, SendPlan(s, n))

\* Without the exception (violated, see README).
ReserveAlwaysCovers == \A s \in Snapshots, n \in Sizes : Covers(s, SendPlan(s, n))

PlanSound == PlanIsLargest /\ ContextIsLongest /\ QuoteHolds /\ ReserveCoversPrice
=============================================================================
