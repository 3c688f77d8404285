------------------------------ MODULE CostLedger ----------------------------
(***************************************************************************)
(* ai_cost_logs: the calls of the language model that fill it, the price   *)
(* of a call, and the roll-ups an operator reads.  A call writes its row   *)
(* on the context of its caller, after the model has answered.             *)
(***************************************************************************)
EXTENDS DayClock, Sequences, FiniteSets, Functions

CONSTANTS
    Callers,            \* features that ask the model, each at most one call at a time
    Payer,              \* the learner a call is made for
    Routes,             \* endpointRouting: an operation's own deployment, where one is configured
    ReviewEndpoint,     \* the deployment of every other operation
    Operations,
    Serves,             \* external: the model behind each deployment, as the vendor names it
    Usages,             \* pairs of prompt and output tokens
    ArkPricing,         \* the price table: model -> [input, output], per million tokens
    EndpointToModel,    \* deployments mapped by hand
    FamilyOf,           \* the family a model's name suggests, or None
    KeyRank,            \* where the name of a task or a model stands in the order of strings
    Million,
    MaxSummaryWindow,
    MaxSummaryRows      \* the buckets of one answer

VARIABLES
    ledger,    \* ai_cost_logs
    ask        \* the calls under way

ledgerVars == <<ledger, ask>>

-----------------------------------------------------------------------------
Groups == {"task_type", "model", "day"}

Log(user, task, model, tokensIn, tokensOut, chars, cost) ==
    [user |-> user, anonymized |-> None, task |-> task, model |-> model, tokensIn |-> tokensIn,
     tokensOut |-> tokensOut, chars |-> chars, cost |-> cost, at |-> now]

LedgerTypeOK ==
    /\ \A k \in DOMAIN ledger :
         /\ ledger[k].cost \in Nat /\ ledger[k].at \in 0 .. now
         /\ {ledger[k].user, ledger[k].anonymized} \subseteq {Payer, None}
    /\ DOMAIN ask = Callers

LedgerInit == ledger = <<>> /\ ask = [c \in Callers |-> None]

-----------------------------------------------------------------------------
(* The price of a call *)

\* ConfigurePricing refuses a rate of zero, and a table without a model.
ASSUME PricingAssumption ==
    /\ Million \in Nat \ {0} /\ MaxSummaryWindow \in Nat \ {0} /\ MaxSummaryRows \in Nat \ {0}
    /\ DOMAIN ArkPricing # {}
    /\ \A m \in DOMAIN ArkPricing : ArkPricing[m].input \in Nat \ {0} /\ ArkPricing[m].output \in Nat \ {0}

\* The vendor counts tokens.
ASSUME UsageAssumption == Usages \subseteq Nat \X Nat

\* The name the table is asked for: the model behind a deployment, the model, or else its family.
PricedAs(model) ==
    IF model \in DOMAIN EndpointToModel THEN EndpointToModel[model]
    ELSE IF model \in DOMAIN ArkPricing THEN model
    ELSE FamilyOf[model]

CalculateCostMicroYuan(model, tokensIn, tokensOut) ==
    LET price == ArkPricing[PricedAs(model)]
        total == (tokensIn * price.input + tokensOut * price.output) \div Million IN
    IF tokensIn + tokensOut = 0 \/ PricedAs(model) \notin DOMAIN ArkPricing THEN 0
    ELSE IF total = 0 THEN 1 ELSE total

endpointFor(operation) == IF operation \in DOMAIN Routes THEN Routes[operation] ELSE ReviewEndpoint

-----------------------------------------------------------------------------
(* A call of the model *)

Record(log) == ledger' = Append(ledger, log)

Complete(c, operation, user) ==
    /\ ask[c] = None /\ Spend("models")
    /\ ask' = [ask EXCEPT ![c] = [pc |-> "ask", operation |-> operation, user |-> user, gone |-> FALSE,
                                  usage |-> <<0, 0>>]]
    /\ UNCHANGED ledger

\* The caller's budget runs out, or its client disconnects.
CallerGivesUp(c) ==
    /\ ask[c] # None /\ ~ask[c].gone
    /\ ask' = [ask EXCEPT ![c].gone = TRUE]
    /\ UNCHANGED <<clockVars, ledger>>

ModelAnswers(c, usage) ==
    /\ ask[c] # None /\ ask[c].pc = "ask" /\ ~ask[c].gone
    /\ ask' = [ask EXCEPT ![c].pc = "write", ![c].usage = usage]
    /\ UNCHANGED <<clockVars, ledger>>

\* No answer, an error status, a body that does not parse or has no choice in it: no row.
CompletionFails(c) ==
    /\ ask[c] # None /\ ask[c].pc = "ask"
    /\ IF ask[c].gone THEN UNCHANGED clockVars ELSE Fault
    /\ ask' = [ask EXCEPT ![c] = None]
    /\ UNCHANGED ledger

\* The row is priced and written; MySQL refuses a statement whose context is done, and the failure
\* only moves a counter.
WriteCost(c, store) ==
    LET r == ask[c]
        model == Serves[endpointFor(r.operation)] IN
    /\ r # None /\ r.pc = "write"
    /\ IF r.gone /\ store = "mysql" THEN UNCHANGED ledger
       ELSE Record(Log(r.user, r.operation, model, r.usage[1], r.usage[2], 0,
                       CalculateCostMicroYuan(model, r.usage[1], r.usage[2])))
    /\ ask' = [ask EXCEPT ![c] = None]
    /\ UNCHANGED clockVars

WriteCostFails(c) ==
    /\ ask[c] # None /\ ask[c].pc = "write" /\ Fault
    /\ ask' = [ask EXCEPT ![c] = None]
    /\ UNCHANGED ledger

-----------------------------------------------------------------------------
(* Deletion of the account's data, and its compensation *)

AnonymizeUser(user) ==
    /\ Spend("anonymize")
    /\ ledger' = [k \in DOMAIN ledger |-> IF ledger[k].user = user
                                          THEN [ledger[k] EXCEPT !.anonymized = user, !.user = None] ELSE ledger[k]]
    /\ UNCHANGED ask

RestoreUser(user) ==
    /\ Spend("anonymize")
    /\ ledger' = [k \in DOMAIN ledger |-> IF ledger[k].anonymized = user
                                          THEN [ledger[k] EXCEPT !.user = user, !.anonymized = None] ELSE ledger[k]]
    /\ UNCHANGED ask

-----------------------------------------------------------------------------
(* The roll-ups *)

summaryKey(log, groupBy) ==
    CASE groupBy = "model" -> log.model
      [] groupBy = "day" -> utcDate(log.at)
      [] OTHER -> log.task

\* Mutant: both ends of the window belong to it.
SelectedThrough(user, since, until) ==
    {k \in DOMAIN ledger : (user = None \/ ledger[k].user = user) /\ since <= ledger[k].at /\ ledger[k].at <= until}

\* The window is half open.
Selected(user, since, until) ==
    {k \in DOMAIN ledger : (user = None \/ ledger[k].user = user) /\ since <= ledger[k].at /\ ledger[k].at < until}

SummarizeCosts(user, since, until, groupBy) ==
    LET rows == Selected(user, since, until)
        bucket(key) == {k \in rows : summaryKey(ledger[k], groupBy) = key}
        total(field, S) == SumFunctionOnSet([k \in DOMAIN ledger |-> ledger[k][field]], S) IN
    [key \in {summaryKey(ledger[k], groupBy) : k \in rows} |->
        [rows |-> Cardinality(bucket(key)),
         tokensIn |-> total("tokensIn", bucket(key)),
         tokensOut |-> total("tokensOut", bucket(key)),
         chars |-> total("chars", bucket(key)),
         cost |-> total("cost", bucket(key))]]

\* The answer is sorted by key.
KeyBefore(a, b, groupBy) == IF groupBy = "day" THEN a < b ELSE KeyRank[a] < KeyRank[b]

\* rows[:maxSummaryRows]: what comes after is left out, and the answer does not say so.
FirstBuckets(summary, groupBy) ==
    LET before(a, b) == KeyBefore(a, b, groupBy)
        keys == First(MaxSummaryRows, Ordered(DOMAIN summary, before)) IN
    Restrict(summary, {keys[k] : k \in DOMAIN keys})

\* An empty window, or one that is too wide, is refused.
Summary(user, since, until, groupBy) ==
    LET all == SummarizeCosts(user, since, until, groupBy) IN
    IF since >= until \/ until - since > MaxSummaryWindow THEN None
    ELSE IF Cardinality(DOMAIN all) > MaxSummaryRows THEN FirstBuckets(all, groupBy) ELSE all

-----------------------------------------------------------------------------
(* Properties *)

Add(field, summary) == SumFunction([key \in DOMAIN summary |-> summary[key][field]])

\* A window that is accepted has no more dates than an answer has buckets: 180 days against 500.
ASSUME DaysFit ==
    \A since, until \in 0 .. MaxNow + 1 :
        until - since <= MaxSummaryWindow => Cardinality({utcDate(t) : t \in since .. until - 1}) <= MaxSummaryRows

\* The answer has room for the buckets of the window.
Fits(user, since, until, groupBy) ==
    groupBy = "day" \/ Cardinality({summaryKey(ledger[k], groupBy) : k \in Selected(user, since, until)}) <= MaxSummaryRows

\* Wherever a window of the ledger is cut in two, every row in it counts exactly once, rolled up by
\* day always, by task or model when the buckets fit an answer: rows stamped on a boundary, at
\* midnight or at the end of the window, rows of a learner whose data was deleted, and rows without
\* a price.
SummaryAddsUp ==
    ledger # <<>> => \A since, cut, until \in 0 .. now + 1, g, h \in Groups :
        since < cut /\ cut < until /\ until - since <= MaxSummaryWindow =>
            \A user \in {None, Payer} :
                LET whole == Summary(user, since, until, g)
                    left == Summary(user, since, cut, h)
                    right == Summary(user, cut, until, h) IN
                Fits(user, since, until, g) /\ Fits(user, since, cut, h) /\ Fits(user, cut, until, h) =>
                    /\ Add("rows", whole) = Add("rows", left) + Add("rows", right)
                    /\ Add("cost", whole) = Add("cost", left) + Add("cost", right)

-----------------------------------------------------------------------------
\* A roll-up by task or by model is as complete as one by day.  TLC refutes it: the buckets beyond
\* the answer's limit are dropped (Service.Summary).
SummariesAgree ==
    \A since, until \in 0 .. now + 1, g, h \in Groups :
        since < until /\ until - since <= MaxSummaryWindow =>
            Add("rows", Summary(None, since, until, g)) = Add("rows", Summary(None, since, until, h))
=============================================================================
