-------------------------- MODULE ProviderBilling --------------------------
(***************************************************************************)
(* One prompt run from its claim to its bill, while the price rules of its *)
(* model change (scan_execution_service.py, prompt_run_result_recorder.py, *)
(* pricing_service.py).  The races of recording and its quota are in       *)
(* ScanLifecycle; here is what is recorded.                                *)
(***************************************************************************)
EXTENDS ProviderAnswers

CONSTANTS
    Rates,        \* provider -> the tariffs that may be published for it
    Answers,      \* provider -> the answers that are tried
    MaxChanges

VARIABLES
    time,
    prices,    \* provider_price_rules of the run's model
    run,       \* the prompt run
    answer     \* what came back from the one call, or None

vars == <<time, prices, run, answer>>

Vendor == DOMAIN Rates

(* A tariff says what its provider's counts contain, and only a provider   *)
(* that tells its searches has a fee for them.                             *)
Price == Nat \cup {None}

Tariff(p) ==
    {r \in [rates: [TokenClass -> Price], search: Price, fee: Price,
            includesCached: BOOLEAN, includesReasoning: BOOLEAN] :
        /\ r.includesCached = (p \in {"openai", "google"})
        /\ r.includesReasoning = (p = "openai")
        /\ p = "google" => r.search = None}

BillingAssumption ==
    /\ Vendor \subseteq {"openai", "anthropic", "google", "perplexity"}
    /\ \A p \in Vendor :
          /\ \A r \in Rates[p] : r \in Tariff(p)
          /\ \A a \in Answers[p] :
                /\ a # None
                /\ a.served \in [TokenClass -> Nat]
                /\ a.actions \in Seq(STRING)
                /\ a.actions # <<>> => Classify(a.actions) # None
    /\ None \notin Int \cup {"MALFORMED_RESPONSE", "SEARCH_ERROR", "PROVIDER_CONTRACT_VIOLATION"}

Init ==
    /\ time = 1
    /\ answer = None
    /\ \E p \in Vendor :
          /\ \E configured \in BOOLEAN :
                run = [provider |-> p, configured |-> configured, status |-> "PENDING",
                       started |-> None, code |-> None, bill |-> None, searched |-> None]
          /\ \E r \in Rates[p] : prices = {[from |-> 0, to |-> None, tariff |-> r]}

(* _claim_run *)
Claim ==
    /\ run.status = "PENDING"
    /\ run' = [run EXCEPT !.status = "RUNNING", !.started = time]
    /\ UNCHANGED <<time, prices, answer>>

(* ProviderRegistry.get refuses a provider without an API key or a model. *)
Unconfigured ==
    /\ run.status = "RUNNING" /\ answer = None
    /\ ~run.configured
    /\ run' = [run EXCEPT !.status = "FAILED", !.code = "CONFIGURATION_ERROR"]
    /\ UNCHANGED <<time, prices, answer>>

(* The one POST of execute *)
Call(a) ==
    /\ run.status = "RUNNING" /\ answer = None
    /\ run.configured
    /\ answer' = a
    /\ UNCHANGED <<time, prices, run>>

InForce(t) == {r \in prices : r.from <= t /\ (r.to = None \/ t < r.to)}

(* Mutant: the rules of the moment of recording. *)
ResolveNow == InForce(time)

(* PricingService.resolve, at the time the run started *)
Resolve == InForce(run.started)

(* _record_failure: nothing billable is known. *)
Fail ==
    /\ run.status = "RUNNING" /\ run.code = None /\ answer # None
    /\ ~Billable(run.provider, answer)
    /\ run' = [run EXCEPT !.status = "FAILED", !.code = ErrorCode(run.provider, answer)]
    /\ UNCHANGED <<time, prices, answer>>

(* record, record_failure_evidence.  Two rules at once are an error of the *)
(* configuration, which leaves the run to be reconciled.                   *)
Record ==
    LET p == run.provider
        r == IF Resolve = {} THEN None ELSE (CHOOSE x \in Resolve : TRUE).tariff
        code == ErrorCode(p, answer)
    IN
    /\ run.status = "RUNNING" /\ run.code = None /\ answer # None
    /\ Billable(p, answer)
    /\ run' = IF Cardinality(Resolve) > 1
              THEN [run EXCEPT !.code = "ACCOUNTING_UNRESOLVED"]
              ELSE [run EXCEPT !.status = IF code = None THEN "SUCCEEDED" ELSE "FAILED",
                               !.code = code,
                               !.bill = Computed(p, answer, r),
                               !.searched = SearchUsed(p, answer)]
    /\ UNCHANGED <<time, prices, answer>>

(* Rules are ended and added by hand: the operators' script refuses one    *)
(* that overlaps another, the table does not, and two may be in force.     *)
Publish(tariff, ends, begins) ==
    LET closed == IF ends
                  THEN {IF r.to = None THEN [r EXCEPT !.to = time + 1] ELSE r : r \in prices}
                  ELSE prices
    IN
    /\ time <= MaxChanges
    /\ run.status \in {"PENDING", "RUNNING"}
    /\ ends \/ begins
    /\ time' = time + 1
    /\ prices' = closed \cup (IF begins THEN {[from |-> time + 1, to |-> None, tariff |-> tariff]}
                              ELSE {})
    /\ UNCHANGED <<run, answer>>

Next ==
    \/ Claim \/ Unconfigured \/ Fail \/ Record
    \/ \E a \in Answers[run.provider] : Call(a)
    \/ \E t \in Rates[run.provider], ends, begins \in BOOLEAN : Publish(t, ends, begins)

Spec == Init /\ [][Next]_vars

-----------------------------------------------------------------------------
(* Properties *)

TypeOK ==
    /\ time \in Nat
    /\ run.provider \in Vendor
    /\ run.status \in {"PENDING", "RUNNING", "SUCCEEDED", "FAILED"}
    /\ run.started \in Nat \cup {None}
    /\ run.bill # None => run.bill.source \in {"PROVIDER_REPORTED", "PRICE_RULE", "UNKNOWN"}
    /\ prices # {} /\ IsFiniteSet(prices)
    /\ \A r \in prices :
          r \in [from: Nat, to: Nat \cup {None}, tariff: Rates[run.provider]]
    /\ answer \in Answers[run.provider] \cup {None}

(* What the provider served, at a tariff: every token once, at the rate of *)
(* its class, or else of the count it is reported in; every search, and    *)
(* the request.                                                            *)
Worth(p, s, actions, r) ==
    LET rate == r.rates
        OrIn(own, container, inside) ==
            IF own # None THEN own ELSE IF inside THEN Or0(container) ELSE 0
    IN s.input * Or0(rate.input)
       + s.cached * OrIn(rate.cached, rate.input, r.includesCached)
       + s.cacheWrite * Or0(rate.cacheWrite)
       + s.output * Or0(rate.output)
       + s.reasoning * OrIn(rate.reasoning, rate.output, r.includesReasoning)
       + s.citation * Or0(rate.citation)
       + Count(actions, {"search"}) * Or0(r.search) + Or0(r.fee)

(* A cost is recorded only where it is exact: it is what the provider      *)
(* reports, or the worth of what it served at the rule in force when the   *)
(* run started, whatever was published since.  And an answer that succeeds *)
(* did search where it had to, within its bound.                           *)
BilledAsServed ==
    /\ (run.bill # None /\ run.bill.source = "PROVIDER_REPORTED")
          => run.bill.cost = answer.reported
    /\ (run.bill # None /\ run.bill.source = "PRICE_RULE") =>
          \E r \in prices :
              /\ InForce(run.started) = {r}
              /\ run.bill.cost = Worth(run.provider, answer.served, answer.actions, r.tariff)
    /\ (run.status = "SUCCEEDED" /\ run.provider \in {"openai", "anthropic"}) =>
          /\ answer.actions # <<>>
          /\ run.provider = "openai" => Len(answer.actions) <= MaxToolCalls
=============================================================================
