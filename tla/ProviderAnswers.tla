-------------------------- MODULE ProviderAnswers --------------------------
(***************************************************************************)
(* What an adapter makes of a provider's answer, and what the answer costs *)
(* (app/providers, services/scanning, services/pricing_service.py).        *)
(*                                                                         *)
(* An answer has what the provider served, which only its bill knows, and  *)
(* the way it tells: the web actions in their order, the token classes     *)
(* omitted from its usage, the cost it reports, and what is wrong with the *)
(* answer.  Money and rates are whole units per token, action or request.  *)
(***************************************************************************)
EXTENDS Integers, Sequences, FiniteSets

CONSTANTS MaxToolCalls, None

(* ProviderExecutionPolicy.target; every adapter supports its mode. *)
Mode(p) == IF p = "google" THEN "MODEL_ONLY" ELSE "WEB_GROUNDED"

(* map_transport_error, map_http_error, parse_json_response: there is no   *)
(* answer to look into, and nothing to bill.                               *)
Unanswered ==
    [timeout |-> "TIMEOUT", down |-> "PROVIDER_UNAVAILABLE", http400 |-> "INVALID_REQUEST",
     http401 |-> "AUTHENTICATION_ERROR", http429 |-> "RATE_LIMITED",
     http500 |-> "PROVIDER_UNAVAILABLE", http404 |-> "MALFORMED_RESPONSE",
     unparseable |-> "MALFORMED_RESPONSE"]

ActionType == {"search", "open_page", "find_in_page"}

Count(actions, types) == Cardinality({i \in DOMAIN actions : actions[i] \in types})

(* classify_openai_web_actions; an action of no known type is unknown.     *)
(* No web_search_call, no counts.                                          *)
Classify(actions) ==
    IF actions = <<>> THEN None
    ELSE [total        |-> Len(actions),
          search       |-> Count(actions, {"search"}),
          open_page    |-> Count(actions, {"open_page"}),
          find_in_page |-> Count(actions, {"find_in_page"}),
          unknown      |-> Len(actions) - Count(actions, ActionType)]

(* The validations of each adapter, in the order it tries them. *)
Validations(p, a) ==
    LET searched == Mode(p) # "WEB_GROUNDED" \/ a.actions # <<>>
        incomplete == <<"incomplete" \notin a.faults, "MALFORMED_RESPONSE">>
        empty == <<"empty" \notin a.faults, "MALFORMED_RESPONSE">>
        search == <<searched, "SEARCH_ERROR">>
    IN CASE p = "openai" ->
              <<incomplete, empty, search,
                <<Len(a.actions) <= MaxToolCalls, "PROVIDER_CONTRACT_VIOLATION">> >>
         [] p = "anthropic" ->
              << <<"tool" \notin a.faults, "SEARCH_ERROR">>,
                 <<"incomplete" \notin a.faults, "SEARCH_ERROR">>, search, empty>>
         [] p = "google" -> <<incomplete, empty>>
         [] p = "perplexity" -> <<empty>>

Failed(p, a) == {i \in DOMAIN Validations(p, a) : ~Validations(p, a)[i][1]}

Answered(a) == a.faults \cap DOMAIN Unanswered = {}

(* execute, through map_provider_error: the error code, or None *)
ErrorCode(p, a) ==
    IF ~Answered(a)
    THEN Unanswered[CHOOSE f \in a.faults : f \in DOMAIN Unanswered]
    ELSE IF Failed(p, a) = {} THEN None
    ELSE Validations(p, a)[CHOOSE i \in Failed(p, a) : \A j \in Failed(p, a) : i <= j][2]

(* Only the OpenAI adapter hands the evidence of a refused answer on. *)
Billable(p, a) ==
    Answered(a) /\ (Failed(p, a) = {} \/ p = "openai")

(* The classes of tokens whose counts an adapter looks for. *)
Reads ==
    [openai     |-> {"input", "cached", "cacheWrite", "output", "reasoning"},
     anthropic  |-> {"input", "cached", "cacheWrite", "output"},
     google     |-> {"input", "cached", "output", "reasoning"},
     perplexity |-> {"input", "output", "reasoning", "citation"}]

(* The usage a provider reports.  Input and output counts contain the      *)
(* cached and reasoning ones where its conventions say so.                 *)
Reported(p, a, class) ==
    LET s == a.served IN
    CASE class = "input"  -> s.input + (IF p \in {"openai", "google"} THEN s.cached ELSE 0)
      [] class = "output" -> s.output + (IF p = "openai" THEN s.reasoning ELSE 0)
      [] OTHER            -> s[class]

TokenClass == {"input", "cached", "cacheWrite", "output", "reasoning", "citation"}

(* The adapters' ProviderUsage: None is not reported, and is not zero. *)
Tokens(p, a) ==
    [c \in TokenClass |->
        IF c \in Reads[p] \ a.omitted THEN Reported(p, a, c) ELSE None]

(* search_action_count and unknown_web_action_count: from OpenAI's items,  *)
(* or the number Anthropic and Perplexity report.                          *)
Searches(p, a) ==
    IF p = "openai"
    THEN IF Classify(a.actions) = None THEN None ELSE Classify(a.actions).search
    ELSE IF p = "google" \/ "searches" \in a.omitted THEN None
    ELSE Count(a.actions, {"search"})

UnknownActions(p, a) ==
    IF p = "openai" /\ a.actions # <<>> THEN Classify(a.actions).unknown ELSE 0

SearchUsed(p, a) == p = "perplexity" \/ (p # "google" /\ a.actions # <<>>)

-----------------------------------------------------------------------------
(* ProviderCostCalculator *)

Or0(x) == IF x = None THEN 0 ELSE x

(* _known_for_rate *)
Known(tokens, rate) == IF rate = None THEN tokens \in {None, 0} ELSE tokens # None

Exact(p, a, r) ==
    LET t == Tokens(p, a) IN
    /\ \A c \in TokenClass : Known(t[c], r.rates[c])
    /\ r.includesCached => Or0(t.cached) <= Or0(t.input)
    /\ r.includesReasoning => Or0(t.reasoning) <= Or0(t.output)
    /\ UnknownActions(p, a) = 0
    /\ r.search # None /\ SearchUsed(p, a) => Searches(p, a) # None

(* Mutant: the tariff of every web tool call. *)
SearchFeeOfCalls(p, a, r) == Len(a.actions) * Or0(r.search)

SearchFee(p, a, r) == Or0(Searches(p, a)) * Or0(r.search)

(* _calculate_local_from_usage *)
Cost(p, a, r) ==
    LET t == [c \in TokenClass |-> Or0(Tokens(p, a)[c])]
        rate == [c \in TokenClass |-> Or0(r.rates[c])]
        input == t.input - (IF r.includesCached THEN t.cached ELSE 0)
        output == t.output - (IF r.includesReasoning /\ r.rates.reasoning # None
                              THEN t.reasoning ELSE 0)
    IN input * rate.input + t.cached * rate.cached + t.cacheWrite * rate.cacheWrite
       + output * rate.output + t.reasoning * rate.reasoning + t.citation * rate.citation
       + SearchFee(p, a, r) + Or0(r.fee)

Bill(cost, source) == [cost |-> cost, source |-> source]

(* calculate, calculate_failure: what a provider says it charges comes     *)
(* first; a failure says nothing of it.  Nothing is guessed.               *)
Computed(p, a, r) ==
    LET money == IF Failed(p, a) = {} /\ p = "perplexity" THEN a.reported ELSE None IN
    IF money # None /\ money >= 0 THEN Bill(money, "PROVIDER_REPORTED")
    ELSE IF r # None /\ Exact(p, a, r) THEN Bill(Cost(p, a, r), "PRICE_RULE")
    ELSE Bill(None, "UNKNOWN")
=============================================================================
