---------------------------- MODULE MCComponents ----------------------------
(***************************************************************************)
(* Small instances of the components, for TLC.                             *)
(***************************************************************************)
EXTENDS Components, TLC

HighFound ==
    [high_found |-> [kind |-> "opportunity", priority |-> "HIGH", firstDetected |-> TRUE,
                     refreshed |-> TRUE]]

(* The switches a user may choose. *)
UserPreferences ==
    {{"email_enabled", "high_priority_opportunities"}, {"high_priority_opportunities"}}

(* Three answers of a scan: a purchase prompt asked of two providers, one  *)
(* of them without the web, and a broader prompt.  The third names the     *)
(* brand, and is asked by nothing that looks for gaps.                     *)
Questions ==
    <<[type |-> "NON_BRANDED", funnel |-> "PURCHASE", commercial |-> TRUE],
      [type |-> "NON_BRANDED", funnel |-> "AWARENESS", commercial |-> FALSE],
      [type |-> "BRANDED", funnel |-> "CONSIDERATION", commercial |-> FALSE]>>

Cells ==
    {[prompt |-> 1, provider |-> "openai", mode |-> "WEB_GROUNDED"],
     [prompt |-> 1, provider |-> "google", mode |-> "MODEL_ONLY"],
     [prompt |-> 2, provider |-> "openai", mode |-> "WEB_GROUNDED"]}

Replies ==
    {[ok |-> FALSE, mentions |-> {}, cited |-> {}],
     [ok |-> TRUE, mentions |-> {}, cited |-> {}],
     [ok |-> TRUE, mentions |-> {"brand"}, cited |-> {}],
     [ok |-> TRUE, mentions |-> {"rival"}, cited |-> {"rival"}],
     [ok |-> TRUE, mentions |-> {"brand", "rival"}, cited |-> {"brand", "rival"}]}

(* The code's thresholds ask for 10 and more observations; these, with     *)
(* three, so that every rule can fire, and be met exactly.                 *)
Scaled ==
    [minGlobalSuccessful |-> 2, minDiscoveryGap |-> 500000, highDiscoveryGap |-> 1000000,
     minProviderSuccessful |-> 1, minProviderGap |-> 500000, highProviderGap |-> 1000000,
     minCitationEligible |-> 1, minCitationGap |-> 500000, highCitationGap |-> 1000000,
     maxPromptOpportunities |-> 1, maxOpportunities |-> 4,
     visibilityImprovement |-> 250000, citationImprovement |-> 250000,
     promptGapImprovement |-> 500000, minCoverage |-> 600000]

(* A plan with everything, and the one the workspace may fall back to. *)
Offers ==
    {[projects |-> 1, keywords |-> 1, competitors |-> 1,
      providers |-> {"openai", "perplexity"}, confidence |-> TRUE, verification |-> TRUE],
     [projects |-> 0, keywords |-> 1, competitors |-> 1,
      providers |-> {"openai"}, confidence |-> FALSE, verification |-> FALSE]}

Rivals == <<"rival">>

(* What the providers charge: rates of a token, of a search and a request, *)
(* and whether cached and reasoning tokens are part of the input and       *)
(* output counts.                                                          *)
Tariff(rates, search, fee, includesCached, includesReasoning) ==
    [rates |-> rates @@ [c \in {"cached", "cacheWrite", "reasoning", "citation"} |-> None],
     search |-> search, fee |-> fee, includesCached |-> includesCached,
     includesReasoning |-> includesReasoning]

ListPrices ==
    [openai |->
        {Tariff([input |-> 5, output |-> 7, cached |-> 1, reasoning |-> 7], 20, None, TRUE, TRUE),
         Tariff([input |-> 6, output |-> 8, cached |-> 2], 30, None, TRUE, TRUE)},
     anthropic |->
        {Tariff([input |-> 5, output |-> 7, cached |-> 1, cacheWrite |-> 2], 20, None, FALSE, FALSE)},
     google |->
        {Tariff([input |-> 5, output |-> 7, cached |-> 1, reasoning |-> 3], None, None, TRUE, FALSE)},
     perplexity |->
        {Tariff([input |-> 5, output |-> 7, reasoning |-> 3, citation |-> 2], 20, 1, FALSE, FALSE)}]

NoPrices == <<>>

(* Answers that are served with and without cached and reasoning tokens,   *)
(* after every kind of web action, told in full or in part; those that are *)
(* broken in each way the adapters know; and those that report a cost.     *)
Tokens(cached, cacheWrite, reasoning, citation) ==
    [input |-> 2, output |-> 2, cached |-> cached, cacheWrite |-> cacheWrite,
     reasoning |-> reasoning, citation |-> citation]

Searches ==
    {<<>>, <<"search">>, <<"open_page">>, <<"other">>, <<"search", "open_page">>,
     <<"search", "search">>, <<"search", "open_page", "search">>}

Told ==
    [faults: {{}}, actions: Searches, reported: {None},
     omitted: {{}, {"cached", "searches", "reasoning"}, {"output"}},
     served: {Tokens(c, 0, r, 0) : c, r \in {0, 1}} \cup {Tokens(0, 1, 0, 1)}]

Broken ==
    [faults: {{f} : f \in {"timeout", "down", "http400", "http401", "http404", "http429",
                           "http500", "unparseable", "incomplete", "empty", "tool"}}
             \cup {{"incomplete", "empty"}},
     actions: Searches, reported: {None}, omitted: {{}}, served: {Tokens(1, 0, 0, 0)}]

Reporting ==
    [faults: {{}}, actions: {<<"search">>}, reported: {-1, 3}, omitted: {{}},
     served: {Tokens(0, 0, 0, 0)}]

ServedAnswers ==
    [p \in {"openai", "anthropic", "google", "perplexity"} |->
        Told \cup Broken \cup (IF p = "perplexity" THEN Reporting ELSE {})]

LiveAnswers ==
    LET Given(faults, actions) ==
            [faults: faults, actions: actions, reported: {None}, omitted: {{}},
             served: {Tokens(0, 0, 0, 0)}]
    IN Given({{}}, {<<>>, <<"search">>, <<"open_page">>, <<"search", "other">>,
                   <<"search", "open_page", "search">>})
       \cup Given({{"empty"}, {"timeout"}, {"http429"}, {"unparseable"}},
                 {<<>>, <<"search">>})

(* CONFIDENCE scans of one or two providers and up to five rounds. *)
Repeated(prompts, providers, rounds, replies) ==
    [plan |-> {[prompt |-> q, provider |-> p, round |-> n,
                mode |-> IF p = "google" THEN "MODEL_ONLY" ELSE "WEB_GROUNDED"] :
                  q \in prompts, p \in providers, n \in 1 .. rounds},
     repeats |-> rounds, answers |-> replies]

Disagreeing ==
    {[ok |-> FALSE, mentions |-> {}, cited |-> {}],
     [ok |-> TRUE, mentions |-> {"brand"}, cited |-> {"rival"}],
     [ok |-> TRUE, mentions |-> {"rival"}, cited |-> {"brand"}]}

Repetitions ==
    {Repeated({1}, {"openai", "google"}, 2, Replies),
     Repeated({1}, {"openai", "google"}, 3, Disagreeing),
     Repeated({1, 2}, {"openai"}, 2, Disagreeing),
     Repeated({2, 3}, {"openai", "google"}, 1, Disagreeing),
     Repeated({1}, {"openai"}, 5, Replies)}

Alphabet == [brand |-> 2, rival |-> 1]

(* The second keyword has the competitor's name in it. *)
Named == {<<"k2", "c1">>}

(* Keys and requesters are interchangeable, where it saves the most. *)
Symmetry == Permutations(Key) \cup Permutations(Requester)
=============================================================================
