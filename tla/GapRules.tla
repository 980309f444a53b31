------------------------------ MODULE GapRules ------------------------------
(***************************************************************************)
(* What the evidence of a scan says about the brand and a competitor       *)
(* (app/services/competitor_explanation_service.py), which opportunities   *)
(* that makes (action_generation_service.py, core/action_engine.py), which *)
(* cells a verification measures again (core/verification_scope.py) and    *)
(* what its evidence decides (verification_evaluation_service.py).         *)
(*                                                                         *)
(* The runs of a scan are a function on its cells, one per prompt and      *)
(* provider.  A rate is an integer number of 1/10000 percentage points, as *)
(* the code's Decimals of four places are.                                 *)
(***************************************************************************)
EXTENDS Integers, FiniteSets, Sequences

CONSTANTS
    Prompts,        \* prompt id (a number, ids are ordered) -> [type, funnel, commercial]
    Competitors,    \* the competitor snapshots by ordinal, a sequence
    Threshold,      \* core/action_engine.py and verification_engine.py
    None

Entity == {"brand"} \cup {Competitors[i] : i \in DOMAIN Competitors}

(* An observation of a run: did it succeed, whom does the answer mention,  *)
(* whose sources does it cite.                                             *)
Observation == [ok : BOOLEAN, mentions : SUBSET Entity, cited : SUBSET Entity]

-----------------------------------------------------------------------------
(* CompetitorExplanationService *)

(* A percentage to four places, ROUND_HALF_UP. *)
Pct(n, d) == IF d = 0 THEN None ELSE (2000000 * n + d) \div (2 * d)

Difference(a, b) == IF None \in {a, b} THEN None ELSE a - b

AnyFilter == [provider |-> None, prompt |-> None, mode |-> None]

Passes(cell, f) ==
    /\ Prompts[cell.prompt].type = "NON_BRANDED"
    /\ f.provider \in {None, cell.provider}
    /\ f.prompt \in {None, cell.prompt}
    /\ f.mode \in {None, cell.mode}

Planned(runs, f) == {cell \in DOMAIN runs : Passes(cell, f)}
Succeeded(runs, f) == {cell \in Planned(runs, f) : runs[cell].ok}
Eligible(runs, f) == {cell \in Succeeded(runs, f) : cell.mode = "WEB_GROUNDED"}

Mentioned(runs, f, e) == {cell \in Succeeded(runs, f) : e \in runs[cell].mentions}
Cited(runs, f, e) == {cell \in Eligible(runs, f) : e \in runs[cell].cited}

CompetitorOnly(runs, f, c) == Mentioned(runs, f, c) \ Mentioned(runs, f, "brand")

(* get_explanation, for the cells a filter lets through *)
Explanation(runs, f, c) ==
    LET successful == Cardinality(Succeeded(runs, f))
        eligible   == Cardinality(Eligible(runs, f))
        Visibility(e) == Pct(Cardinality(Mentioned(runs, f, e)), successful)
        CitationRate(e) == Pct(Cardinality(Cited(runs, f, e)), eligible)
    IN [successful   |-> successful,
        coverage     |-> Pct(successful, Cardinality(Planned(runs, f))),
        brand        |-> Visibility("brand"),
        gap          |-> Difference(Visibility(c), Visibility("brand")),
        eligible     |-> eligible,
        brandCited   |-> CitationRate("brand"),
        citationGap  |-> Difference(CitationRate(c), CitationRate("brand")),
        onlyRate     |-> Pct(Cardinality(CompetitorOnly(runs, f, c)), successful)]

(* _compute_provider_breakdown explains the cells of each provider, in the *)
(* order of their names.                                                   *)
Providers(runs) == {cell.provider : cell \in DOMAIN runs}
OfProvider(p) == [AnyFilter EXCEPT !.provider = p]
ProviderRank == [anthropic |-> 1, google |-> 2, openai |-> 3, perplexity |-> 4]

(* _compute_prompt_gaps: the prompts some answer to which mentions the     *)
(* competitor and not the brand, the most commercial first.                *)
GapCells(runs, c, prompt) ==
    {cell \in CompetitorOnly(runs, AnyFilter, c) : cell.prompt = prompt}

GapPrompts(runs, c) == {cell.prompt : cell \in CompetitorOnly(runs, AnyFilter, c)}

AffectedProviders(runs, c, prompt) == {cell.provider : cell \in GapCells(runs, c, prompt)}

FunnelRank == [PURCHASE |-> 0, CONSIDERATION |-> 1, AWARENESS |-> 2]

SortKey(runs, c, prompt) ==
    <<FunnelRank[Prompts[prompt].funnel],
      IF Prompts[prompt].commercial THEN 0 ELSE 1,
      - Cardinality(AffectedProviders(runs, c, prompt)),
      prompt>>

Before(a, b) ==
    \E i \in DOMAIN a : a[i] < b[i] /\ \A j \in 1 .. i - 1 : a[j] = b[j]

(* What a sort of pairs <<key, value>> by their keys puts first, at most n.*)
First(n, keyed) ==
    {l[2] : l \in {k \in keyed : Cardinality({m \in keyed : Before(m[1], k[1])}) < n}}

PromptGaps(runs, c) ==
    First(Threshold.maxPromptOpportunities,
          {<<SortKey(runs, c, p), p>> : p \in GapPrompts(runs, c)})

-----------------------------------------------------------------------------
(* ActionGenerationService: the rules.  A fingerprint is the type, the     *)
(* competitor, and the provider or prompt it is about.                     *)

Fingerprint(type, c, provider, prompt) ==
    [type |-> type, competitor |-> c, provider |-> provider, prompt |-> prompt]

Priority(gap, high) == IF gap >= high THEN "HIGH" ELSE "MEDIUM"

Detected(fingerprint, priority) == {[fingerprint |-> fingerprint, priority |-> priority]}

AtLeast(value, threshold) == value # None /\ value >= threshold

DiscoveryGap(x, c) ==
    IF /\ x.successful >= Threshold.minGlobalSuccessful
       /\ AtLeast(x.gap, Threshold.minDiscoveryGap)
    THEN Detected(Fingerprint("DISCOVERY_VISIBILITY_GAP", c, None, None),
                  Priority(x.gap, Threshold.highDiscoveryGap))
    ELSE {}

ProviderGap(x, c, p) ==
    IF /\ x.successful >= Threshold.minProviderSuccessful
       /\ AtLeast(x.gap, Threshold.minProviderGap)
    THEN Detected(Fingerprint("PROVIDER_VISIBILITY_GAP", c, p, None),
                  Priority(x.gap, Threshold.highProviderGap))
    ELSE {}

CitationGap(x, c) ==
    IF /\ x.eligible >= Threshold.minCitationEligible
       /\ AtLeast(x.citationGap, Threshold.minCitationGap)
    THEN Detected(Fingerprint("OWNED_CITATION_GAP", c, None, None),
                  Priority(x.citationGap, Threshold.highCitationGap))
    ELSE {}

PromptPriority(runs, c, prompt) ==
    LET purchase  == Prompts[prompt].funnel = "PURCHASE"
        considers == Prompts[prompt].funnel = "CONSIDERATION"
        several   == Cardinality(AffectedProviders(runs, c, prompt)) >= 2
    IN IF purchase /\ Prompts[prompt].commercial /\ several THEN "HIGH"
       ELSE IF purchase \/ (considers /\ Prompts[prompt].commercial) \/ several
            THEN "MEDIUM" ELSE "LOW"

PromptGap(runs, c, prompt) ==
    Detected(Fingerprint("PROMPT_COMPETITOR_GAP", c, None, prompt),
             PromptPriority(runs, c, prompt))

DetectedFor(runs, c) ==
    LET x == Explanation(runs, AnyFilter, c) IN
    DiscoveryGap(x, c) \cup CitationGap(x, c)
    \cup (UNION {ProviderGap(Explanation(runs, OfProvider(p), c), c, p) :
                    p \in Providers(runs)})
    \cup (UNION {PromptGap(runs, c, prompt) : prompt \in PromptGaps(runs, c)})

(* Where refresh_from_scan has come to when it appends a detection: the    *)
(* competitors in turn, rule by rule.                                      *)
Rank(runs, o) ==
    LET i == CHOOSE k \in DOMAIN Competitors : Competitors[k] = o.competitor IN
    CASE o.type = "DISCOVERY_VISIBILITY_GAP" -> <<i, 1, 0, 0, 0, 0>>
      [] o.type = "PROVIDER_VISIBILITY_GAP" -> <<i, 2, ProviderRank[o.provider], 0, 0, 0>>
      [] o.type = "OWNED_CITATION_GAP" -> <<i, 3, 0, 0, 0, 0>>
      [] o.type = "PROMPT_COMPETITOR_GAP" -> <<i, 4>> \o SortKey(runs, o.competitor, o.prompt)

(* refresh_from_scan: what the rules find, and the cap on it. *)
Detection(runs) ==
    First(Threshold.maxOpportunities,
          {<<Rank(runs, d.fingerprint), d>> :
              d \in UNION {DetectedFor(runs, Competitors[i]) : i \in DOMAIN Competitors}})

-----------------------------------------------------------------------------
(* VerificationScopeResolver *)

CellInScope(o, cell) ==
    CASE o.type = "PROMPT_COMPETITOR_GAP" -> cell.prompt = o.prompt
      [] o.type # "PROMPT_COMPETITOR_GAP" ->
            /\ Prompts[cell.prompt].type = "NON_BRANDED"
            /\ o.type = "PROVIDER_VISIBILITY_GAP" => cell.provider = o.provider
            /\ o.type = "OWNED_CITATION_GAP" => cell.mode = "WEB_GROUNDED"

Scope(o, runs) == {cell \in DOMAIN runs : CellInScope(o, cell)}

-----------------------------------------------------------------------------
(* VerificationEvaluationService *)

(* Mutant: the baseline is explained without the scope of the opportunity. *)
FilterNothing(o) == AnyFilter

(* _compute_explanation: the filters that mirror the scope. *)
Filter(o) ==
    [provider |-> IF o.type = "PROVIDER_VISIBILITY_GAP" THEN o.provider ELSE None,
     prompt   |-> IF o.type = "PROMPT_COMPETITOR_GAP" THEN o.prompt ELSE None,
     mode     |-> IF o.type = "OWNED_CITATION_GAP" THEN "WEB_GROUNDED" ELSE None]

(* _resolve_metric_config: the metric, below what it counts as resolved,   *)
(* and by how much it has to move.                                         *)
Metric(o) ==
    CASE o.type = "DISCOVERY_VISIBILITY_GAP" ->
            [name |-> "gap", resolved |-> Threshold.minDiscoveryGap,
             moved |-> Threshold.visibilityImprovement]
      [] o.type = "PROVIDER_VISIBILITY_GAP" ->
            [name |-> "gap", resolved |-> Threshold.minProviderGap,
             moved |-> Threshold.visibilityImprovement]
      [] o.type = "OWNED_CITATION_GAP" ->
            [name |-> "citationGap", resolved |-> Threshold.minCitationGap,
             moved |-> Threshold.citationImprovement]
      [] o.type = "PROMPT_COMPETITOR_GAP" ->
            [name |-> "onlyRate", resolved |-> 1,
             moved |-> Threshold.promptGapImprovement]

(* Mutant: the brand's citations may have become fewer. *)
BrandSafeguardUncited(o, base, now) ==
    CASE o.type \in {"DISCOVERY_VISIBILITY_GAP", "PROVIDER_VISIBILITY_GAP"} ->
            AtLeast(now.brand, 1) /\ (base.brand = None \/ now.brand >= base.brand)
      [] o.type = "OWNED_CITATION_GAP" -> TRUE
      [] o.type = "PROMPT_COMPETITOR_GAP" -> AtLeast(now.brand, 1)

(* _brand_safeguard_passes *)
BrandSafeguard(o, base, now) ==
    CASE o.type \in {"DISCOVERY_VISIBILITY_GAP", "PROVIDER_VISIBILITY_GAP"} ->
            AtLeast(now.brand, 1) /\ (base.brand = None \/ now.brand >= base.brand)
      [] o.type = "OWNED_CITATION_GAP" ->
            /\ AtLeast(now.brandCited, 1)
            /\ base.brandCited = None \/ now.brandCited >= base.brandCited
      [] o.type = "PROMPT_COMPETITOR_GAP" -> AtLeast(now.brand, 1)

(* The gates before any comparison, in the order evaluate tries them: the  *)
(* reason of the first one that refuses, or None.                          *)
Gate(o, base, now) ==
    LET citation == o.type = "OWNED_CITATION_GAP"
        gates == <<
          <<AtLeast(now.coverage, Threshold.minCoverage), "INSUFFICIENT_COVERAGE">>,
          <<now.successful # 0, "NO_SUCCESSFUL_OBSERVATIONS">>,
          <<base.successful # 0, "NO_SUCCESSFUL_OBSERVATIONS">>,
          <<AtLeast(base.coverage, Threshold.minCoverage), "INSUFFICIENT_BASELINE_COVERAGE">>,
          <<citation => base.eligible >= Threshold.minCitationEligible,
            "INSUFFICIENT_CITATION_EVIDENCE">>,
          <<citation => now.eligible >= Threshold.minCitationEligible,
            "INSUFFICIENT_CITATION_EVIDENCE">> >>
        shut == {i \in DOMAIN gates : ~gates[i][1]}
    IN IF shut = {} THEN None
       ELSE gates[CHOOSE i \in shut : \A j \in shut : i <= j][2]

(* Mutant: the threshold itself counts as resolved. *)
BelowThresholdOrOn(o, value) ==
    IF Metric(o).name = "onlyRate" THEN value = 0 ELSE value <= Metric(o).resolved

BelowThreshold(o, value) ==
    IF Metric(o).name = "onlyRate" THEN value = 0 ELSE value < Metric(o).resolved

(* _decide_outcome, where the gates let both sides through *)
Decide(o, base, now) ==
    LET metric == Metric(o)
        before == base[metric.name]
        value  == now[metric.name]
    IN CASE value = None -> "INCONCLUSIVE"
         [] value # None /\ BelowThreshold(o, value) ->
               IF BrandSafeguard(o, base, now) THEN "RESOLVED" ELSE "NOT_IMPROVED"
         [] value # None /\ ~BelowThreshold(o, value) ->
               CASE before = None -> "INCONCLUSIVE"
                 [] before # None /\ before - value >= metric.moved -> "IMPROVED"
                 [] before # None /\ value - before >= metric.moved -> "REGRESSED"
                 [] OTHER -> "NOT_IMPROVED"

(* evaluate, on the runs of the baseline scan and of the verification scan *)
Evaluation(o, baseline, measured) ==
    LET base == Explanation(baseline, Filter(o), o.competitor)
        now  == Explanation(measured, Filter(o), o.competitor)
        why  == Gate(o, base, now)
        outcome == Decide(o, base, now)
    IN IF why # None THEN [outcome |-> "INCONCLUSIVE", reason |-> why]
       ELSE [outcome |-> outcome,
             reason |-> IF outcome = "INCONCLUSIVE" THEN "BASELINE_EVIDENCE_UNAVAILABLE"
                        ELSE None]
=============================================================================
