------------------------------ MODULE Metrics ------------------------------
(***************************************************************************)
(* What the dashboards show of an analysed scan: its visibility            *)
(* (visibility_metrics_service.py) and, for a CONFIDENCE scan, how far its *)
(* repeats agree (confidence_metrics_service.py).  Both are computed from  *)
(* the runs on every request, by code of their own; the cells of a scan    *)
(* here also have the round they are run in.  How many sources of an       *)
(* answer an entity owns, and the shares of them, are left out.            *)
(***************************************************************************)
EXTENDS GapRules

INSTANCE FiniteSetsExt

CONSTANTS
    Trials,     \* scans that are tried: [plan, repeats, answers]
    NameRank    \* entity -> where its name comes in the alphabet

VARIABLES trial, observed

vars == <<trial, observed>>

(* A rate of four decimals tells any two counts of a million or fewer      *)
(* apart; the largest plan of scripts/seed_plans.py pays for 10000 answers *)
(* a month, about 51 entities.                                             *)
MetricAssumption ==
    /\ IsFiniteSet(Entity)
    /\ None \notin Int
    /\ \A t \in Trials :
          /\ IsFiniteSet(t.plan)
          /\ Cardinality(t.plan) * Cardinality(Entity) <= 1000000
          /\ \A cell \in t.plan : cell.provider # None

Init == trial \in Trials /\ observed = None

(* The scan ends with an answer in some cell, and is analysed. *)
Analysed ==
    /\ observed = None
    /\ \E runs \in [trial.plan -> trial.answers] :
          /\ \E cell \in trial.plan : runs[cell].ok
          /\ observed' = runs
    /\ UNCHANGED trial

Next == Analysed

Spec == Init /\ [][Next]_vars

-----------------------------------------------------------------------------
(* What both services begin with: the cells of a prompt type and, where it *)
(* is given, a provider; those that succeeded, and who is mentioned where. *)
InScope(runs, type, p) ==
    {cell \in DOMAIN runs : Prompts[cell.prompt].type = type /\ p \in {None, cell.provider}}

Good(runs, cells) == {cell \in cells : runs[cell].ok}

Grounded(cells) == {cell \in cells : cell.mode = "WEB_GROUNDED"}

Naming(runs, cells, e) == {cell \in Good(runs, cells) : e \in runs[cell].mentions}

Citing(runs, cells, e) == {cell \in Grounded(Good(runs, cells)) : e \in runs[cell].cited}

Share(part, whole) == Pct(Cardinality(part), Cardinality(whole))

-----------------------------------------------------------------------------
(* VisibilityMetricsService *)

Presences(runs, cells) == UNION {Naming(runs, cells, e) \X {e} : e \in Entity}

(* get_metrics, of one entity *)
EntityMetric(runs, type, p, e) ==
    LET cells == InScope(runs, type, p) IN
    [coverage   |-> Share(Good(runs, cells), cells),
     visibility |-> Share(Naming(runs, cells, e), Good(runs, cells)),
     voice      |-> Share(Naming(runs, cells, e), Presences(runs, cells)),
     citation   |-> Share(Citing(runs, cells, e), Grounded(Good(runs, cells)))]

(* _compute_provider_breakdown: the brand at one provider, from the        *)
(* evidence of the whole analysis.                                         *)
ProviderBreakdown(runs, type, p) ==
    LET cells == {cell \in DOMAIN runs :
                     cell.provider = p /\ Prompts[cell.prompt].type = type}
        good == Good(runs, cells)
        eligible == Grounded(good)
    IN [coverage   |-> Share(good, cells),
        visibility |-> Share(Naming(runs, DOMAIN runs, "brand") \cap good, good),
        citation   |-> Share({cell \in DOMAIN runs : "brand" \in runs[cell].cited} \cap eligible,
                             eligible)]

(* The best seen first, whoever was not measured last. *)
LeaderKey(runs, type, p, e) ==
    LET rate == EntityMetric(runs, type, p, e).visibility IN
    IF rate = None THEN <<1, 0, NameRank[e]>> ELSE <<0, - rate, NameRank[e]>>

Leads(runs, type, p, a, b) ==
    Before(LeaderKey(runs, type, p, a), LeaderKey(runs, type, p, b))

-----------------------------------------------------------------------------
(* ConfidenceMetricsService.  A measurement cell is a prompt at a provider. *)

Measured(cell) == <<cell.prompt, cell.provider>>

MeasuredCells(cells) == {Measured(cell) : cell \in cells}

RepeatsOf(runs, cells, m) == {cell \in Good(runs, cells) : Measured(cell) = m}

Analyzable(runs, cells) ==
    {m \in MeasuredCells(cells) : Cardinality(RepeatsOf(runs, cells, m)) >= 2}

(* The repeats of m agree on e. *)
Agrees(runs, cells, m, e) ==
    (Naming(runs, cells, e) \cap RepeatsOf(runs, cells, m)) \in {{}, RepeatsOf(runs, cells, m)}

(* _compute_mention_stability asks it of all the entities, the reliability *)
(* of one entity of that one.                                              *)
StableCells(runs, cells, entities) ==
    {m \in Analyzable(runs, cells) : \A e \in entities : Agrees(runs, cells, m, e)}

Sufficiency(runs, cells) == Share(Analyzable(runs, cells), MeasuredCells(cells))

Stability(runs, cells, entities) ==
    Share(StableCells(runs, cells, entities), Analyzable(runs, cells))

(* _compute_round_summaries *)
Round(cells, n) == {cell \in cells : cell.round = n}

Rounds(cells) == {cell.round : cell \in cells}

ValidRounds(runs, cells) == {n \in Rounds(cells) : Good(runs, Round(cells, n)) # {}}

RoundVisibility(runs, cells, e) ==
    {Share(Naming(runs, Round(cells, n), e), Good(runs, Round(cells, n))) :
        n \in ValidRounds(runs, cells)}

Below(rate, percent) == rate # None /\ rate < 10000 * percent

From(rate, percent) == rate # None /\ rate >= 10000 * percent

(* classify_confidence_level *)
Level(repeats, valid, coverage, sufficiency, stability) ==
    IF valid < 2 \/ Below(coverage, 50) \/ Below(sufficiency, 50) THEN "INSUFFICIENT"
    ELSE IF Below(coverage, 75) \/ Below(sufficiency, 75) \/ Below(stability, 60) THEN "LOW"
    ELSE IF repeats >= 5 /\ From(coverage, 90) /\ From(sufficiency, 90) /\ From(stability, 80)
    THEN "HIGH" ELSE "MEDIUM"

LevelOf(runs, cells, entities, repeats) ==
    Level(repeats, Cardinality(ValidRounds(runs, cells)), Share(Good(runs, cells), cells),
          Sufficiency(runs, cells), Stability(runs, cells, entities))

(* get_metrics *)
OverallLevel(runs, type, p, repeats) ==
    LevelOf(runs, InScope(runs, type, p), Entity, repeats)

(* _compute_entity_reliability, of one entity *)
EntityReliability(runs, type, p, e, repeats) ==
    LET cells == InScope(runs, type, p)
        seen == RoundVisibility(runs, cells, e)
    IN [visibility  |-> Share(Naming(runs, cells, e), Good(runs, cells)),
        lowest      |-> IF seen = {} THEN None ELSE Min(seen),
        highest     |-> IF seen = {} THEN None ELSE Max(seen),
        sufficiency |-> Sufficiency(runs, cells),
        stability   |-> Stability(runs, cells, {e}),
        level       |-> LevelOf(runs, cells, {e}, repeats)]

(* Mutant: the brand's mentions of every provider count. *)
NamedEverywhere(runs, cells, scope) == Naming(runs, scope, "brand")

(* The numerator of a provider is of its own runs. *)
NamedHere(runs, cells, scope) == Naming(runs, scope, "brand") \cap Good(runs, cells)

(* _compute_provider_breakdown: the same of the brand at one provider,     *)
(* where a cell is a prompt.                                               *)
ProviderReliability(runs, type, p, repeats) ==
    LET scope == InScope(runs, type, None)
        cells == {cell \in scope : cell.provider = p}
        good == Good(runs, cells)
        prompts == {cell.prompt : cell \in cells}
        Of(prompt) == {cell \in good : cell.prompt = prompt}
        analyzable == {prompt \in prompts : Cardinality(Of(prompt)) >= 2}
        named == NamedHere(runs, cells, scope)
        stable == {prompt \in analyzable : (named \cap Of(prompt)) \in {{}, Of(prompt)}}
        At(n) == {cell \in good : cell.round = n}
        valid == {n \in Rounds(cells) : At(n) # {}}
        seen == {Share(named \cap At(n), At(n)) : n \in valid}
    IN [visibility  |-> Share(named, good),
        lowest      |-> IF seen = {} THEN None ELSE Min(seen),
        highest     |-> IF seen = {} THEN None ELSE Max(seen),
        sufficiency |-> Share(analyzable, prompts),
        stability   |-> Share(stable, analyzable),
        level       |-> Level(repeats, Cardinality(valid), Share(good, cells),
                              Share(analyzable, prompts), Share(stable, analyzable))]

-----------------------------------------------------------------------------
(* Properties *)

TypeOK == trial \in Trials /\ (observed # None => DOMAIN observed = trial.plan)

LevelRank == [INSUFFICIENT |-> 0, LOW |-> 1, MEDIUM |-> 2, HIGH |-> 3]

Type == {Prompts[i].type : i \in DOMAIN Prompts}

(* The breakdown of a provider says of the brand what the page filtered on *)
(* that provider says, though it is computed from other sets.              *)
BreakdownIsFilter(type, p) ==
    LET brand == EntityMetric(observed, type, p, "brand")
        shown == ProviderBreakdown(observed, type, p)
    IN /\ shown = [coverage |-> brand.coverage, visibility |-> brand.visibility,
                   citation |-> brand.citation]
       /\ ProviderReliability(observed, type, p, trial.repeats)
             = EntityReliability(observed, type, p, "brand", trial.repeats)

(* The leaderboard and the gap the opportunities are made of tell one      *)
(* story of the same evidence.                                             *)
LeaderboardIsGap(p, c) ==
    LET x == Explanation(observed, [AnyFilter EXCEPT !.provider = p], c)
        brand == EntityMetric(observed, "NON_BRANDED", p, "brand")
        rival == EntityMetric(observed, "NON_BRANDED", p, c)
    IN /\ x.gap = Difference(rival.visibility, brand.visibility)
       /\ x.citationGap = Difference(rival.citation, brand.citation)
       /\ x.coverage = brand.coverage
       /\ x.gap # None /\ x.gap > 0 => Leads(observed, "NON_BRANDED", p, c, "brand")
       /\ x.gap # None /\ x.gap < 0 => Leads(observed, "NON_BRANDED", p, "brand", c)
       /\ brand.voice # None /\ x.gap > 0 => brand.voice < rival.voice

(* What the repeats say of an entity: the whole lies within its rounds,    *)
(* and no entity is measured worse than all of them together.              *)
ReliabilityIsSound(type, p, e) ==
    LET x == EntityReliability(observed, type, p, e, trial.repeats) IN
    /\ x.visibility # None => x.lowest <= x.visibility /\ x.visibility <= x.highest
    /\ LevelRank[OverallLevel(observed, type, p, trial.repeats)] <= LevelRank[x.level]

(* The numbers the pages show of one evidence agree, whichever of the      *)
(* services, filters and breakdowns they come from.                        *)
MetricsAgree ==
    observed # None =>
        /\ \A type \in Type, p \in Providers(observed) : BreakdownIsFilter(type, p)
        /\ \A p \in Providers(observed) \cup {None}, i \in DOMAIN Competitors :
              LeaderboardIsGap(p, Competitors[i])
        /\ \A type \in Type, p \in Providers(observed) \cup {None}, e \in Entity :
              ReliabilityIsSound(type, p, e)
=============================================================================
