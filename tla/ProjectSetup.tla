---------------------------- MODULE ProjectSetup ----------------------------
(***************************************************************************)
(* A project's tracked inputs, its prompt sets, and the plans of its scans *)
(* (project_service.py, tracking_service.py, project_onboarding_service.py,*)
(* project_provider_service.py, prompt_set_service.py, prompt_generation_  *)
(* service.py, entitlement_service.py; the preflights of scan_creation_    *)
(* service.py, confidence_scan_creation_service.py and verification_scan_  *)
(* creation_service.py; web/project_config.py).                            *)
(*                                                                         *)
(* The services lock the project's row and read it again, so each call is  *)
(* one step.  Two do not: the web's removal of a keyword or competitor     *)
(* writes a revision it computed from an unlocked copy, and the PUT of the *)
(* providers deletes the rows it listed.                                   *)
(***************************************************************************)
EXTENDS Naturals, FiniteSets, Sequences

CONSTANTS
    Identity,     \* values of the project's own prompt-affecting fields
    Keyword, Competitor, Provider,
    Names,        \* the names a competitor may be given
    Mentions,     \* <<k, c>>: the text of k contains the name or domain of c
    Priced,       \* providers with exactly one price rule for their model
    Plans,        \* the entitlements a workspace may have
    Repeats,      \* repeat counts a CONFIDENCE scan may ask for
    Remover,      \* concurrent web removals
    Putter,       \* concurrent PUTs of the providers
    MaxEdits, MaxScans, None

VARIABLES
    project,      \* [status, identity, revision], or None
    keywords,     \* Keyword -> "none", "active", "inactive"
    competitors,  \* Competitor -> [active, name], or None
    enabled,      \* project_providers: rows <<provider, n>>
    plan,         \* the workspace's effective entitlements
    promptSet,    \* the ACTIVE prompt set, or None
    planned,      \* the scans of the project, in the order of creation
    removing, putting,
    edits,
    torn          \* history: a removal wrote a revision that is not the next one

vars == <<project, keywords, competitors, enabled, plan, promptSet, planned,
          removing, putting, edits, torn>>

(* The rows, and what a prompt set is made of. *)
Project ==
    [status : {"ACTIVE", "PAUSED", "ARCHIVED"}, identity : Identity, revision : Nat \ {0}]

Tracking == [active : BOOLEAN, name : Names]

Input ==
    [identity : Identity, keywords : SUBSET Keyword,
     competitors : UNION {[cs -> Names] : cs \in SUBSET Competitor}]

PromptSet == [version : Nat \ {0}, revision : Nat \ {0}, current : BOOLEAN, made : Input]

SetupAssumption ==
    /\ IsFiniteSet(Keyword) /\ IsFiniteSet(Provider)
    /\ 1 \in Names
    /\ Repeats \subseteq Nat \ {0}
    /\ \A p \in Plans : p.providers \subseteq Provider
    /\ None \notin Project \cup Tracking \cup PromptSet

setup == <<keywords, competitors, enabled, plan, promptSet>>
threads == <<removing, putting, torn>>

Init ==
    /\ project = None
    /\ keywords = [k \in Keyword |-> "none"]
    /\ competitors = [c \in Competitor |-> None]
    /\ enabled = {}
    /\ plan \in Plans
    /\ promptSet = None
    /\ planned = <<>>
    /\ removing = [r \in Remover |-> None]
    /\ putting = [p \in Putter |-> None]
    /\ edits = 0
    /\ torn = FALSE

(* Everyone's changes are bounded together. *)
Change == edits < MaxEdits /\ edits' = edits + 1

ActiveKeywords(ks) == {k \in Keyword : ks[k] = "active"}
Tracked(cs) == {c \in Competitor : cs[c] # None}
ActiveCompetitors(cs) == {c \in Tracked(cs) : cs[c].active}

(* What prompts are made of. *)
Inputs(p, ks, cs) ==
    [identity    |-> p.identity,
     keywords    |-> ActiveKeywords(ks),
     competitors |-> [c \in ActiveCompetitors(cs) |-> cs[c].name]]

Now == Inputs(project, keywords, competitors)

Revised == [project EXCEPT !.revision = @ + 1]

-----------------------------------------------------------------------------
(* PromptGenerationService *)

(* _validate_non_branded_safety: a NON_BRANDED prompt names nobody, so the *)
(* keyword in it may not.                                                  *)
Neutral(inputs) ==
    Mentions \cap (inputs.keywords \X DOMAIN inputs.competitors) = {}

PromptType(variant, inputs) ==
    IF variant = 4 THEN "BRANDED"
    ELSE IF variant = 5 /\ DOMAIN inputs.competitors # {} THEN "COMPETITOR"
    ELSE "NON_BRANDED"

(* generate_prompts: five for every active keyword *)
Prompts(set) ==
    {[version |-> set.version, keyword |-> k, variant |-> v,
      type |-> PromptType(v, set.made)] : k \in set.made.keywords, v \in 1 .. 5}

Generate(version, revision, inputs) ==
    [version |-> version, revision |-> revision, current |-> TRUE, made |-> inputs]

-----------------------------------------------------------------------------
(* Changes of the project *)

(* onboard_project: everything or nothing *)
Onboard(i, ks, cs, ps) ==
    LET p  == [status |-> "ACTIVE", identity |-> i, revision |-> 1]
        kw == [k \in Keyword |-> IF k \in ks THEN "active" ELSE "none"]
        cm == [c \in Competitor |-> IF c \in cs THEN [active |-> TRUE, name |-> 1] ELSE None]
    IN
    /\ project = None
    /\ plan.projects > 0
    /\ ks # {} /\ Cardinality(ks) <= plan.keywords
    /\ Cardinality(cs) <= plan.competitors
    /\ ps # {} /\ ps \subseteq plan.providers
    /\ Neutral(Inputs(p, kw, cm))
    /\ project' = p
    /\ keywords' = kw
    /\ competitors' = cm
    /\ enabled' = ps \X {0}
    /\ promptSet' = Generate(1, 1, Inputs(p, kw, cm))
    /\ UNCHANGED <<plan, planned, edits, threads>>

(* update_project, for a field that enters the prompts *)
UpdateProject(i) ==
    /\ Change
    /\ i # project.identity
    /\ project' = [Revised EXCEPT !.identity = i]
    /\ UNCHANGED <<setup, planned, threads>>

(* pause_project, archive_project; activate_project checks the capacity    *)
(* again for a project that had given its place up.                        *)
SetStatus(status) ==
    /\ Change
    /\ CASE status = "PAUSED"   -> project.status = "ACTIVE"
         [] status = "ARCHIVED" -> project.status # "ARCHIVED"
         [] status = "ACTIVE"   -> \/ project.status = "PAUSED"
                                   \/ project.status = "ARCHIVED" /\ plan.projects > 0
    /\ project' = [project EXCEPT !.status = status]
    /\ UNCHANGED <<setup, planned, threads>>

(* add_keyword, add_keywords_bulk *)
AddKeywords(ks) ==
    /\ Change
    /\ ks # {} /\ \A k \in ks : keywords[k] = "none"
    /\ Cardinality(ActiveKeywords(keywords) \cup ks) <= plan.keywords
    /\ keywords' = [k \in Keyword |-> IF k \in ks THEN "active" ELSE keywords[k]]
    /\ project' = Revised
    /\ UNCHANGED <<competitors, enabled, plan, promptSet, planned, threads>>

(* update_keyword *)
UpdateKeyword(k, status) ==
    /\ Change
    /\ keywords[k] \notin {"none", status}
    /\ status = "active" => Cardinality(ActiveKeywords(keywords)) < plan.keywords
    /\ keywords' = [keywords EXCEPT ![k] = status]
    /\ project' = Revised
    /\ UNCHANGED <<competitors, enabled, plan, promptSet, planned, threads>>

AddCompetitor(c) ==
    /\ Change
    /\ competitors[c] = None
    /\ Cardinality(ActiveCompetitors(competitors)) < plan.competitors
    /\ competitors' = [competitors EXCEPT ![c] = [active |-> TRUE, name |-> 1]]
    /\ project' = Revised
    /\ UNCHANGED <<keywords, enabled, plan, promptSet, planned, threads>>

(* Mutant: a competitor that comes or goes is no change of the inputs. *)
UpdateCompetitorQuietly(c, on, name) ==
    /\ Change
    /\ competitors[c] \notin {None, [active |-> on, name |-> name]}
    /\ (on /\ ~competitors[c].active)
          => Cardinality(ActiveCompetitors(competitors)) < plan.competitors
    /\ competitors' = [competitors EXCEPT ![c] = [active |-> on, name |-> name]]
    /\ UNCHANGED <<project, keywords, enabled, plan, promptSet, planned, threads>>

(* update_competitor: a new name is no new revision. *)
UpdateCompetitor(c, on, name) ==
    /\ Change
    /\ competitors[c] \notin {None, [active |-> on, name |-> name]}
    /\ (on /\ ~competitors[c].active)
          => Cardinality(ActiveCompetitors(competitors)) < plan.competitors
    /\ competitors' = [competitors EXCEPT ![c] = [active |-> on, name |-> name]]
    /\ project' = IF on # competitors[c].active THEN Revised ELSE project
    /\ UNCHANGED <<keywords, enabled, plan, promptSet, planned, threads>>

(* The web's remove_topic and remove_competitor load the project ... *)
RemoveLoads(r, x) ==
    /\ Change
    /\ removing[r] = None
    /\ x \in {k \in Keyword : keywords[k] # "none"} \cup Tracked(competitors)
    /\ removing' = [removing EXCEPT ![r] = [what |-> x, revision |-> project.revision]]
    /\ UNCHANGED <<project, setup, planned, putting, torn>>

(* ... and write the successor of the revision they loaded. *)
RemoveWrites(r) ==
    LET x == removing[r].what IN
    /\ removing[r] # None
    /\ IF x \in Keyword
       THEN keywords' = [keywords EXCEPT ![x] = "inactive"] /\ UNCHANGED competitors
       ELSE competitors' = [competitors EXCEPT ![x].active = FALSE] /\ UNCHANGED keywords
    /\ project' = [project EXCEPT !.revision = removing[r].revision + 1]
    /\ torn' = (torn \/ removing[r].revision # project.revision)
    /\ removing' = [removing EXCEPT ![r] = None]
    /\ UNCHANGED <<enabled, plan, promptSet, planned, putting, edits>>

(* set_providers: the rows that are there are listed ... *)
PutLists(w, ps) ==
    /\ Change
    /\ putting[w] = None
    /\ ps \subseteq plan.providers
    /\ putting' = [putting EXCEPT ![w] = [providers |-> ps, existing |-> enabled,
                                          n |-> edits + 1]]
    /\ UNCHANGED <<project, setup, planned, removing, torn>>

(* ... deleted, and the new ones inserted, unless a provider of another    *)
(* PUT is in the way of the unique constraint.                             *)
PutReplaces(w) ==
    LET put  == putting[w]
        kept == enabled \ put.existing
    IN
    /\ put # None
    /\ enabled' = IF \E row \in kept : row[1] \in put.providers THEN enabled
                  ELSE kept \cup (put.providers \X {put.n})
    /\ putting' = [putting EXCEPT ![w] = None]
    /\ UNCHANGED <<project, keywords, competitors, plan, promptSet, planned, removing,
                   edits, torn>>

(* Billing changes the plan, and with it what get_effective_entitlements   *)
(* answers; what the project has stays.                                    *)
ChangePlan(p) ==
    /\ Change
    /\ plan' = p
    /\ UNCHANGED <<project, keywords, competitors, enabled, promptSet, planned, threads>>

Fresh == promptSet.revision = project.revision /\ promptSet.current

(* regenerate_prompt_set: a set that is fresh is returned as it is. *)
Regenerate ==
    /\ ~Fresh
    /\ Now.keywords # {} /\ Neutral(Now)
    /\ promptSet' = Generate(promptSet.version + 1, project.revision, Now)
    /\ UNCHANGED <<project, keywords, competitors, enabled, plan, planned, edits, threads>>

(* A release with another GENERATOR_KEY. *)
NewGenerator ==
    /\ Change
    /\ promptSet' = [promptSet EXCEPT !.current = FALSE]
    /\ UNCHANGED <<project, keywords, competitors, enabled, plan, planned, threads>>

-----------------------------------------------------------------------------
(* The plans of scans *)

EnabledProviders == {row[1] : row \in enabled}

(* _create_entity_snapshots: the brand and the active competitors *)
Entities == [identity |-> project.identity, competitors |-> Now.competitors]

Executable(providers) == providers \subseteq Priced \cup {"perplexity"}

Cells(prompts, providers, n) ==
    {[prompt |-> p, provider |-> v, observation |-> i] :
        p \in prompts, v \in providers, i \in 1 .. n}

PlanScan(type, cells, checks, entities, baseline, made) ==
    /\ Len(planned) < MaxScans
    /\ project.status = "ACTIVE"
    /\ planned' = Append(planned,
          [type |-> type, stage |-> "planned", cells |-> cells, checks |-> checks,
           entities |-> entities, baseline |-> baseline,
           made |-> made, inputs |-> Now, torn |-> torn])
    /\ UNCHANGED <<project, setup, edits, threads>>

(* ScanCreationService: what is enabled and allowed, at today's prices *)
CreateStandard ==
    LET eligible == EnabledProviders \cap plan.providers
        prompts  == Prompts(promptSet)
    IN
    /\ Fresh
    /\ eligible # {} /\ Executable(eligible)
    /\ PlanScan("STANDARD", Cells(prompts, eligible, 1),
                Cardinality(prompts) * Cardinality(eligible),
                Entities, None, promptSet.made)

Repeatable(b) ==
    /\ b \in DOMAIN planned
    /\ planned[b].type = "STANDARD" /\ planned[b].stage = "collected"

PromptsOf(cells) == {cell.prompt : cell \in cells}
ProvidersOf(cells) == {cell.provider : cell \in cells}

StillAllowed(providers) ==
    providers \subseteq EnabledProviders \cap plan.providers /\ Executable(providers)

(* Mutant: providers that are no longer available are left out. *)
CreateConfidenceOfAvailable(b, n) ==
    /\ Repeatable(b)
    /\ plan.confidence
    /\ LET prompts   == PromptsOf(planned[b].cells)
           providers == ProvidersOf(planned[b].cells) \cap EnabledProviders
       IN PlanScan("CONFIDENCE", Cells(prompts, providers, n),
                   Cardinality(prompts) * Cardinality(providers) * n,
                   planned[b].entities, b, planned[b].made)

(* ConfidenceScanCreationService: the baseline's plan, n times *)
CreateConfidence(b, n) ==
    /\ Repeatable(b)
    /\ plan.confidence
    /\ LET prompts   == PromptsOf(planned[b].cells)
           providers == ProvidersOf(planned[b].cells)
       IN /\ StillAllowed(providers)
          /\ PlanScan("CONFIDENCE", Cells(prompts, providers, n),
                      Cardinality(prompts) * Cardinality(providers) * n,
                      planned[b].entities, b, planned[b].made)

(* VerificationScopeResolver (GapRules has the types of opportunity): the  *)
(* NON_BRANDED cells, those of one provider, or those of one prompt        *)
Scopes(cells) ==
    LET open == {cell \in cells : cell.prompt.type = "NON_BRANDED"} IN
    {open}
    \cup {{cell \in open : cell.provider = p} : p \in ProvidersOf(cells)}
    \cup {{cell \in cells : cell.prompt = q} : q \in PromptsOf(open)}

(* VerificationScanCreationService *)
CreateVerification(b) ==
    /\ Repeatable(b)
    /\ plan.verification
    /\ \E scope \in Scopes(planned[b].cells) :
          /\ scope # {}
          /\ StillAllowed(ProvidersOf(scope))
          /\ PlanScan("VERIFICATION", scope, Cardinality(scope),
                      planned[b].entities, b, planned[b].made)

(* A scan runs to its end, or has no quota (ScanLifecycle). *)
ScanEnds(b) ==
    /\ planned[b].stage = "planned"
    /\ \E end \in {"collected", "FAILED"} :
          planned' = [planned EXCEPT ![b].stage = end]
    /\ UNCHANGED <<project, setup, edits, threads>>

-----------------------------------------------------------------------------
Edit ==
    \/ \E i \in Identity : UpdateProject(i)
    \/ \E status \in {"ACTIVE", "PAUSED", "ARCHIVED"} : SetStatus(status)
    \/ \E ks \in SUBSET Keyword : AddKeywords(ks)
    \/ \E k \in Keyword, status \in {"active", "inactive"} : UpdateKeyword(k, status)
    \/ \E c \in Competitor : AddCompetitor(c)
    \/ \E c \in Competitor, on \in BOOLEAN, name \in Names : UpdateCompetitor(c, on, name)
    \/ \E r \in Remover : RemoveWrites(r) \/ \E x \in Keyword \cup Competitor : RemoveLoads(r, x)
    \/ \E w \in Putter : PutReplaces(w) \/ \E ps \in SUBSET Provider : PutLists(w, ps)
    \/ \E p \in Plans : ChangePlan(p)
    \/ Regenerate \/ NewGenerator

Scan ==
    \/ CreateStandard
    \/ \E b \in DOMAIN planned :
          \/ CreateVerification(b) \/ ScanEnds(b)
          \/ \E n \in Repeats : CreateConfidence(b, n)

Next ==
    \/ \E i \in Identity, ks \in SUBSET Keyword, cs \in SUBSET Competitor,
          ps \in SUBSET Provider : Onboard(i, ks, cs, ps)
    \/ project # None /\ (Edit \/ Scan)

Spec == Init /\ [][Next]_vars

-----------------------------------------------------------------------------
(* Properties *)

TypeOK ==
    /\ project \in Project \cup {None}
    /\ keywords \in [Keyword -> {"none", "active", "inactive"}]
    /\ competitors \in [Competitor -> Tracking \cup {None}]
    /\ EnabledProviders \subseteq Provider
    /\ plan \in Plans
    /\ project # None => promptSet \in PromptSet
    /\ planned \in Seq({planned[i] : i \in DOMAIN planned})
    /\ DOMAIN removing = Remover /\ DOMAIN putting = Putter
    /\ \A r \in Remover : removing[r] # None =>
          /\ removing[r].what \in Keyword \cup Tracked(competitors)
          /\ removing[r].revision \in Nat \ {0}
    /\ \A w \in Putter : putting[w] # None => putting[w].providers \subseteq Provider

(* A STANDARD scan asks about what it is going to look for: its prompts    *)
(* were made from the identity, keywords and competitors it is planned     *)
(* with.  A name a competitor was given since is excepted, and a project   *)
(* one of whose revisions was lost to an unlocked removal.                 *)
PlanMatchesInputs ==
    \A i \in DOMAIN planned :
        LET s == planned[i] IN
        s.type = "STANDARD" /\ ~s.torn =>
            /\ s.made.identity = s.inputs.identity
            /\ s.made.keywords = s.inputs.keywords
            /\ DOMAIN s.made.competitors = DOMAIN s.entities.competitors

(* A CONFIDENCE scan measures every cell of its baseline equally often, a  *)
(* VERIFICATION scan some of them once, both with the baseline's entities  *)
(* whatever became of the project; and each scan reserves what it runs.    *)
MeasuresBaseline ==
    \A i \in DOMAIN planned :
        LET s == planned[i] IN
        /\ s.checks = Cardinality(s.cells)
        /\ s.type # "STANDARD" =>
              LET base == planned[s.baseline]
                  once == {[cell EXCEPT !.observation = 1] : cell \in s.cells}
              IN /\ s.entities = base.entities
                 /\ once \subseteq base.cells
                 /\ s.type = "CONFIDENCE" =>
                       /\ once = base.cells
                       /\ \E n \in Repeats : s.checks = n * base.checks

(* docs/PROJECT_ONBOARDING.md:347: the revision "is a monotonically        *)
(* increasing counter".                                                    *)
RevisionOnlyGrows ==
    [][project # None => project'.revision >= project.revision]_vars
=============================================================================
