----------------------------- MODULE Components -----------------------------
(***************************************************************************)
(* The components that share no state with the quota ledger, side by side: *)
(* a behaviour is one of the component part names, and the variables of    *)
(* the others are None in it.  MCComponents gives the constants values     *)
(* small enough for TLC, ComponentsProofs keeps them as they are.          *)
(***************************************************************************)
EXTENDS Integers, FiniteSets

CONSTANTS
    None,
    Worker, Schedule, Interval, FirstRun, MaxTime, MaxEdits, MaxCrashes,
    User, About, Preferences, Admin, MaxRetries, MaxQueue,
    Opp, Key, Requester, Evaluator, Verdict, MaxOcc, MaxTransitions,
    Analyst, MaxPasses,
    Prompt, Competitors, Threshold, Standard, Asked, Answers,
    Identity, Keyword, Competitor, Provider, Names, Mentions, Priced, Plans,
    Repeats, Remover, Putter, MaxScans,
    Rates, Served, MaxChanges, MaxToolCalls,
    Operator, Root, Tried,
    Trials, NameRank

VARIABLES
    part,
    clock, sched, minInterval, active, scan, lock, wk, edits, crashes,
    member, pref, note, delivery, hook, queue, locked, todo, retry, retries, mails,
    opp, occ, ver, analysis, oppLock, verLock, req, judge, lost,
    terminal, row, evidence, holder, an, passes,
    opps, measured, verdict,
    project, keywords, competitors, enabled, plan, promptSet, planned, removing,
    putting, torn,
    time, prices, run, answer,
    work, bundle, posts, got, said,
    trial, observed

schedVars == <<clock, sched, minInterval, active, lock>>
outboxVars == <<member, pref, note, delivery, hook, queue, locked, todo, retry,
                retries, mails>>
verifVars == <<opp, ver, analysis, oppLock, verLock, req, judge, lost>>
analysisVars == <<terminal, holder, an, passes>>
actionVars == <<opps, measured, verdict>>
setupVars == <<project, keywords, competitors, enabled, plan, promptSet, planned,
               removing, putting, torn>>
billingVars == <<time, prices, run, answer>>
liveVars == <<work, bundle, posts, got, said>>
metricVars == <<trial, observed>>

Sched == INSTANCE ScheduledScans
Outbox == INSTANCE EmailOutbox WITH Event <- DOMAIN About
Verif == INSTANCE Verification WITH MaxEdits <- MaxTransitions
Analysis == INSTANCE ScanAnalysis
Actions == INSTANCE ActionCenter WITH Scan <- Standard, Prompts <- Prompt, Plan <- Asked
Setup == INSTANCE ProjectSetup
Billing == INSTANCE ProviderBilling WITH Answers <- Served
Live == INSTANCE LiveValidation
Metric == INSTANCE Metrics WITH Prompts <- Prompt

ASSUME ComponentsAssumption ==
    /\ Sched!ScheduleAssumption /\ Verif!VerificationAssumption
    /\ Outbox!OutboxAssumption /\ Analysis!AnalysisAssumption
    /\ Actions!ActionAssumption /\ Setup!SetupAssumption
    /\ Billing!BillingAssumption /\ Live!LiveAssumption /\ Metric!MetricAssumption

NoSched ==
    /\ clock = None /\ sched = None /\ minInterval = None /\ active = None
    /\ lock = None

NoOutbox ==
    /\ member = None /\ pref = None /\ note = None /\ delivery = None
    /\ hook = None /\ queue = None /\ locked = None /\ todo = None
    /\ retry = None /\ retries = None /\ mails = None

NoVerif ==
    /\ opp = None /\ ver = None /\ analysis = None
    /\ oppLock = None /\ verLock = None /\ req = None /\ judge = None
    /\ lost = None

NoAnalysis == terminal = None /\ holder = None /\ an = None /\ passes = None

NoActions == opps = None /\ measured = None /\ verdict = None

NoSetup ==
    /\ project = None /\ keywords = None /\ competitors = None /\ enabled = None
    /\ plan = None /\ promptSet = None /\ planned = None /\ removing = None
    /\ putting = None /\ torn = None

NoBilling == time = None /\ prices = None /\ run = None /\ answer = None

NoLive ==
    /\ work = None /\ bundle = None /\ posts = None /\ got = None /\ said = None

NoMetrics == trial = None /\ observed = None

Init ==
    \/ /\ part = "sched" /\ Sched!Init
       /\ NoOutbox /\ NoVerif /\ NoAnalysis /\ NoActions /\ NoSetup
       /\ NoBilling /\ NoLive /\ NoMetrics /\ occ = None /\ evidence = None
       /\ row = None
    \/ /\ part = "outbox" /\ Outbox!Init
       /\ NoSched /\ NoVerif /\ NoAnalysis /\ NoActions /\ NoSetup
       /\ NoBilling /\ NoLive /\ NoMetrics /\ scan = None /\ edits = None
       /\ occ = None /\ evidence = None /\ row = None
    \/ /\ part = "verif" /\ Verif!Init
       /\ NoSched /\ NoOutbox /\ NoAnalysis /\ NoActions /\ NoSetup
       /\ NoBilling /\ NoLive /\ NoMetrics /\ wk = None /\ evidence = None
       /\ row = None
    \/ /\ part = "analysis" /\ Analysis!Init
       /\ NoSched /\ NoOutbox /\ NoVerif /\ NoActions /\ NoSetup /\ NoBilling
       /\ NoLive /\ NoMetrics /\ scan = None /\ wk = None /\ edits = None
       /\ crashes = None /\ occ = None
    \/ /\ part = "actions" /\ Actions!Init
       /\ NoSched /\ NoOutbox /\ NoVerif /\ NoAnalysis /\ NoSetup
       /\ NoBilling /\ NoLive /\ NoMetrics /\ scan = None /\ wk = None
       /\ edits = None /\ crashes = None /\ row = None
    \/ /\ part = "setup" /\ Setup!Init
       /\ NoSched /\ NoOutbox /\ NoVerif /\ NoAnalysis /\ NoActions
       /\ NoBilling /\ NoLive /\ NoMetrics /\ scan = None /\ wk = None
       /\ crashes = None /\ occ = None /\ evidence = None /\ row = None
    \/ /\ part = "billing" /\ Billing!Init
       /\ NoSched /\ NoOutbox /\ NoVerif /\ NoAnalysis /\ NoActions
       /\ NoSetup /\ NoLive /\ NoMetrics /\ scan = None /\ wk = None
       /\ edits = None /\ crashes = None /\ occ = None /\ evidence = None
       /\ row = None
    \/ /\ part = "live" /\ Live!Init
       /\ NoSched /\ NoOutbox /\ NoVerif /\ NoAnalysis /\ NoActions
       /\ NoSetup /\ NoBilling /\ NoMetrics /\ scan = None /\ wk = None
       /\ edits = None /\ crashes = None /\ occ = None /\ evidence = None
    \/ /\ part = "metrics" /\ Metric!Init
       /\ NoSched /\ NoOutbox /\ NoVerif /\ NoAnalysis /\ NoActions
       /\ NoSetup /\ NoBilling /\ NoLive /\ scan = None /\ wk = None
       /\ edits = None /\ crashes = None /\ occ = None /\ evidence = None
       /\ row = None

Next ==
    /\ UNCHANGED part
    /\ \/ /\ part = "sched" /\ Sched!Next
          /\ UNCHANGED <<outboxVars, verifVars, analysisVars, actionVars,
                       setupVars, billingVars, liveVars, metricVars, occ,
                       evidence, row>>
       \/ /\ part = "outbox" /\ Outbox!Next
          /\ UNCHANGED <<schedVars, verifVars, analysisVars, actionVars,
                       setupVars, billingVars, liveVars, metricVars, scan,
                       edits, occ, evidence, row>>
       \/ /\ part = "verif" /\ Verif!Next
          /\ UNCHANGED <<schedVars, outboxVars, analysisVars, actionVars,
                       setupVars, billingVars, liveVars, metricVars, wk,
                       evidence, row>>
       \/ /\ part = "analysis" /\ Analysis!Next
          /\ UNCHANGED <<schedVars, outboxVars, verifVars, actionVars,
                       setupVars, billingVars, liveVars, metricVars, scan,
                       wk, edits, crashes, occ>>
       \/ /\ part = "actions" /\ Actions!Next
          /\ UNCHANGED <<schedVars, outboxVars, verifVars, analysisVars,
                       setupVars, billingVars, liveVars, metricVars, scan,
                       wk, edits, crashes, row>>
       \/ /\ part = "setup" /\ Setup!Next
          /\ UNCHANGED <<schedVars, outboxVars, verifVars, analysisVars,
                       actionVars, billingVars, liveVars, metricVars, scan,
                       wk, crashes, occ, evidence, row>>
       \/ /\ part = "billing" /\ Billing!Next
          /\ UNCHANGED <<schedVars, outboxVars, verifVars, analysisVars,
                       actionVars, setupVars, liveVars, metricVars, scan, wk,
                       edits, crashes, occ, evidence, row>>
       \/ /\ part = "live" /\ Live!Next
          /\ UNCHANGED <<schedVars, outboxVars, verifVars, analysisVars,
                       actionVars, setupVars, billingVars, metricVars, scan,
                       wk, edits, crashes, occ, evidence>>
       \/ /\ part = "metrics" /\ Metric!Next
          /\ UNCHANGED <<schedVars, outboxVars, verifVars, analysisVars,
                       actionVars, setupVars, billingVars, liveVars, scan,
                       wk, edits, crashes, occ, evidence, row>>

vars == <<part, schedVars, outboxVars, verifVars, analysisVars, actionVars, setupVars,
          billingVars, liveVars, metricVars, scan, wk, edits, crashes, occ, evidence, row>>

Spec == Init /\ [][Next]_vars

-----------------------------------------------------------------------------
(* Every component keeps its rows, locks and program counters in their     *)
(* types.                                                                  *)
TypeOK ==
    CASE part = "sched"    -> Sched!TypeOK
      [] part = "outbox"   -> Outbox!TypeOK
      [] part = "verif"    -> Verif!TypeOK
      [] part = "analysis" -> Analysis!TypeOK
      [] part = "actions"  -> Actions!TypeOK
      [] part = "setup"    -> Setup!TypeOK
      [] part = "billing"  -> Billing!TypeOK
      [] part = "live"     -> Live!TypeOK
      [] part = "metrics"  -> Metric!TypeOK

(* scheduled_scan_service.py: whatever sweeps overlap, crash or race with  *)
(* the user's changes, a project has at most one scheduled scan going.     *)
NoOverlap == part = "sched" => Sched!NoOverlap

(* scheduled_scan_service.py:504: a sweep moves next_run_at to the first   *)
(* boundary in its future, whatever number of them passed unattended.      *)
FirstFutureSlot ==
    [][part = "sched" => Sched!FirstFuture]_vars

(* notification_tasks.py: no sweep, lost or repeated message, dead or slow *)
(* worker sends an email again; only a manual retry does.                  *)
NoAutomaticDuplicate == part = "outbox" => Outbox!NoAutomaticDuplicate

(* verification_scan_creation_service.py: one implementation is measured   *)
(* by one verification at a time, whatever requests race.                  *)
OneMeasurementPerCycle == part = "verif" => Verif!OneMeasurementPerCycle

(* verification_lifecycle_service.py, verification_evaluation_service.py:  *)
(* an outcome that rests on a completed analysis is overwritten from an    *)
(* older copy only by a hook that was given another session's FAILED row.  *)
MeasuredOutcomeKept ==
    [][part = "verif" => Verif!KeepsMeasuredOutcomes]_vars

(* The locks of opportunities and verifications, which the two services    *)
(* take in opposite orders, never make them wait for each other.           *)
NoWaitCycle == part = "verif" => Verif!NoWaitCycle

(* scan_analysis_service.py: what one pass completed, with its evidence,   *)
(* no concurrent pass and no late failure takes away.                      *)
CompletedAnalysisIsFinal ==
    [][part = "analysis" => Analysis!KeepsCompleted]_vars

(* core/verification_engine.py: an opportunity that is RESOLVED no longer  *)
(* meets the criterion that created it, and did not go away with the       *)
(* brand's own presence or citations.                                      *)
ResolvedIsGone == part = "actions" => Actions!ResolvedIsGone

(* competitor_explanation_service.py, verification_scope.py: detection and *)
(* evaluation, each with filters of its own, see one gap in one evidence.  *)
SameEvidenceSameGap == part = "actions" => Actions!SameEvidenceSameGap

(* prompt_set_service.py: a fresh prompt set, and so every STANDARD plan,  *)
(* asks about what is tracked now, if no unlocked removal tore the         *)
(* revision.                                                               *)
PlanMatchesInputs == part = "setup" => Setup!PlanMatchesInputs

(* confidence_scan_creation_service.py, verification_scan_creation_        *)
(* service.py: a derived scan repeats the cells of its baseline, whatever  *)
(* became of the project since.                                            *)
MeasuresBaseline == part = "setup" => Setup!MeasuresBaseline

(* pricing_service.py: a cost is recorded only where it is exact, at the   *)
(* rule in force when the run started, from counts that were reported.     *)
BilledAsServed == part = "billing" => Billing!BilledAsServed

(* live_accounting_validation_operator.py: a validation id pays for one    *)
(* call, and passes on evidence that proves the search it counts.          *)
ProvenPass == part = "live" => Live!ProvenPass

(* visibility_metrics_service.py, confidence_metrics_service.py: filters,  *)
(* breakdowns, rounds and the gaps say the same of the same evidence.      *)
MetricsAgree == part = "metrics" => Metric!MetricsAgree
=============================================================================
