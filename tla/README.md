# GEO Tracker: TLA+ models of quota, scans and what is built on them

This directory specifies and verifies GEO Tracker: the quota of AI Checks a
workspace buys, the scans that reserve those checks, call paid providers and
account for the calls, and the components around them, from the plan of a scan
to the opportunities its evidence makes and the emails about them. Paths below are relative to the
repository's `app/` unless they start with `docs/` or `scripts/`.

Run a model with `tlc -config MCScanRaces.cfg MCScanLifecycle`, a proof with
`tlapm ScanLifecycleProofs.tla` (the proof modules end in `Proofs`). `PROJECT.json` lists the runs, the mutated
definitions that show each property can fail, the source lines of every
definition, the disagreements between code and documentation that were met, and
the hazards the properties are for.

## 1. The system

| Component | State it keeps | Operations | What is hard |
|---|---|---|---|
| Quota accounting (`services/quota_service.py`) | `workspace_usage_periods` (used, reserved), `quota_reservations`, `usage_events` | reserve, commit, release, expire | row locks, retries by idempotency key, month boundaries, caller-owned transactions |
| Scan creation (`scan_creation_service.py`, `confidence_…`, `verification_…`) | `scans`, `prompt_runs`, entity snapshots | create, reserve, attach, dispatch, resume, refuse | four commits per call, a crash between any two, duplicate requests |
| Celery workers (`workers/`) | messages in Redis | `scan.execute`, `schedule.dispatch_due`, `notification.*` | early acknowledgement: lost and duplicated messages |
| Scan execution (`scan_execution_service.py`) | run statuses, asyncio tasks | claim, reject, rounds, call, record | bounded concurrency, fatal errors, paid calls that must not repeat |
| Result recorder (`prompt_run_result_recorder.py`) | run evidence, usage event | record, record failure evidence | evidence and charge in one transaction |
| Finalization and recovery (`scan_finalization_service.py`) | scan status and counts, reservation | finalize, reconcile, recover stale scans | recovery against a worker that still lives |
| Verification (`verification_*_service.py`, `opportunity_workflow_service.py`) | `opportunity_verifications`, `opportunities` | create, evaluate, terminalize, transition | several triggers of one evaluation, user transitions in between, copies read without a lock |
| Scheduled scans (`scheduled_scan_service.py`) | `project_scan_schedules` | sweep, evaluate a slot, edit, disable | advisory locks, crash between creation and advance, edits meanwhile |
| Notifications (`notification_service.py`, `workers/notification_tasks.py`) | `notifications`, `email_deliveries` | create, dispatch after commit, send, sweep, recover, retry | outbox, ambiguous sends |
| Scan analysis (`scan_analysis_service.py`) | `scan_analyses`, mentions, attributions | analyze, mark failed | insert races, a failure written by a second session |
| Explanation, actions, evaluation rules (`competitor_explanation_service.py`, `action_generation_service.py`, `core/`) | `opportunities`, `opportunity_occurrences` | explain, detect, upsert, decide | detection and evaluation compute one gap by different code |
| Metrics (`visibility_metrics_service.py`, `confidence_metrics_service.py`) | none | rates, breakdowns, reliability | empty denominators, filters of numerator and denominator |
| Projects (`project_service.py`, `tracking_service.py`, `prompt_set_service.py`, `web/project_config.py`) | projects, keywords, competitors, providers, prompt sets | onboard, edit, regenerate, plan a scan | capacity limits, a revision that must tell stale prompts from fresh ones |
| Providers and pricing (`providers/`, `pricing_service.py`) | price rules | call, validate, price | what an answer omits, rules that change during a call |
| Live validation (`live_accounting_validation_operator.py`, `providers/evidence.py`) | one scan per validation id, evidence bundles | plan, call, capture, report, reuse | one paid call only, partial evidence |
| Accounts (`auth_service.py`, `session_service.py`, `rate_limiter.py`), workspaces, pages | users, sessions, memberships | login, revoke, limit | see "Not modelled" |

How they interact. A request (or the scheduler) calls `create_scan`, which
commits the scan and its PromptRuns, calls the quota service, attaches the
reservation to the scan and publishes the scan's id. A worker that takes the
message claims the scan row, runs the PromptRuns as asyncio tasks, and for each
billed answer commits one check through the recorder, in the recorder's
transaction. `finalize` classifies the scan and releases what was not used, in
one transaction; then it triggers analysis, verification and notifications.
Recovery does the same for scans that have been PENDING or RUNNING too long.
PostgreSQL (READ COMMITTED, `SELECT … FOR UPDATE`) is the only shared state;
Redis carries messages.

What makes each part correct:

- *Quota*: the counters are sums over reservations and events; nothing is sold
  twice or beyond the plan; a retried call is charged once; charges go to the
  month of the reservation; locks never form a cycle.
- *Scan life*: a paid call is made at most once per run; a billed call is never
  written off; a scan is charged for what its runs show; a terminal scan is
  accurate, final and holds no quota; every scan ends.
- *Verification*: one measurement per implementation at a time; an outcome that
  rests on evidence is kept; every verification is settled; the two lock orders
  do not meet.
- *Schedules*: never two scheduled scans of a project at once; no catch-up storm;
  a due schedule moves on whatever happens to its scan.
- *Outbox*: an email is sent once unless someone retries it by hand, and none is
  left PENDING.
- *Analysis and actions*: a completed analysis is not destroyed by a second one;
  RESOLVED is only said of a gap that is gone; measuring the same evidence again
  settles nothing.
- *Projects*: a STANDARD scan asks about what is tracked; a CONFIDENCE or
  VERIFICATION scan measures what its baseline measured.
- *Billing*: a recorded cost is what the provider served, at the rule in force
  when the run started.
- *Metrics*: filters, breakdowns, rounds and gaps say the same of one evidence.

## 2. Modules

| Module | Models | Relation |
|---|---|---|
| `QuotaLedger` | the four quota operations, each one atomic step | the abstract specification |
| `QuotaService` | `QuotaService` as sessions run it: locks, copies of rows, rollback | refines `QuotaLedger` (`ImplementsLedger`) |
| `ScanLifecycle` | requests, broker, workers, recovery, and the quota operations they call | composes with `QuotaLedger`: each of its quota steps is written as an action of the ledger, so the ledger's sums hold of it (`ScansKeepBooks`) |
| `QuotaLedgerProofs`, `QuotaServiceProofs`, `ScanLifecycleProofs`, `ScheduledScansProofs`, `EmailOutboxProofs`, `VerificationProofs`, `LiveValidationProofs` | theorems about the module they are named after | extend it |
| `ScheduledScans` | sweeps, edits of a schedule, plan changes, the life of the scheduled scans | |
| `EmailOutbox` | notifications, deliveries, workers, sweeper, recovery, manual retry | |
| `Verification` | the workflow of opportunities, creation, hook and evaluation of their verifications | |
| `ScanAnalysis` | several sessions that analyse one scan | |
| `GapRules` | explanation, detection rules, scopes and decisions as operators on evidence | no state |
| `ActionCenter` | refreshes of scans into opportunities, one evaluation | extends `GapRules` |
| `Metrics` | both metrics services as operators on evidence | extends `GapRules`, and is compared with it |
| `ProjectSetup` | tracked inputs, prompt sets, plans of the three scan types | |
| `ProviderAnswers` | the four adapters and the cost of an answer, as operators | no state |
| `ProviderBilling` | one run from claim to bill while price rules change | extends `ProviderAnswers` |
| `LiveValidation` | invocations of one validation id, and their evidence bundles | extends `ProviderAnswers` |
| `Components` | the components from `ScheduledScans` on, side by side | instantiates them |
| `ComponentsProofs` | their theorems, for the composition; those of `ScanAnalysis`, `ProviderBilling`, `ActionCenter`, `ProjectSetup` and `Metrics` are proved there | extends `Components`, instantiates the proof modules of the others |
| `MCComponents`, `MCProgress` | instances of `Components` | |
| other `MC*` | small instances | |

### QuotaLedger

`period[<<w, m>>]` are the two counters of a `WorkspaceUsagePeriod`; `resv[k]`
the reservation with idempotency key `k`; `usage[u]` the usage event with key
`u`; `peak[w]` a history variable, the largest `monthly_ai_checks` the workspace
was ever granted. The plan itself may fall at any time, and the service reads it
before it locks the period, so what it compares with is any limit up to the
peak. Rows are created by an upsert (`_get_or_create_period`); a period nobody
has used is a row with zeros. `Expire` contains what the code does, not what it
means to do: one decrement per period survives (see `expire_credit`).
`AppSpec` is the system without expiry jobs: no code under `app/` calls
`expire_stale_reservations`, an operator may. Token counts and cost fields are
abstracted: a usage event is its reservation and number of checks.

### QuotaService

A session's copies of rows are its locks. `SELECT … FOR UPDATE` is the guard that
no other session holds a copy; a flush of an insert waits for an uncommitted
insert of the same unique key and fails if it is committed. `CommitTransaction`
writes the copies; `End` ends a transaction that writes nothing (an idempotent
answer, a refusal, a rollback); `Abort` is a death, a deadlock victim, or the
rollback of a caller-owned transaction (`commit_transaction=False`), which from
the tables' side are the same. `Cleaner` names the sessions that may run the
expiry. The upsert that precedes the period lock is taken with it: its
`ON CONFLICT DO NOTHING` waits for the same sessions.

### ScanLifecycle

| Variable | Code |
|---|---|
| `scan`, `run` | rows of `scans` and the status of each row of `prompt_runs`; an absent scan is `NoRow`, an absent run is `PLANNED` |
| `messages[s]` | `scan.execute` messages in flight |
| `request[q]` | the transaction a `create_scan` call is at; `seen` is the `failure_code` of the instance it will write through |
| `worker[w]` | `round`, `fill`, `wait` (in `asyncio.wait`), `finalize`; `stop` is `stop_scheduling` |
| `task[r]` | the asyncio task of a run, from `queued` (in the deque) to `done` or `fatal` |
| `recovery` | the recovery job, `mark` while it holds the scan row |
| `calls`, `billed`, `evidenced` | history: provider calls started, those the provider answered and billed, and those whose answer also came with what accounting needs |

Each action is one transaction, or the Python between two awaits. The event loop
is kept where it matters: a task created by a batch runs before a coroutine whose
response arrives later (`ProviderAnswers`), which is why only a call that fails
at once, or a failed claim, can overtake a task not yet started. An answer that
was billed and is unusable comes with its evidence from the OpenAI adapter only;
from the others it looks like an error that cost nothing, and `ProviderAnswers`
draws either. (The module of that name below says which adapter raises what.)
Row locks on
the scan are visible only in recovery, the one transaction of several steps
(`Unlocked`); on a run they are not needed, since every transaction on a run is
one step except recovery's, whose two statements are two actions.

CONFIDENCE scans differ from STANDARD ones, from the worker's side, only in
`RoundOf`. VERIFICATION scans are executed alike; their creation and lifecycle
are in `Verification`.

`Stale` says when enough time may have passed: never while a request of the scan
is still running. With `SlowWorkers` a scan may be stale while its worker lives
(a call that outlasts `scan_stale_after_seconds`, two hours by default); without
it, only when its worker is gone. `Expiry` lets a reservation outlive
`scan_reservation_ttl_seconds`.

### ScheduledScans

`sched[s]` is the row of a schedule, `scan[<<s, t>>]` the stage of the scan whose
idempotency key names slot `t`, `lock[s]` the transaction-scoped advisory lock,
`wk[w]` the sweep of a worker: the `now` it began with, the schedule it is at,
the copy it read, what it has visited. A sweep is a program of single commits:
find the next due schedule, try the lock, read the row again, refuse or create
the scan in the second session (plan, reserve, dispatch, each a commit), reload
and finish. A commit drops the lock, as the database does. Users put and delete
the schedule, plans and projects change, scans end, and a worker may die
(`Crash` ends both its sessions) between any two steps. Preflight and quota
answer nondeterministically: their own behaviour is in the other modules.
`Advance` is the loop of `_advance_next_run` in closed form.

### EmailOutbox

A *letter* is one notification to one user about one event. The notification
and its delivery are inserted together; `hook` holds the letters whose
after-commit hook has not run. `queue[l]` counts messages, which may be refused
by the broker and are lost with the worker that took them. `wk[w]` keeps the copy
from which a worker later writes its result, without looking at the row again.
The sweeper's row locks are state (`locked`), since a worker that meets one
(`skip_locked`) drops its message: `Drop`. `mails[l]` is a history variable, what
the mail server accepted. Texts, addresses and the deduplication of equal events
beyond one letter per user and event are left out.

### Verification, ScanAnalysis

`opp[o]` is status and frozen baseline, `ver[k]` and `scan[k]` the verification
with idempotency key `k` and its scan. `req[r]` is a request that creates one and
holds the opportunity's row lock over its steps; `judge[j]` is whoever evaluates:
the hook of key `k`'s own scan, which first loads the verification without a
lock, or a request of the API. A request that finds the FAILED verification of an
earlier scan keeps its key (`req[r].old`) and settles that one before it inserts
its own. `SELECT … FOR UPDATE` without `populate_existing`
leaves an instance the session already holds as it is, and the models keep that
copy (`seen`, `opp`): this is what `verified` shows. `got` is what the hook had
from `analyze()`. When it raised, the hook looks for the FAILED row in a new
session and settles the verification in the one of the finalizer, which reads the
analysis there for the first time. When it *returned* a FAILED row, that of the
session to which it lost the insert, it settles the verification in the session
that holds the row, and reads neither the row nor the verification again:
`MCOverwritten.cfg` shows what that does. `lost` holds verifications whose hook was cut
short, by a death or because a user repeated the failed analysis. The verdict of
the evidence is drawn when the analysis completes; `GapRules` says what it is. In `ScanAnalysis` a pass works on the row
in one transaction, a loser of the insert or an error rolls back, and the failure
is then written by a second transaction, which must see what committed between.

### GapRules, ActionCenter, Metrics

Evidence is a function from the cells of a scan (prompt, provider, mode, round)
to what was observed: success, the entities mentioned, the entities cited. Rates
are integers in 1/10000 of a percentage point, rounded half up as the code's
`Decimal` is. `GapRules` has the explanation with its filters, the four rules
with their thresholds, the order and the two caps, the scope of each type of
opportunity, and the gates, safeguards and decision of an evaluation, each from
the service that computes it. `ActionCenter` gives them state: scans are analysed
and refreshed in any order, one opportunity is measured again. `Metrics` is the
other reading of the same evidence, with its own filters; source counts and
domain shares are left out of it.

### ProjectSetup

The services lock the project row and read it again, so a call is one step. The
removals of the web pages and the PUT of the providers do not, and are two steps
each. A prompt set remembers the revision and inputs it was made from, a planned
scan its cells, checks, entities and baseline. Prompts are abstracted to their
type and the keyword they are about. `torn` is a history variable: some removal
wrote a revision that was not the next one, after which a stale prompt set may
carry the current revision (`revision` shows that it happens; `PlanMatchesInputs`
says that nothing else makes it happen).

### ProviderAnswers, ProviderBilling, LiveValidation

An answer is what the provider served, which only its bill knows, and how it
tells: actions in order, counts omitted, a reported cost, and faults. The
adapters are tables of validations in the order of the code; the first that fails
gives the error, and whether evidence travels with it. A run is claimed at
`started`, called once, and priced when it is recorded, while rules are published
and ended. `LiveValidation` has the operator's steps, each a commit or a group of
file writes; a bundle is a prefix of its artifacts, may be damaged at rest, and
each invocation may be given another evidence directory.

## 3. Runs

| Run | Instance | Shows |
|---|---|---|
| `quota_ledger` | 1 workspace, 2 months, 3 reservations of ≤ 2 checks, 2 usage keys, limit ≤ 4 | the counters and events agree with the reservations, nothing is oversold, reservations are final |
| `quota_service` | 2 sessions (both may expire), 2 months, 2 keys, 2 usage keys, ≤ 2 checks | locks, races, stale limits and rollbacks refine the ledger; no cycle of waits; answers are true |
| `scan_races` | 1 scan of 2 runs, 2 requests, 2 workers, 2 messages, 1 crash, expiry, slow workers | terminal scans are accurate, final and released; what is charged is what the runs show; calls happen at most once; usage is evidence |
| `scan_rounds` | 1 scan of 4 runs, 3 + 1 in two rounds, 2 at a time, 1 request, 1 worker | rounds stay in order, no task is created after a fatal error was seen, no answer that came with its evidence is written off when workers are not slow |
| `scan_settles` | `scan_races` with fairness, 1 call at a time, no slow workers, no recovery assumed | every scan ends, or nobody has it in hand any more, for one of the reasons named |
| `expire_credit` | 1 session | **violated**: two reservations of one period expire, one is credited |
| `recovery_race` | slow worker | **violated**: a run whose answer came with its evidence is written off |
| `stranded_reservation` | 1 crash | **violated**: a terminal scan whose reservation stays active |
| `components` | nine parts, below | the safety of every other component |
| `progress` | three of the parts, with fairness | due schedules move on, PENDING emails are taken, verifications are settled |
| `verified` | 1 opportunity, 1 verification, 1 evaluator | **violated**: an opportunity becomes VERIFIED from a status a user put it in meanwhile |
| `revision` | 1 keyword, 1 web removal, 3 edits | **violated**: `prompt_input_revision` falls |

Five more configurations hold counterexamples of claims the code or its documents
make; `PROJECT.json` "findings" quotes them. Each takes TLC a few seconds
(`tlc -config MCOverwritten.cfg Verification`, the others with `MCScanLifecycle`):

| Configuration | Violated | By |
|---|---|---|
| `MCOverwritten.cfg` | `MeasuredOutcomeIsFinal` | a hook that settles a measured verification from the copies its session holds |
| `MCUnevidencedBill.cfg` | `BilledRunNotWrittenOff` | a billed answer without evidence, recorded as an error before any bill |
| `MCLateCalls.cfg` | `NoCallAfterFatal` | a task created before another one failed fatally, and started after |
| `MCNoRecovery.cfg` | `RecoveredAutomatically` | a lost message: under the fairness of what the deployment starts, nothing recovers |
| `MCRecoveryRefuses.cfg` | `RecoveryFinishes` | a RUNNING run of a dead worker, which recovery refuses each time it is run |

`components` checks nine parts in one run, composed in `Components`: `part` is
chosen initially, `Next` moves that part only, and the variables of the others
are `None`. A property of a part says nothing in the others. Where two parts use
a variable of one name they never use it in one behaviour. The state space is the
sum of the parts, not their product.

| Part | Instance | Property |
|---|---|---|
| `sched` | 1 schedule, 2 workers, intervals 1 and 2, clock to 2, 2 edits, 1 crash | `NoOverlap`, `FirstFutureSlot` |
| `outbox` | 1 user, 1 event, 2 workers, 2 administrators, 1 retry, 2 messages, 1 crash | `NoAutomaticDuplicate` |
| `verif` | 1 opportunity, 2 verifications, 2 requests, 1 evaluator besides the hooks, 1 verdict, 2 transitions, 1 crash | `OneMeasurementPerCycle`, `MeasuredOutcomeKept`, `NoWaitCycle` |
| `analysis` | 3 sessions, 4 passes | `CompletedAnalysisIsFinal` |
| `actions` | 1 scan of 3 cells (2 prompts, 2 providers), 5 observations per cell, then a verification of any of its opportunities with any evidence | `ResolvedIsGone`, `SameEvidenceSameGap` |
| `setup` | 2 identities, 2 keywords of which one holds the competitor's name, 1 competitor with 2 names, 2 providers, 2 plans, 2 edits, 2 scans | `PlanMatchesInputs`, `MeasuresBaseline` |
| `billing` | 4 providers, about 190 answers each, 1 or 2 tariffs, 1 change of the rules | `BilledAsServed` |
| `live` | 2 invocations, 2 evidence directories, 13 answers | `ProvenPass` |
| `metrics` | scans of 1 to 2 prompts, 1 to 2 providers, up to 5 rounds | `MetricsAgree` |

Bounds. Two months are enough to tell the reservation's month from today's;
three reservations in two months put two of them in one period; two checks per
reservation make partial commits, and two usage keys a second commit. Locks
conflict pairwise, and two sessions make every pair of operations meet, on one
key or two, in one period or two. Two requests, two workers and two messages per
scan give duplicate delivery, a retry during the first attempt, and a late second
worker; one crash is enough to reach each gap between two transactions, and
`MaxCrashes` also counts lost messages and database errors. In the components: a
clock to 2 with interval 1 leaves a boundary unattended; two workers are enough
for an overlap of sweeps and for a slow sender beside its recovery; two keys and
two requests for one implementation give the race, one hook and one evaluator the
double evaluation, of an implementation that a user's two transitions made
(`progress` and `verified` let him take it back, with two verdicts, and the
theorems hold for any number); three sessions give a loser of the insert and a late failure
while a third completes. Thresholds of ten observations are scaled to two or
three (`Scaled`), so that three cells meet and miss each of them; the rules depend
on them by comparison only. An answer that cites both makes a citation gap that
leaves the brand a citation to lose. Five rounds are what the decision table asks for HIGH. Four runs with two
at a time give a first round that refills and a second round after it. Symmetry
is used in the safety runs only, over sets whose elements the configuration does
not distinguish (`MCSymmetry`; in `components`, keys and requesters). Deadlock is checked in `quota_service` and the
violation run on it; the other instances run out of keys, requests, edits and
crashes and legitimately stop, so their configurations say so.

`NoWaitCycle` holds in `quota_service` with two sessions that may both expire. It
does not hold of every number: two expiry jobs that visit four reservations of two
periods in opposite orders wait for each other (the query fixes no order), and
PostgreSQL aborts one, which is `Abort`. That takes more keys than the instance
has. `CyclesNeedTwoExpiries` (below) proves that this is the only way, so the
docstring's "no circular lock dependencies" (`services/quota_service.py:23`) is
true as long as the job, which nothing under `app/` calls, runs once at a time
(`NobodyWaits`).

Fairness (`FairSpec`). Requests, once made, and workers that live go on; the broker
delivers a message some worker is free for; a provider call ends, in an answer or
in the adapter's timeout; each is weak fairness of the steps of one process. There
is none of the recovery job: the beat schedule (`workers/celery_app.py:31-44`) has
three other tasks, and no code calls `recover_stale_scans`, although
`docs/OPERATIONS.md:328` says it is automatic. `ScanSettles` is therefore what the
deployment does without it: a scan ends, unless nobody has it in hand any more
(`Abandoned`), and that has one of three causes, a death or loss, a message the
broker refused, a paid answer that could not be recorded. Rejected claims, expired
reservations, duplicate messages and races are not among them. `MCNoRecovery.cfg` shows
the documentation's claim false, and `MCRecoveryRefuses.cfg` that a recovery which *is*
run again and again (`RecoverySpec`, strongly fair per scan) does not end every
scan either. Death, loss and error steps have no fairness.

In `progress`: the sweep of each worker goes on (`ScheduledScans`), so a worker
that died starts again; beat runs the outbox's sweeps for ever, the broker
accepts some of a sweep's messages, and not every message loses the race with the
end of the sweep's session, which is strong fairness (`EmailOutbox`); requests,
hooks and evaluators that live go on, strongly where they wait for a row lock
(`Verification`). Deaths, refusals, edits and the passing of time have no
fairness. `PendingSettles` excepts a verification whose hook died, or left it after
a user had repeated the analysis that failed: nothing retries it
(`reconcile_verification_lifecycle` runs only for scans recovery ended).

Observed beside the runs; `PROJECT.json` "findings" has these with their lines:
an evidence bundle without web actions never
validates; marking a notification read is never committed; a skip overwrites the
`next_run_at` a user set; the check for an active scan hides the resumption of a
slot after a crash; two PUTs of the providers may leave the union; a competitor's
new name is no new revision; the second reading of a verification is not refreshed.
Smaller ones: the web's removals lock the keyword and then the project, the API
the project and then the keyword; `update_project` may give the project a
competitor's domain; a refresh of an older scan moves `latest_detected_scan_id`
back; a baseline survives IMPLEMENTED → DISMISSED → OPEN → IMPLEMENTED;
`terminalize_failed_scan` commits inside a creation and so drops its opportunity
lock, after which this creation, holding the project row and inserting a reference
to the opportunity, and another one, holding the opportunity and waiting for the
project row, may deadlock (the project row is no lock of the model, and PostgreSQL
aborts one of them); the `IntegrityError` branch of `_create_durable_plan` cannot be reached, as
the insert is flushed before the `try`. And `docs/SCAN_ENGINE.md:154` says that a
run whose accounting failed becomes FAILED; it stays RUNNING with
ACCOUNTING_UNRESOLVED, and so does its scan (that is why `ScanSettles` excepts
uncertain runs).

## 4. Proofs

Eight modules hold theorems. Each extends the module it is about and proves them
for any values of its constants: any numbers of workers, sessions, scans, requests
or opportunities, any plan of runs in rounds, any bounds on edits, crashes and
messages.

### What is proved

| Module | Theorem | Statement (each under `Spec`) |
|---|---|---|
| `QuotaLedgerProofs` | `TypeCorrect`, `StatusCorrect` | `TypeOK`, `StatusMatchesChecks` |
| | `ReservationFinality` | `ReservationIsFinal` |
| | `UsedIsExact`, `HeldIsCovered`, `EventsAddUp`, `NothingOversold` | `UsedExact`, `HeldCovered`, `EventsMatch`, `NoOversell` |
| | `HeldIsExact` | `HeldExact`, under `AppSpec` (no expiry) |
| `QuotaServiceProofs` | `TypeCorrect`, `RepliesTrue` | `TypeOK`, `ReplyTruthful` |
| | `ServiceImplementsLedger` | `ImplementsLedger`: the locks, copies and rollbacks refine the ledger |
| | `ServiceKeepsBooks` | the ledger's four sums, of the service's rows |
| | `CyclesNeedTwoExpiries` | sessions that wait for each other include two expiry jobs |
| | `NobodyWaits` | `NoWaitCycle`, when one session at most expires |
| `ScanLifecycleProofs` | `TypeCorrect`, `CalledAtMostOnce`, `UsageProven` | `TypeOK`, `CallAtMostOnce`, `UsageIsEvidence` |
| | `TerminalAccurate`, `TerminalReleased`, `TerminalForGood` | `TerminalScanAccurate`, `TerminalScanReleased`, `TerminalIsFinal` |
| | `RoundsOrdered`, `NothingAfterStop` | `RoundsInOrder`, `NoTaskAfterStop` |
| | `EvidencedRunKept` | `EvidencedRunNotWrittenOff`, when no worker is slow |
| | `ChargesMatch` | `ChargeMatchesRuns` |
| | `ScansKeepBooks` | the ledger's sums and statuses, of the scans' quota |
| `ScheduledScansProofs` | `TypeCorrect`, `OneScheduledScan`, `FutureSlot` | `TypeOK`, `NoOverlap`, `FirstFutureSlot` |
| `EmailOutboxProofs` | `TypeCorrect`, `SentOnce` | `TypeOK`, `NoAutomaticDuplicate` |
| `VerificationProofs` | `TypeCorrect`, `OneAtATime`, `LocksNeverMeet`, `MeasuredKept` | `TypeOK`, `OneMeasurementPerCycle`, `NoWaitCycle`, `MeasuredOutcomeKept` |
| `LiveValidationProofs` | `TypeCorrect`, `PassProven` | `TypeOK`, `ProvenPass` |
| `ComponentsProofs` | `TypeCorrect` | `TypeOK`, of all nine parts |
| | `OneScheduledScan`, `FutureSlot`, `SentOnce`, `OneAtATime`, `LocksNeverMeet`, `MeasuredKept`, `PassIsProof` | what the proof modules show, of the composition that `components` checks |
| | `CompletedForGood` | `CompletedAnalysisIsFinal` |
| | `ExactBill` | `BilledAsServed` |
| | `ResolvedForGoodReason`, `OneGap` | `ResolvedIsGone`, `SameEvidenceSameGap` |
| | `AsksWhatIsTracked`, `RepeatsItsBaseline` | `PlanMatchesInputs`, `MeasuresBaseline` |
| | `OneEvidence` | `MetricsAgree` |

Every safety property of a passing run is stated by one of these.

### From what

The assumptions are on constants only, and TLC evaluates them on every run.
`LedgerAssumption`, `ServiceAssumption`: finite sets of keys, positive checks, and
cleaners are sessions. `LifecycleAssumption`: every run belongs to a scan and a
round, every scan has between one and `MaxChecks` runs, there are finitely many
runs. `ScheduleAssumption`: intervals are positive. `OutboxAssumption`: finitely
many workers. `VerificationAssumption`: an evaluator is not a hook, a verdict is
one of the code's five. `LiveAssumption`, `BillingAssumption`: an
answer's actions are a sequence of names that are classified, its token counts are
natural numbers, a configured provider is one of the four there are, and a tariff's
`includes_…` flags say of a provider what its counts contain (a rule that says
otherwise is refused by no code, and its bills would be wrong; Google has no price
per search). `SetupAssumption`: finitely many keywords and providers, a baseline is
repeated at least once. `ActionAssumption`: the improvements that are asked for are
positive, as `core/verification_engine.py` has them, and a plan has at most 2,000,000
cells. `MetricAssumption`: the cells of a plan times the entities are at most
1,000,000. The last two are about rounding: a rate has four decimals of a percent,
so a part that is not empty is not shown as 0, and two shares of voice are not shown
as equal, only below those sizes. The largest plan that is sold has 10,000 checks a
month (`scripts/seed_plans.py:66-68`), about 51 entities. The others
(`NoRowAssumption`, `RowAssumption`, `AnalysisAssumption`, parts of the ones above)
say that an absent row is not a row, a number or anybody's name. Two theorems have a hypothesis of their own, both a
configuration of the system: `EvidencedRunKept` has `~SlowWorkers`, because
`recovery_race` shows the property false with slow workers; `NobodyWaits` has at
most one cleaner, for the reason given above.

### Along which argument

**QuotaLedger.** The inductive invariant `Core` is `TypeOK`, `CommittedWithin` (no
reservation commits more than it holds) and `StatusMatchesChecks`. `TypeOK` alone
is not inductive: `Consume` stays within `0..MaxChecks` only because a commit takes
at most what remains; and the remaining checks of an active reservation are
positive only because a fully committed one is no longer ACTIVE. The counters are
compared with the cardinality of sets of single checks `<<k, i>>`, which avoids
summing over reservations. Every operation moves a *slice* of one reservation, the
checks `a+1..b` of `k`: reserving adds a slice to `HeldChecks`, committing moves one
from `HeldChecks` to `CommittedChecks`, releasing removes one. The lemmas `AddSlice`
and `DropSlice` say what that does to a cardinality, `SliceCardinality` gives
`b - a`. `HeldExact` is inductive for `AppSpec`; an expiry removes the slices of all
expired reservations and credits one per period, which only keeps `HeldCovered`.
`NoOversell` follows from the guard of `Reserve` and from the fact that the other
steps never raise the sum of the two counters.

**QuotaService.** The invariant says of every session what its call is
(`CallPlaced`), what its copies are worth (`HandPlaced`: each is the row *as it
still is in the table*, changed by this session's own operation), and of any two
sessions that no row is copied by both (`AllApart`). It is what `SELECT … FOR
UPDATE` is for: without `AllApart` a commit of one session would falsify
`HandPlaced` of another. `PlacedStands` shows the first survives a commit because of
the second. `CommitWrites` then reads off `HandPlaced` that the one step which
changes the tables is one ledger operation, so the refinement needs no more, and
`ServiceKeepsBooks` carries the ledger's theorems over. For the locks, `Rank` orders
the steps of all calls (reservation, then period, then inserts); `WaitsUpwards`
shows that a session waits only for one of a higher rank, unless both are expiries.

**ScanLifecycle.** `IInv` has seventeen parts. Those about the present of the actors
say who may touch a scan: while a request may still refuse it, its runs are
untouched and it is the only such request (`CreationAgrees`, `OneCreator`); a scan
in the broker or at a worker was attached (`MessagesAgree`, `WorkersPlaced`); two
workers at one scan are both about to finalize it (`WorkersApart`, which needs that
a reservation found unusable stays so); what a task may still do to its run
(`TasksPlaced`, `TasksAgree`, `RunsAgree`). Those about rounds (`RoundsAgree`,
`RoundsFollow`) say that a round is entered when the earlier ones are over and
leaves the later ones alone. `CountsAgree` is there because `TerminalScanAccurate`
alone does not say the counts of a scan before it ends; `RecoveryAgrees` holds
recovery's first statement together with its second, and `RecoveryAlone` adds, when
no worker is slow, that nobody works on the scan it marks. `CallAtMostOnce` is
`RunsAgree` with the claim of a run; `TerminalScanReleased` needs `OneCreator`, as
nobody else may attach a reservation after the scan ended. For `ChargeMatchesRuns`
the reservation is followed beside the runs (`ReservedAsPlanned`: it is as large as
the scan has runs): a step of the scan changes the committed checks only as one of
the ledger's operations, `QuotaMoves` says which one each step may be, and a check is
committed in the very step that writes the usage event of a run (`RecordedEvents`).
A COMPLETED scan has as many events as runs, hence a reservation used up, which by
the ledger's `StatusMatchesChecks` is COMMITTED.

**ScheduledScans.** A sweep that decides about a schedule holds its advisory lock
(`DeciderHolds`), so two of them never decide about one (`DecidersApart`); the slot
whose scan it is creating is in the stage its step left it in (`CreationAgrees`),
which recovery respects; and at most one slot is active (`OneActive`). That a
sweep's `next_run_at` was due when read makes the closed form of the advance the
first boundary (`FirstBoundary`).

**EmailOutbox.** A mail needs a worker that sends, a sending worker has claimed the
row, a row can be claimed once when created and once per retry. The column
`attempts`, which the code keeps for other ends, stands between the two:
`ClaimsBounded` bounds it by the retries, `MailsBounded` bounds mails and senders by
it.

**Verification.** A running scan keeps its verification PENDING (`RowsAgree`), and
the unique index keeps one PENDING verification per opportunity and baseline
(`OnePending`). Requests settle only verifications whose scan FAILED
(`RequestsAgree`), hooks run after their scan ended (`HooksAgree`), and an
evaluation about to write holds the row and a decision that is the analysis'
verdict, or finds none (`DecisionsAgree`). Hence a measured outcome is rewritten
only with itself, except by a hook that settles from a FAILED row it was given
(`HoldsFailedRow`): `MeasuredOutcomeKept` names that exception, and
`MCOverwritten.cfg` shows that it is one.

**ScanAnalysis.** Who runs a pass holds the row (`RunnerHolds`); nobody holds a
completed one (`CompletedIsFree`), which has the evidence of exactly one pass
(`CompletedHasEvidence`).

**LiveValidation.** Whoever planned the run owns it, and is alone (`OneOwner`): the
row's `validation_id` is unique, and a second invocation finds it. A directory
belongs to the invocation that made it, even where two were given the same root, and
is damaged by nobody while that one goes on (`OwnBundle`). So the provider is called
by the owner only, who claims the run first (`OneCall`), what is written is of the
answer there was, and all of it unless its owner saw an error (`Written`). A run that
SUCCEEDED counted the actions of an answer without fault (`Succeeded`); a report that
says PASS read a valid bundle of that answer (`SaidPass`), also when it is made long
after by an invocation that only reuses it.

**ProviderBilling.** A bill is the computation of the answer at the only tariff that
was in force when the run started, or at none (`BilledOnce`): it is made in the step
that records the answer, and the model's rules change no more once the run has ended.
That this computation
is what the vendor charges is a lemma for each side of a bill (`InputWorth`,
`OutputWorth`), by the provider's flags: each class of tokens at its price, and the
ones a count contains not twice. `SuccessIsClean` brings what the validations of a
successful answer exclude.

**ActionCenter.** Every occurrence was found by a rule in the evidence of its scan
(`OccurrencesFound`, since evidence stays and the two caps only drop), and a verdict
is the evaluation of one (`VerdictIsEvaluation`). What remains is about the
operators: that the gap a rule found is, in the scope of its opportunity, the
baseline value the evaluation computes by other code, hence a difference of zero
against itself; and that a value at or below the threshold of resolution is not one
the same rule would find. `FirstIsPart` says that taking the first few of a sorted
set takes members of it, which is all that is needed of the order.

**ProjectSetup.** A prompt set of the project's current revision was made from what
is tracked now, unless a removal of the web pages tore the revision (`FreshIsNow`).
A plan keeps what it was made from (`PlansOK`): a STANDARD one the product of prompts
and providers, a CONFIDENCE one that product a number of times, with the entities of
its baseline. Each change of inputs needs one lemma, that it either moves the
revision or leaves the inputs of a prompt set alone.

**Metrics.** A step only collects evidence, so the invariant is the type and the
theorem is about what the operators compute from any evidence. The denominators and
numerators of a breakdown are those of the page filtered on it, and a prompt at one
provider is a measurement cell (`ShownIsFiltered`, `ReliabilityIsFiltered`). The
explanation's sets are the page's (`SameCells`), so its gaps are differences of
the rates shown, and, rounding being monotone (`PctGrows`) and faithful to that size
(`PctTellsApart`), their sign is the order of the leaderboard and of the shares of
voice. That the whole lies within its rounds is an argument over a number of rounds:
if every round were above the whole, so would any collection of rounds, since a
smallest collection that is not would have a last one (`SumOfRounds`, by
`LeastNat`). Agreement of all the entities is agreement of each, so it is rarer, and
the decision table never gives more for less (`LevelGrows`).

**Components.** A part that moves takes a step of its component, so
`part = "x" => IInv` of the component is inductive for the composition;
`…IsProved` identifies the definitions of the component with those of the proof
module's instance. The components without a proof module are proved in the
composition's own terms, with the operators of their instance.

### Only model-checked

- Liveness (`ScanSettles`, `DueIsEvaluated`, `PendingIsTaken`, `PendingSettles`):
  fairness is out of the prover's reach.
- What a fold computes of every input: the library's induction theorems take the
  induction hypothesis as an operator, which the installed provers cannot
  instantiate. Where an induction over numbers was needed it is done by a smallest
  counterexample (`SumOfRounds`). The order of opportunities and the two caps are
  part of the actions but no theorem says which ones they keep.
- The violations, by nature.

## 5. Not modelled

- *Detection and attribution* (`services/detection/`, `core/normalization.py`):
  matching of names and domains in text. What it finds is an input of
  `ScanAnalysis`, `GapRules` and `Metrics`.
- *Authentication, sessions, rate limits, CSRF*: independent of everything above,
  and made of single Redis and SQL commands.
- *Workspaces and membership*: insertion and role checks; the models take a caller
  who is allowed to call.
- *Pages* (`web/dashboard_service.py`, `web/view_models.py`, templates) *and the
  parsing of requests*: presentation. Handlers that change state themselves are in
  the component they belong to.
- *Schemas, migrations, deployment*: declarations.
- *CONFIDENCE creation's transactions*: its plan is in `ProjectSetup`; its commits
  follow STANDARD creation's, which `ScanLifecycle` has, and are not repeated.
- Data only: wording of prompts, texts, citations' titles, token counts beyond
  their classes, audit records (written in a session of their own after the
  commit, and never able to fail an operation).
- The components are not composed with each other in one state space, except the
  ledger with the scan engine. Where one uses another it takes every answer the
  other may give: quota and preflight in `ScheduledScans`, the end of a scan and
  the verdict in `Verification`, the evidence in `ActionCenter`. So what is checked
  of a component holds for more environments than the real one.
