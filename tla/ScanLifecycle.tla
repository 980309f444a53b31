--------------------------- MODULE ScanLifecycle ---------------------------
(***************************************************************************)
(* The life of a scan, from the request that creates it to its terminal    *)
(* status, with the quota it reserves and consumes.  The actors:           *)
(*                                                                         *)
(*   requests   ScanCreationService.create_scan: four transactions (create,*)
(*              reserve, attach, record the dispatch), any of which may be *)
(*              the last the process executes;                             *)
(*   broker     Celery messages that carry a scan id, acknowledged early:  *)
(*              delivered twice, lost, or taken by a worker that dies;     *)
(*   workers    ScanExecutionService: claims the scan, runs its PromptRuns *)
(*              as asyncio tasks, finalizes it;                            *)
(*   recovery   ScanRecoveryService.recover_stale_scans.                   *)
(*                                                                         *)
(* Each step is one database transaction, or one stretch of Python between *)
(* two awaits.  QuotaLedger gives the quota operations their effect.       *)
(***************************************************************************)
EXTENDS Integers, FiniteSets

CONSTANTS
    Scan,            \* scans, one per (workspace, idempotency key)
    Run,             \* PromptRuns
    ScanOf,          \* the scan a run was planned for
    RoundOf,         \* its observation_index; 1 in a STANDARD scan
    Request,         \* create_scan calls
    Target,          \* the scan (idempotency key) a request is about
    Worker,          \* Celery worker processes
    Workspace, Month,
    MaxChecks,       \* largest planned_ai_checks
    MaxLimit,        \* largest monthly_ai_checks
    MaxConcurrency,  \* scan_max_concurrency
    MaxMessages,     \* bound: messages in flight for one scan
    MaxCrashes,      \* bound: process deaths, lost messages, database errors
    Expiry,          \* TRUE: reservations may outlive their TTL and expire
    SlowWorkers,     \* TRUE: a scan may be stale while its worker lives
    NoRow

Runs(s) == {r \in Run : ScanOf[r] = s}

Planned(s) == Cardinality(Runs(s))

ASSUME LifecycleAssumption ==
    /\ ScanOf \in [Run -> Scan]
    /\ RoundOf \in [Run -> Nat \ {0}]
    /\ Target \in [Request -> Scan]
    /\ IsFiniteSet(Run)
    /\ MaxChecks \in Nat \ {0} /\ MaxLimit \in Nat
    /\ \A s \in Scan : Planned(s) \in 1..MaxChecks
    /\ MaxMessages \in Nat /\ MaxCrashes \in Nat
    /\ MaxConcurrency \in Nat \ {0}
    /\ Expiry \in BOOLEAN /\ SlowWorkers \in BOOLEAN

VARIABLES
    scan,       \* rows of scans
    run,        \* status of each PromptRun
    period, resv, usage, peak,   \* the quota tables (QuotaLedger)
    messages,   \* scan ids in the broker
    request,    \* where each create_scan call is, and the failure_code it read
    worker,     \* where each worker is
    task,       \* the asyncio task of each run of a scan being executed
    recovery,   \* where the recovery job is
    calls,      \* history: provider calls started for a run
    billed,     \* history: runs whose call the provider answered and billed
    evidenced,  \* history: those whose answer came with what accounting needs
    crashes

quota == <<period, resv, usage, peak>>
rows  == <<scan, run>>
procs == <<request, worker, task, recovery>>
ghost == <<calls, billed, evidenced>>
vars  == <<rows, quota, messages, procs, ghost, crashes>>

Quota == INSTANCE QuotaLedger WITH Key <- Scan, UsageKey <- Run

-----------------------------------------------------------------------------
(* Rows *)

Terminal == {"COMPLETED", "PARTIAL", "FAILED"}

Failure == {"none", "QUOTA_EXCEEDED", "DISPATCH_FAILED", "REJECTED"}

ScanRow ==
    [status : {"PENDING", "RUNNING"} \cup Terminal,
     attached : BOOLEAN,       \* quota_reservation_id is set
     dispatched : BOOLEAN,     \* dispatched_at is set
     failure : Failure,
     ok : Nat, failed : Nat]   \* successful_runs, failed_runs

NewScan ==
    [status |-> "PENDING", attached |-> FALSE, dispatched |-> FALSE,
     failure |-> "none", ok |-> 0, failed |-> 0]

ASSUME RowAssumption ==
    NoRow \notin Scan \cup ScanRow \cup Quota!Reservation \cup Quota!UsageEvent

RunStatus == {"PLANNED", "PENDING", "RUNNING", "SUCCEEDED", "FAILED"}

Exists(s) == scan[s] # NoRow

HasStatus(s, set) == Exists(s) /\ scan[s].status \in set

Unresolved(s) == {r \in Runs(s) : run[r] \in {"PENDING", "RUNNING"}}

RunsIn(s, status) == {r \in Runs(s) : run[r] = status}

(* mark_unresolved_failed *)
FailUnresolved(s) ==
    run' = [r \in Run |-> IF r \in Unresolved(s) THEN "FAILED" ELSE run[r]]

SetScan(s, row) == scan' = [scan EXCEPT ![s] = row]

(* The recovery job keeps the scan row locked from its check to its commit.*)
Unlocked(s) == ~(recovery.pc = "mark" /\ recovery.scan = s)

RequestState ==
    [pc : {"create", "reserve", "refuse", "attach", "dispatch", "dispatched",
           "undispatched", "done"},
     seen : Failure]

WorkerState ==
    [pc : {"idle", "round", "fill", "wait", "finalize"}, scan : Scan \cup {NoRow},
     round : Nat, stop : BOOLEAN]

NoWorker == [pc |-> "idle", scan |-> NoRow, round |-> 0, stop |-> FALSE]

NoRecovery == [pc |-> "idle", scan |-> NoRow]

Init ==
    /\ scan = [s \in Scan |-> NoRow]
    /\ run = [r \in Run |-> "PLANNED"]
    /\ Quota!Init
    /\ messages = [s \in Scan |-> 0]
    /\ request = [q \in Request |-> [pc |-> "create", seen |-> "none"]]
    /\ worker = [w \in Worker |-> NoWorker]
    /\ task = [r \in Run |-> "none"]
    /\ recovery = NoRecovery
    /\ calls = [r \in Run |-> 0]
    /\ billed = {}
    /\ evidenced = {}
    /\ crashes = 0

-----------------------------------------------------------------------------
(* create_scan *)

RequestGoes(q, from, to) ==
    /\ request[q].pc = from
    /\ request' = [request EXCEPT ![q].pc = to]

(* Transaction 1, under the project row lock: the scan and its plan. *)
CreateScan(q) ==
    LET s == Target[q] IN
    /\ ~Exists(s)
    /\ RequestGoes(q, "create", "reserve")
    /\ SetScan(s, NewScan)
    /\ run' = [r \in Run |-> IF r \in Runs(s) THEN "PENDING" ELSE run[r]]
    /\ UNCHANGED <<quota, messages, worker, task, recovery, ghost, crashes>>

(* The key is known: refused for its quota, resumed, or returned as it is. *)
ReuseScan(q) ==
    LET s == Target[q]
        resume == scan[s].status = "PENDING" /\ scan[s].attached /\ ~scan[s].dispatched
    IN
    /\ Exists(s)
    /\ request[q].pc = "create"
    /\ request' = [request EXCEPT ![q] =
                     IF scan[s].failure # "QUOTA_EXCEEDED" /\ resume
                     THEN [pc |-> "dispatch", seen |-> scan[s].failure]
                     ELSE [pc |-> "done", seen |-> "none"]]
    /\ UNCHANGED <<rows, quota, messages, worker, task, recovery, ghost, crashes>>

(* Mutant: one check more than the plan has runs. *)
ReserveOneMore(q) ==
    /\ RequestGoes(q, "reserve", "attach")
    /\ \E p \in Quota!Period : Quota!Reserve(Target[q], p, Planned(Target[q]) + 1)
    /\ UNCHANGED <<rows, messages, worker, task, recovery, ghost, crashes>>

(* Transaction 2: reserve_ai_checks(planned_ai_checks, "scan:{id}"). *)
ReserveQuota(q) ==
    LET s == Target[q] IN
    /\ RequestGoes(q, "reserve", "attach")
    /\ \E p \in Quota!Period : Quota!Reserve(s, p, Planned(s))
    /\ UNCHANGED <<rows, messages, worker, task, recovery, ghost, crashes>>

QuotaExceeded(q) ==
    /\ RequestGoes(q, "reserve", "refuse")
    /\ \E p \in Quota!Period :
         period[p].used + period[p].reserved + Planned(Target[q]) > peak[p[1]]
    /\ UNCHANGED <<rows, quota, messages, worker, task, recovery, ghost, crashes>>

(* Mutant: the scan fails, its runs stay PENDING. *)
MarkScanOnly(q) ==
    LET s == Target[q] IN
    /\ Unlocked(s)
    /\ RequestGoes(q, "refuse", "done")
    /\ SetScan(s, [scan[s] EXCEPT !.status = "FAILED", !.failed = Planned(s),
                                  !.failure = "QUOTA_EXCEEDED"])
    /\ UNCHANGED <<run, quota, messages, worker, task, recovery, ghost, crashes>>

(* _mark_quota_failed *)
MarkQuotaFailed(q) ==
    LET s == Target[q] IN
    /\ Unlocked(s)
    /\ RequestGoes(q, "refuse", "done")
    /\ SetScan(s, [scan[s] EXCEPT !.status = "FAILED", !.failed = Planned(s),
                                  !.failure = "QUOTA_EXCEEDED"])
    /\ FailUnresolved(s)
    /\ UNCHANGED <<quota, messages, worker, task, recovery, ghost, crashes>>

(* Transaction 3: scan.quota_reservation_id = reservation.id. *)
AttachReservation(q) ==
    LET s == Target[q] IN
    /\ Unlocked(s)
    /\ RequestGoes(q, "attach", "dispatch")
    /\ SetScan(s, [scan[s] EXCEPT !.attached = TRUE])
    /\ UNCHANGED <<run, quota, messages, worker, task, recovery, ghost, crashes>>

(* dispatcher.dispatch: publish, and return or raise.  A publish that      *)
(* raises may still have reached the broker.                               *)
Publish(q, arrives, to) ==
    LET s == Target[q] IN
    /\ RequestGoes(q, "dispatch", to)
    /\ IF arrives
       THEN /\ messages[s] < MaxMessages
            /\ messages' = [messages EXCEPT ![s] = @ + 1]
       ELSE UNCHANGED messages
    /\ UNCHANGED <<rows, quota, worker, task, recovery, ghost, crashes>>

Dispatch(q)       == Publish(q, TRUE, "dispatched")
DispatchRaises(q) == \E arrives \in BOOLEAN : Publish(q, arrives, "undispatched")

(* Transaction 4.  The row is written without a lock from an instance read *)
(* earlier: a failure_code is cleared only if that instance showed one.    *)
RecordDispatch(q) ==
    LET s == Target[q] IN
    /\ Unlocked(s)
    /\ RequestGoes(q, "dispatched", "done")
    /\ SetScan(s, [scan[s] EXCEPT
                     !.dispatched = TRUE,
                     !.failure = IF request[q].seen # "none" THEN "none" ELSE @])
    /\ UNCHANGED <<run, quota, messages, worker, task, recovery, ghost, crashes>>

RecordDispatchFailure(q) ==
    LET s == Target[q] IN
    /\ Unlocked(s)
    /\ RequestGoes(q, "undispatched", "done")
    /\ SetScan(s, [scan[s] EXCEPT
                     !.failure = IF request[q].seen # "DISPATCH_FAILED"
                                 THEN "DISPATCH_FAILED" ELSE @])
    /\ UNCHANGED <<run, quota, messages, worker, task, recovery, ghost, crashes>>

RequestDies(q) ==
    /\ request[q].pc \notin {"create", "done"}
    /\ crashes < MaxCrashes
    /\ crashes' = crashes + 1
    /\ request' = [request EXCEPT ![q].pc = "done"]
    /\ UNCHANGED <<rows, quota, messages, worker, task, recovery, ghost>>

-----------------------------------------------------------------------------
(* The broker and _claim_scan *)

LoseMessage(s) ==
    /\ messages[s] > 0
    /\ crashes < MaxCrashes
    /\ crashes' = crashes + 1
    /\ messages' = [messages EXCEPT ![s] = @ - 1]
    /\ UNCHANGED <<rows, quota, procs, ghost>>

Take(w, s) ==
    /\ worker[w].pc = "idle"
    /\ messages[s] > 0
    /\ Unlocked(s)
    /\ messages' = [messages EXCEPT ![s] = @ - 1]
    /\ UNCHANGED <<quota, request, recovery, ghost, crashes>>

Usable(s) == resv[s] # NoRow /\ resv[s].status \in {"ACTIVE", "COMMITTED"}

(* A duplicate delivery: the scan is not PENDING any more. *)
ClaimRefused(w, s) ==
    /\ scan[s].status # "PENDING"
    /\ Take(w, s)
    /\ UNCHANGED <<rows, worker, task>>

(* Mutant: the scan is left to somebody else to finalize. *)
ClaimRejectedOnly(w, s) ==
    /\ scan[s].status = "PENDING"
    /\ ~(scan[s].attached /\ Usable(s))
    /\ Take(w, s)
    /\ FailUnresolved(s)
    /\ SetScan(s, [scan[s] EXCEPT !.failure = "REJECTED"])
    /\ UNCHANGED <<worker, task>>

(* _reject_scan_before_execution; finalize follows in a second transaction.*)
ClaimRejected(w, s) ==
    /\ scan[s].status = "PENDING"
    /\ ~(scan[s].attached /\ Usable(s))
    /\ Take(w, s)
    /\ FailUnresolved(s)
    /\ SetScan(s, [scan[s] EXCEPT !.failure = "REJECTED"])
    /\ worker' = [worker EXCEPT ![w] = [NoWorker EXCEPT !.pc = "finalize", !.scan = s]]
    /\ UNCHANGED task

ClaimScan(w, s) ==
    /\ scan[s].status = "PENDING"
    /\ scan[s].attached /\ Usable(s)
    /\ Take(w, s)
    /\ SetScan(s, [scan[s] EXCEPT !.status = "RUNNING"])
    /\ worker' = [worker EXCEPT ![w] = [NoWorker EXCEPT !.pc = "round", !.scan = s]]
    /\ UNCHANGED <<run, task>>

Deliver(w, s) ==
    /\ Exists(s)
    /\ ClaimRefused(w, s) \/ ClaimRejected(w, s) \/ ClaimScan(w, s)

-----------------------------------------------------------------------------
(* execute_scan: rounds of asyncio tasks.  A task is queued (in the deque),*)
(* scheduled (created, not started), calling (awaiting the provider),      *)
(* answered_* (the response is there, the coroutine not resumed), done or  *)
(* fatal (it returned or raised), none (never created or collected).       *)

Evidenced == {"answered_ok", "answered_billed_failure"}
Answered == Evidenced \cup {"answered_failure"}
Started  == {"scheduled", "calling"} \cup Answered \cup {"done", "fatal"}
TaskState == {"none", "queued"} \cup Started

TasksIn(s, set) == {r \in Runs(s) : task[r] \in set}

WorkerOnly == UNCHANGED <<rows, quota, messages, request, recovery, ghost, crashes>>

(* Mutant: the first round takes the runs of every round. *)
AllRounds(w) ==
    LET s == worker[w].scan
        later == {r \in Runs(s) : RoundOf[r] > worker[w].round}
    IN
    /\ worker[w].pc = "round"
    /\ IF later = {}
       THEN /\ worker' = [worker EXCEPT ![w].pc = "finalize"]
            /\ UNCHANGED task
       ELSE /\ worker' = [worker EXCEPT ![w].pc = "fill", ![w].round = Cardinality(Run)]
            /\ task' = [r \in Run |-> IF r \in later THEN "queued" ELSE task[r]]
    /\ WorkerOnly

(* The next observation index that has runs, or the end of the last round. *)
NextRound(w) ==
    LET s == worker[w].scan
        later == {r \in Runs(s) : RoundOf[r] > worker[w].round}
    IN
    /\ worker[w].pc = "round"
    /\ \/ /\ later = {}
          /\ worker' = [worker EXCEPT ![w].pc = "finalize"]
          /\ UNCHANGED task
       \/ \E n \in {RoundOf[r] : r \in later} :
             /\ \A r \in later : n <= RoundOf[r]
             /\ worker' = [worker EXCEPT ![w].pc = "fill", ![w].round = n]
             /\ task' = [r \in Run |-> IF r \in later /\ RoundOf[r] = n
                                       THEN "queued" ELSE task[r]]
    /\ WorkerOnly

(* Create tasks up to scan_max_concurrency, in one go. *)
Fill(w) ==
    LET s == worker[w].scan
        queued == TasksIn(s, {"queued"})
        room == MaxConcurrency - Cardinality(TasksIn(s, Started))
    IN
    /\ worker[w].pc = "fill"
    /\ \E new \in SUBSET queued :
         /\ Cardinality(new) = IF Cardinality(queued) < room THEN Cardinality(queued) ELSE room
         /\ task' = [r \in Run |-> IF r \in new THEN "scheduled" ELSE task[r]]
    /\ worker' = [worker EXCEPT ![w].pc = "wait"]
    /\ WorkerOnly

(* Mutant: a fatal error ends the loop only when it is the last to come. *)
CollectForgetful(w) ==
    LET s == worker[w].scan
        done == TasksIn(s, {"done", "fatal"})
        active == TasksIn(s, Started) \ done
    IN
    /\ worker[w].pc = "wait"
    /\ done # {}
    /\ task' = [r \in Run |-> IF r \in done THEN "none" ELSE task[r]]
    /\ worker' = [worker EXCEPT ![w].stop = @ \/ TasksIn(s, {"fatal"}) # {},
                                ![w].pc = IF active = {} /\ TasksIn(s, {"queued"}) = {}
                                          THEN "round" ELSE "fill"]
    /\ WorkerOnly

(* asyncio.wait(FIRST_COMPLETED) returned: collect, refill unless a fatal  *)
(* error was seen, leave when nothing is active.                           *)
Collect(w) ==
    LET s == worker[w].scan
        done == TasksIn(s, {"done", "fatal"})
        stop == worker[w].stop \/ TasksIn(s, {"fatal"}) # {}
        active == TasksIn(s, Started) \ done
        gone == IF stop /\ active = {} THEN Runs(s) ELSE done
    IN
    /\ worker[w].pc = "wait"
    /\ done # {}
    /\ task' = [r \in Run |-> IF r \in gone THEN "none" ELSE task[r]]
    /\ worker' = [worker EXCEPT ![w] =
                    IF active = {} /\ stop THEN NoWorker
                    ELSE [@ EXCEPT !.stop = stop,
                                   !.pc = IF stop THEN "wait"
                                          ELSE IF active = {} /\ TasksIn(s, {"queued"}) = {}
                                          THEN "round" ELSE "fill"]]
    /\ WorkerOnly

Waiting(r) == \E w \in Worker : worker[w].pc = "wait" /\ worker[w].scan = ScanOf[r]

Move(r, from, to) ==
    /\ task[r] = from
    /\ Waiting(r)
    /\ task' = [task EXCEPT ![r] = to]

TaskOnly == UNCHANGED <<messages, request, worker, recovery, crashes>>

(* _claim_run, then the provider call; nothing to do when the run is not   *)
(* PENDING, FAILED when its prompt is gone.                                *)
StartRun(r) ==
    /\ run[r] = "PENDING"
    /\ \/ /\ Move(r, "scheduled", "calling")
          /\ run' = [run EXCEPT ![r] = "RUNNING"]
          /\ calls' = [calls EXCEPT ![r] = @ + 1]
       \/ /\ Move(r, "scheduled", "done")
          /\ run' = [run EXCEPT ![r] = "FAILED"]
          /\ UNCHANGED calls
    /\ UNCHANGED <<scan, quota, billed, evidenced>>
    /\ TaskOnly

SkipRun(r) ==
    /\ run[r] # "PENDING"
    /\ Move(r, "scheduled", "done")
    /\ UNCHANGED <<rows, quota, ghost>>
    /\ TaskOnly

(* Mutant: a call that failed is sent again. *)
ProviderAnswersOrRetry(r) ==
    /\ \/ /\ TasksIn(ScanOf[r], {"scheduled"}) = {}
          /\ \E a \in Evidenced : Move(r, "calling", a)
          /\ billed' = billed \cup {r} /\ evidenced' = evidenced \cup {r}
          /\ UNCHANGED calls
       \/ /\ calls[r] < 2
          /\ Move(r, "calling", "calling")
          /\ calls' = [calls EXCEPT ![r] = @ + 1]
          /\ UNCHANGED <<billed, evidenced>>
    /\ UNCHANGED <<rows, quota>>
    /\ TaskOnly

(* The provider answers: a usable result, a billed but unusable response,  *)
(* or an error (a timeout included) it does not bill.  Only the OpenAI     *)
(* adapter sends the evidence of an unusable response along; the others    *)
(* raise an error without it, as if nothing was billed.  The event loop    *)
(* runs the tasks just created before a coroutine whose response comes in  *)
(* later; an error may also be raised before anything is sent.             *)
ProviderAnswers(r) ==
    /\ \/ /\ TasksIn(ScanOf[r], {"scheduled"}) = {}
          /\ \E a \in Answered :
                /\ Move(r, "calling", a)
                /\ evidenced' = IF a \in Evidenced THEN evidenced \cup {r} ELSE evidenced
          /\ billed' = billed \cup {r}
       \/ /\ Move(r, "calling", "answered_failure")
          /\ UNCHANGED <<billed, evidenced>>
    /\ UNCHANGED <<rows, quota, calls>>
    /\ TaskOnly

(* Mutant: the run is marked before its check is committed. *)
RecordStatusFirst(r) ==
    /\ run[r] = "RUNNING"
    /\ Move(r, "answered_ok", "done")
    /\ run' = [run EXCEPT ![r] = "SUCCEEDED"]
    /\ UNCHANGED <<scan, quota, ghost>>
    /\ TaskOnly

(* Mutant: what the quota service refuses is recorded all the same. *)
RecordDespiteRefusal(r) ==
    /\ run[r] = "RUNNING"
    /\ Move(r, "answered_ok", "done")
    /\ run' = [run EXCEPT ![r] = "SUCCEEDED"]
    /\ IF Usable(ScanOf[r]) THEN Quota!Commit(ScanOf[r], 1, r) ELSE UNCHANGED quota
    /\ UNCHANGED <<scan, ghost>>
    /\ TaskOnly

(* Mutant: the status of the run is not read again. *)
RecordAnyStatus(r) ==
    /\ Move(r, "answered_ok", "done")
    /\ scan[ScanOf[r]].attached
    /\ run' = [run EXCEPT ![r] = "SUCCEEDED"]
    /\ Quota!Commit(ScanOf[r], 1, r)
    /\ UNCHANGED <<scan, ghost>>
    /\ TaskOnly

(* PromptRunResultRecorder.record / record_failure_evidence: one check, one*)
(* usage event and the run's terminal status in one transaction.           *)
RecordEvidence(r) ==
    /\ run[r] = "RUNNING"
    /\ scan[ScanOf[r]].attached
    /\ \/ /\ Move(r, "answered_ok", "done")
          /\ run' = [run EXCEPT ![r] = "SUCCEEDED"]
       \/ /\ Move(r, "answered_billed_failure", "done")
          /\ run' = [run EXCEPT ![r] = "FAILED"]
    /\ Quota!Commit(ScanOf[r], 1, r)
    /\ UNCHANGED <<scan, ghost>>
    /\ TaskOnly

(* The recorder raised (contract, pricing, quota, database, a run that was *)
(* failed meanwhile): roll back, mark the incident, re-raise.  The run     *)
(* stays as it is; ACCOUNTING_UNRESOLVED only annotates it.                *)
RecordRaises(r) ==
    /\ \/ Move(r, "answered_ok", "fatal")
       \/ Move(r, "answered_billed_failure", "fatal")
    /\ UNCHANGED <<rows, quota, ghost>>
    /\ TaskOnly

(* _record_failure: no usage, no check - whether the error came without a  *)
(* bill or only without the evidence of one.                               *)
RecordFailure(r) ==
    /\ Move(r, "answered_failure", "done")
    /\ run' = [run EXCEPT ![r] = IF @ = "RUNNING" THEN "FAILED" ELSE @]
    /\ UNCHANGED <<scan, quota, ghost>>
    /\ TaskOnly

(* The transaction of _claim_run or _record_failure fails: nothing catches *)
(* it before the loop does.                                                *)
DatabaseFails(r) ==
    /\ crashes < MaxCrashes
    /\ crashes' = crashes + 1
    /\ Move(r, "scheduled", "fatal") \/ Move(r, "answered_failure", "fatal")
    /\ UNCHANGED <<rows, quota, messages, request, worker, recovery, ghost>>

RunStep(r) ==
    \/ StartRun(r)
    \/ SkipRun(r)
    \/ ProviderAnswers(r)
    \/ RecordEvidence(r)
    \/ RecordRaises(r)
    \/ RecordFailure(r)

WorkerDies(w) ==
    /\ worker[w].pc # "idle"
    /\ crashes < MaxCrashes
    /\ crashes' = crashes + 1
    /\ worker' = [worker EXCEPT ![w] = NoWorker]
    /\ task' = [r \in Run |-> IF ScanOf[r] = worker[w].scan THEN "none" ELSE task[r]]
    /\ UNCHANGED <<rows, quota, messages, request, recovery, ghost>>

-----------------------------------------------------------------------------
(* ScanFinalizationService.finalize: one transaction, the scan row locked. *)

Classify(s) ==
    LET ok == Cardinality(RunsIn(s, "SUCCEEDED")) IN
    [scan[s] EXCEPT !.ok = ok,
                    !.failed = Cardinality(RunsIn(s, "FAILED")),
                    !.status = IF ok = Planned(s) THEN "COMPLETED"
                               ELSE IF ok > 0 THEN "PARTIAL" ELSE "FAILED"]

(* Mutant: only a scan without any result gives its checks back. *)
ReleaseWhenAllFailed(s) ==
    IF scan[s].attached /\ s \in Quota!Active /\ RunsIn(s, "SUCCEEDED") = {}
    THEN Quota!Release(s)
    ELSE UNCHANGED quota

(* release_reservation of an attached reservation; a terminal one is a     *)
(* no-op.                                                                  *)
ReleaseUnused(s) ==
    IF scan[s].attached /\ s \in Quota!Active
    THEN Quota!Release(s)
    ELSE UNCHANGED quota

(* finalize returns: the scan was terminal (reconciled), or is now.        *)
FinalizeScan(s) ==
    /\ Unlocked(s)
    /\ \/ /\ scan[s].status \in Terminal
          /\ UNCHANGED scan
       \/ /\ scan[s].status \notin Terminal
          /\ Unresolved(s) = {}
          /\ SetScan(s, Classify(s))
    /\ ReleaseUnused(s)
    /\ UNCHANGED <<run, messages, request, task, ghost, crashes>>

(* finalize raises ConflictError: there are unresolved runs. *)
FinalizeRefused(s) ==
    /\ Unlocked(s)
    /\ scan[s].status \notin Terminal
    /\ Unresolved(s) # {}
    /\ UNCHANGED <<rows, quota, messages, request, task, ghost, crashes>>

WorkerFinalizes(w) ==
    /\ worker[w].pc = "finalize"
    /\ FinalizeScan(worker[w].scan) \/ FinalizeRefused(worker[w].scan)
    /\ worker' = [worker EXCEPT ![w] = NoWorker]
    /\ UNCHANGED recovery

-----------------------------------------------------------------------------
(* ScanRecoveryService._recover_one *)

(* Time enough may have passed for any scan whose request has ended; for a *)
(* running one only when its worker is gone, unless workers may be slow.   *)
Stale(s) ==
    /\ \A q \in Request : Target[q] = s => request[q].pc \in {"create", "done"}
    /\ HasStatus(s, {"PENDING", "RUNNING"})
    /\ SlowWorkers \/ \A w \in Worker : worker[w].scan # s

(* Mutant: does not look for RUNNING runs. *)
RecoveryTakesAny(s) ==
    /\ recovery.pc = "idle"
    /\ Stale(s)
    /\ recovery' = [pc |-> "mark", scan |-> s]
    /\ UNCHANGED <<rows, quota, messages, request, worker, task, ghost, crashes>>

(* Lock the scan and look for RUNNING runs: with one, the job gives up.    *)
RecoveryChecks(s) ==
    /\ recovery.pc = "idle"
    /\ Stale(s)
    /\ RunsIn(s, "RUNNING") = {}
    /\ recovery' = [pc |-> "mark", scan |-> s]
    /\ UNCHANGED <<rows, quota, messages, request, worker, task, ghost, crashes>>

(* The rows mark_unresolved_failed selects now, in a later statement.      *)
RecoveryMarks ==
    /\ recovery.pc = "mark"
    /\ recovery' = [recovery EXCEPT !.pc = "finalize"]
    /\ FailUnresolved(recovery.scan)
    /\ UNCHANGED <<scan, quota, messages, request, worker, task, ghost, crashes>>

RecoveryFinalizes ==
    /\ recovery.pc = "finalize"
    /\ FinalizeScan(recovery.scan) \/ FinalizeRefused(recovery.scan)
    /\ recovery' = NoRecovery
    /\ UNCHANGED worker

RecoveryDies ==
    /\ recovery.pc # "idle"
    /\ crashes < MaxCrashes
    /\ crashes' = crashes + 1
    /\ recovery' = NoRecovery
    /\ UNCHANGED <<rows, quota, messages, request, worker, task, ghost>>

Recovery == (\E s \in Scan : RecoveryChecks(s)) \/ RecoveryMarks \/ RecoveryFinalizes

-----------------------------------------------------------------------------

(* expire_stale_reservations, one reservation at a time. *)
ExpireReservation(s) ==
    /\ Expiry
    /\ Quota!Expire({s}, [p \in Quota!Period |-> s])
    /\ UNCHANGED <<rows, messages, procs, ghost, crashes>>

RequestStep(q) ==
    \/ CreateScan(q) \/ ReuseScan(q)
    \/ ReserveQuota(q) \/ QuotaExceeded(q) \/ MarkQuotaFailed(q)
    \/ AttachReservation(q)
    \/ Dispatch(q) \/ DispatchRaises(q)
    \/ RecordDispatch(q) \/ RecordDispatchFailure(q)

WorkerStep(w) == NextRound(w) \/ Fill(w) \/ Collect(w) \/ WorkerFinalizes(w)

Next ==
    \/ \E q \in Request : RequestStep(q) \/ RequestDies(q)
    \/ \E s \in Scan : LoseMessage(s) \/ ExpireReservation(s)
    \/ \E w \in Worker : WorkerStep(w) \/ WorkerDies(w)
    \/ \E w \in Worker, s \in Scan : Deliver(w, s)
    \/ \E r \in Run : RunStep(r) \/ DatabaseFails(r)
    \/ Recovery
    \/ RecoveryDies

Spec == Init /\ [][Next]_vars

(* Processes that live go on - a request once it was made -, the broker    *)
(* delivers, providers answer or time out.  Nothing starts the recovery    *)
(* job: celery_app.py schedules other tasks, and no code calls it.         *)
Fairness ==
    /\ \A q \in Request : WF_vars(request[q].pc # "create" /\ RequestStep(q))
    /\ \A w \in Worker : WF_vars(WorkerStep(w))
    /\ \A s \in Scan : WF_vars(\E w \in Worker : Deliver(w, s))
    /\ \A r \in Run : WF_vars(RunStep(r))
    /\ WF_vars(RecoveryMarks)
    /\ WF_vars(RecoveryFinalizes)

FairSpec == Spec /\ Fairness

(* An operator runs the recovery job by hand, again and again. *)
RecoverySpec == FairSpec /\ \A s \in Scan : SF_vars(RecoveryChecks(s))

-----------------------------------------------------------------------------
(* Properties *)

TypeOK ==
    /\ scan \in [Scan -> ScanRow \cup {NoRow}]
    /\ run \in [Run -> RunStatus]
    /\ Quota!TypeOK
    /\ messages \in [Scan -> 0..MaxMessages]
    /\ request \in [Request -> RequestState]
    /\ worker \in [Worker -> WorkerState]
    /\ task \in [Run -> TaskState]
    /\ recovery \in [pc : {"idle", "mark", "finalize"}, scan : Scan \cup {NoRow}]
    /\ calls \in [Run -> Nat]
    /\ evidenced \subseteq billed /\ billed \subseteq Run
    /\ crashes \in 0..MaxCrashes

(* A terminal scan has no PENDING or RUNNING run, whoever made it terminal *)
(* - its worker, a worker that rejected it, the request whose quota was    *)
(* refused, or recovery racing any of them - and its counts and status say *)
(* what its runs say.                                                      *)
TerminalScanAccurate ==
    \A s \in Scan :
        HasStatus(s, Terminal) =>
            /\ Unresolved(s) = {}
            /\ scan[s].ok = Cardinality(RunsIn(s, "SUCCEEDED"))
            /\ scan[s].failed = Cardinality(RunsIn(s, "FAILED"))
            /\ scan[s].status = "COMPLETED" <=> scan[s].ok = Planned(s)
            /\ scan[s].status = "FAILED" <=> scan[s].ok = 0

(* A provider is called at most once for a run: duplicate deliveries,      *)
(* retries of the request and recovery never repeat a paid call.           *)
CallAtMostOnce == \A r \in Run : calls[r] <= 1

(* A run that SUCCEEDED has its usage event; an event belongs to a billed  *)
(* call, whose evidence came, of a run that is over, on the reservation of *)
(* the run's scan.                                                         *)
UsageIsEvidence ==
    \A r \in Run :
        /\ run[r] = "SUCCEEDED" => usage[r] # NoRow
        /\ usage[r] # NoRow =>
             /\ r \in evidenced
             /\ run[r] \in {"SUCCEEDED", "FAILED"}
             /\ usage[r].key = ScanOf[r]
             /\ usage[r].checks = 1

(* A run whose billed answer came with its evidence is never written off   *)
(* as FAILED without its usage event: it is accounted, or stays RUNNING.   *)
EvidencedRunNotWrittenOff ==
    \A r \in evidenced : run[r] = "FAILED" => usage[r] # NoRow

(* The same of every billed answer.  scan_execution_service.py:373 says of *)
(* the errors whose runs end FAILED without usage: "error before any       *)
(* billable response (config, auth, 429, timeout, 5xx, transport)".        *)
BilledRunNotWrittenOff ==
    \A r \in billed : run[r] = "FAILED" => usage[r] # NoRow

Recorded(s) == {r \in Runs(s) : usage[r] # NoRow}

(* What a scan's customer is charged is what its runs show, although       *)
(* reservations expire under a running scan, recorders are refused and     *)
(* messages come twice: a check per recorded answer and no other, at least *)
(* one for every success that is reported, and a COMPLETED scan has used   *)
(* the whole reservation up.                                               *)
ChargeMatchesRuns ==
    \A s \in Scan :
        /\ Cardinality(Recorded(s)) = IF resv[s] = NoRow THEN 0 ELSE resv[s].committed
        /\ HasStatus(s, Terminal) => scan[s].ok <= Cardinality(Recorded(s))
        /\ HasStatus(s, {"COMPLETED"}) => resv[s] # NoRow /\ resv[s].status = "COMMITTED"

(* A terminal scan has given back what it did not use of the reservation   *)
(* it knows.                                                               *)
TerminalScanReleased ==
    \A s \in Scan :
        HasStatus(s, Terminal) /\ scan[s].attached => s \notin Quota!Active

(* "This guarantees a terminal Scan never strands an active reservation    *)
(* with unused reserved checks."                                           *)
NoStrandedReservation ==
    \A s \in Scan : HasStatus(s, Terminal) => s \notin Quota!Active

(* A later round of a CONFIDENCE scan calls no provider before every run   *)
(* of the earlier rounds is over.                                          *)
RoundsInOrder ==
    \A r1, r2 \in Run :
        ScanOf[r1] = ScanOf[r2] /\ RoundOf[r1] < RoundOf[r2] /\ calls[r2] > 0
            => run[r1] \in {"SUCCEEDED", "FAILED"}

(* Terminal statuses are for good, of scans (with their counts) and runs.  *)
TerminalIsFinal ==
    [][/\ \A s \in Scan :
            HasStatus(s, Terminal) =>
                /\ scan'[s].status = scan[s].status
                /\ scan'[s].ok = scan[s].ok
                /\ scan'[s].failed = scan[s].failed
       /\ \A r \in Run : run[r] \in {"SUCCEEDED", "FAILED"} => run'[r] = run[r]]_vars

(* Once the loop has seen a fatal error it creates no task: the calls that *)
(* still start are of tasks created before.                                *)
NoTaskAfterStop ==
    [][\A w \in Worker, r \in Run :
         worker[w].stop /\ ScanOf[r] = worker[w].scan /\ task[r] \in {"none", "queued"}
            => task'[r] \in {"none", "queued"}]_vars

(* What the docstring of _execute_run_ids says (scan_execution_service.py: *)
(* 198): "When a fatal accounting error occurs, NO new provider calls      *)
(* start."                                                                 *)
NoCallAfterFatal ==
    [][\A r \in Run : calls'[r] # calls[r] => TasksIn(ScanOf[r], {"fatal"}) = {}]_vars

(* A run that was left RUNNING with nobody executing it. *)
Uncertain(s) == \E r \in RunsIn(s, "RUNNING") : task[r] = "none"

(* No request, message, worker or recovery will take the scan further.     *)
Abandoned(s) ==
    /\ \A q \in Request : Target[q] = s => request[q].pc \in {"create", "done"}
    /\ messages[s] = 0
    /\ \A w \in Worker : worker[w].scan # s
    /\ recovery.scan # s

(* Every scan ends without recovery's help, whatever races, is delivered   *)
(* twice, fails or is refused - unless all who had it in hand are gone,    *)
(* and that because a process or message was lost, the broker refused the  *)
(* message, or a paid answer could not be recorded.                        *)
ScanSettles ==
    \A s \in Scan :
        Exists(s) ~> \/ HasStatus(s, Terminal)
                     \/ /\ Exists(s) /\ Abandoned(s)
                        /\ crashes > 0 \/ scan[s].failure = "DISPATCH_FAILED" \/ Uncertain(s)

(* docs/OPERATIONS.md:328: "Stale scans are recovered automatically"; what *)
(* recovery refuses, a run that may have been billed, is not asked for.    *)
RecoveredAutomatically ==
    \A s \in Scan : Exists(s) ~> HasStatus(s, Terminal) \/ Uncertain(s)

(* docs/SCAN_ENGINE.md:190, of recovery: "It marks unresolved              *)
(* `PENDING`/`RUNNING` runs `FAILED` [...], then uses normal finalization".*)
RecoveryFinishes == \A s \in Scan : Exists(s) ~> HasStatus(s, Terminal)
=============================================================================
