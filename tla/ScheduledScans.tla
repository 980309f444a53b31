--------------------------- MODULE ScheduledScans ---------------------------
(***************************************************************************)
(* Recurring STANDARD scans: the schedule.dispatch_due sweeps of several   *)
(* Celery workers (app/services/scheduled_scan_service.py), the user's PUT *)
(* and DELETE of a schedule, and the life of the scans the sweeps create.  *)
(*                                                                         *)
(* A sweep holds a session whose transaction-scoped advisory lock on a     *)
(* schedule is lock[s]; the scan is created step by step in a second       *)
(* session, each step of which commits.  Time is a bounded clock whose     *)
(* unit divides every interval.  The answers of the preflight and of the   *)
(* quota ledger are inputs here (ScanLifecycle, QuotaService).             *)
(***************************************************************************)
EXTENDS Integers, FiniteSets

CONSTANTS
    Worker, Schedule,
    Interval,     \* the interval_hours a user or a plan may name
    FirstRun,     \* the first_run_at a user may name
    MaxTime,      \* bound of the clock
    MaxEdits,     \* bound of the changes users and administrators make
    MaxCrashes,   \* bound of the worker crashes
    None

VARIABLES
    clock,
    sched,        \* project_scan_schedules, one row per project, or None
    minInterval,  \* min_scheduled_scan_interval_hours of the plan, or None
    active,       \* is the schedule's project ACTIVE
    scan,         \* the scans of a schedule, by the slot of their key
    lock,         \* pg_try_advisory_xact_lock: the worker that holds it
    wk,           \* what each worker's sweep does next and has read
    edits, crashes

vars == <<clock, sched, minInterval, active, scan, lock, wk, edits, crashes>>

Time == 0 .. MaxTime
Slot == Schedule \X Time

(* The stages of a slot's scan.  The first three are PENDING or RUNNING:   *)
(* planned without a reservation, reserved and not dispatched, dispatched. *)
ActiveStage == {"planned", "reserved", "dispatched"}
Stage == {"none", "quota_failed", "ended"} \cup ActiveStage

Outcome == {"TRIGGERED", "SKIPPED_ENTITLEMENT", "SKIPPED_PROJECT_INACTIVE",
            "SKIPPED_ACTIVE_SCAN", "SKIPPED_NOT_READY", "SKIPPED_QUOTA",
            "DISPATCH_FAILED"}

Row == [enabled : BOOLEAN, interval : Interval, next : Nat,
        outcome : Outcome \cup {None}, scan : Time \cup {None}]

(* What the constants are; a module that instantiates this one assumes it.*)
ScheduleAssumption ==
    /\ Interval \subseteq Nat \ {0}
    /\ IsFiniteSet(Interval)
    /\ MaxTime \in Nat
    /\ FirstRun \subseteq Nat
    /\ None \notin Schedule \cup Worker
    /\ None \notin Row
    /\ None \notin Outcome

Idle == [pc |-> "idle", now |-> 0, s |-> None, row |-> None,
         done |-> {}, why |-> None]

Init ==
    /\ clock = 0
    /\ sched = [s \in Schedule |-> None]
    /\ minInterval \in Interval \cup {None}
    /\ active = [s \in Schedule |-> TRUE]
    /\ scan = [x \in Slot |-> "none"]
    /\ lock = [s \in Schedule |-> None]
    /\ wk = [w \in Worker |-> Idle]
    /\ edits = 0
    /\ crashes = 0

-----------------------------------------------------------------------------
(* Reads *)

Due(row, now) == row # None /\ row.enabled /\ row.next <= now

(* Mutant: one interval on, and that boundary may still be due. *)
AdvanceOnce(next, interval, now) ==
    IF next <= now THEN next + interval ELSE next

(* Where the loop "while next <= now: next += interval" stops: the first   *)
(* boundary after now, whatever number of them passed unattended.          *)
Advance(next, interval, now) ==
    IF next <= now THEN next + interval * ((now - next) \div interval + 1) ELSE next

Entitled(interval) == minInterval # None /\ interval >= minInterval

(* Mutant: a RUNNING scan is not seen. *)
HasPendingScan(s) == \E t \in Time : scan[<<s, t>>] \in {"planned", "reserved"}

(* _find_active_scheduled_scan: PENDING or RUNNING, whatever its slot. *)
HasActiveScan(s) == \E t \in Time : scan[<<s, t>>] \in ActiveStage

-----------------------------------------------------------------------------
(* One sweep: process_due_schedules *)

Do(w, from, next) == wk[w].pc = from /\ wk' = [wk EXCEPT ![w] = next]

Others == <<clock, minInterval, active, edits, crashes>>

(* A commit or rollback of the sweep's session drops its advisory locks.   *)
Unlocked(w) == [s \in Schedule |-> IF lock[s] = w THEN None ELSE lock[s]]

StartSweep(w) ==
    /\ Do(w, "idle", [Idle EXCEPT !.pc = "find", !.now = clock])
    /\ UNCHANGED <<sched, scan, lock, Others>>

(* The earliest due schedule not yet visited; no row lock. *)
FindDue(w) ==
    /\ wk[w].pc = "find"
    /\ \E s \in Schedule \ wk[w].done :
        /\ Due(sched[s], wk[w].now)
        /\ \A r \in Schedule \ wk[w].done :
              Due(sched[r], wk[w].now) => sched[s].next <= sched[r].next
        /\ Do(w, "find", [wk[w] EXCEPT !.pc = "lock", !.s = s])
    /\ UNCHANGED <<sched, scan, lock, Others>>

EndSweep(w) ==
    /\ Do(w, "find", Idle)
    /\ \A s \in Schedule \ wk[w].done : ~Due(sched[s], wk[w].now)
    /\ lock' = Unlocked(w)
    /\ UNCHANGED <<sched, scan, Others>>

Visited(w) == [wk[w] EXCEPT !.pc = "find", !.s = None, !.row = None,
                            !.why = None, !.done = @ \cup {wk[w].s}]

(* A schedule another worker owns is passed over. *)
PassOver(w) ==
    /\ Do(w, "lock", Visited(w))
    /\ lock[wk[w].s] \notin {None, w}
    /\ UNCHANGED <<sched, scan, lock, Others>>

(* The lock is taken and the row read again; if it is no longer due the    *)
(* sweep goes on, keeping the lock until its next commit.                  *)
LockAndReread(w) ==
    LET s == wk[w].s IN
    /\ Do(w, "lock", IF Due(sched[s], wk[w].now)
                     THEN [wk[w] EXCEPT !.pc = "check", !.row = sched[s]]
                     ELSE Visited(w))
    /\ lock[s] \in {None, w}
    /\ lock' = [lock EXCEPT ![s] = w]
    /\ UNCHANGED <<sched, scan, Others>>

(* Mutant: the outcome is recorded and next_run_at left where it was. *)
SkipInPlace(w, why) ==
    LET s == wk[w].s IN
    /\ sched' = [sched EXCEPT ![s].outcome = why]
    /\ lock' = Unlocked(w)
    /\ wk' = [wk EXCEPT ![w] = Visited(w)]

(* _skip: next_run_at is computed from the row as it was read, and written *)
(* over whatever the table holds by now.                                   *)
Skip(w, why) ==
    LET s == wk[w].s  row == wk[w].row IN
    /\ sched' = [sched EXCEPT
                    ![s].outcome = why,
                    ![s].next = Advance(row.next, row.interval, wk[w].now)]
    /\ lock' = Unlocked(w)
    /\ wk' = [wk EXCEPT ![w] = Visited(w)]

Refusal(s, row) ==
    CASE ~Entitled(row.interval) -> "SKIPPED_ENTITLEMENT"
      [] Entitled(row.interval) /\ ~active[s] -> "SKIPPED_PROJECT_INACTIVE"
      [] Entitled(row.interval) /\ active[s] /\ HasActiveScan(s) -> "SKIPPED_ACTIVE_SCAN"
      [] OTHER -> None

Refuse(w) ==
    /\ wk[w].pc = "check"
    /\ Refusal(wk[w].s, wk[w].row) # None
    /\ Skip(w, Refusal(wk[w].s, wk[w].row))
    /\ UNCHANGED <<scan, Others>>

-----------------------------------------------------------------------------
(* ScanCreationService.create_scan in the independent session *)

TheSlot(w) == <<wk[w].s, wk[w].row.next>>

Fails(w, why) == [wk[w] EXCEPT !.pc = "fail", !.why = why]

(* Nothing refused the slot.  A key that is in the table returns its scan, *)
(* or dispatches it if that is all that is missing; a new key is planned.  *)
Plan(w) ==
    LET found == scan[TheSlot(w)]
        next == [none |-> "reserve", reserved |-> "dispatch", planned |-> "finish",
                 dispatched |-> "finish", ended |-> "finish"]
    IN
    /\ Do(w, "check", IF found = "quota_failed" THEN Fails(w, "SKIPPED_QUOTA")
                      ELSE [wk[w] EXCEPT !.pc = next[found]])
    /\ Refusal(wk[w].s, wk[w].row) = None
    /\ scan' = IF found = "none" THEN [scan EXCEPT ![TheSlot(w)] = "planned"] ELSE scan
    /\ UNCHANGED <<sched, lock, Others>>

(* The project is not ACTIVE, has no current prompt set or provider. *)
PreflightFails(w) ==
    /\ Do(w, "check", Fails(w, "SKIPPED_NOT_READY"))
    /\ Refusal(wk[w].s, wk[w].row) = None
    /\ scan[TheSlot(w)] = "none"
    /\ UNCHANGED <<sched, scan, lock, Others>>

Reserve(w) ==
    /\ Do(w, "reserve", [wk[w] EXCEPT !.pc = "dispatch"])
    /\ scan' = [scan EXCEPT ![TheSlot(w)] = "reserved"]
    /\ UNCHANGED <<sched, lock, Others>>

QuotaExceeded(w) ==
    /\ Do(w, "reserve", Fails(w, "SKIPPED_QUOTA"))
    /\ scan' = [scan EXCEPT ![TheSlot(w)] = "quota_failed"]
    /\ UNCHANGED <<sched, lock, Others>>

Dispatch(w) ==
    /\ Do(w, "dispatch", [wk[w] EXCEPT !.pc = "finish"])
    /\ scan' = [scan EXCEPT ![TheSlot(w)] = "dispatched"]
    /\ UNCHANGED <<sched, lock, Others>>

(* The broker is down, or a statement of the second session fails. *)
CreationFails(w) ==
    /\ wk[w].pc \in {"reserve", "dispatch"}
    /\ wk' = [wk EXCEPT ![w] = Fails(w, "DISPATCH_FAILED")]
    /\ UNCHANGED <<sched, scan, lock, Others>>

SkipFailed(w) ==
    /\ wk[w].pc = "fail"
    /\ Skip(w, wk[w].why)
    /\ UNCHANGED <<scan, Others>>

(* The row is read again FOR UPDATE; a next_run_at the user moved stays.   *)
(* Rows are never deleted, so the reload finds one.                        *)
Finish(w) ==
    LET s == wk[w].s  row == sched[s]  slot == wk[w].row.next IN
    /\ Do(w, "finish", Visited(w))
    /\ sched' = [sched EXCEPT ![s] =
            [row EXCEPT !.outcome = "TRIGGERED", !.scan = slot,
                        !.next = IF @ = slot THEN Advance(@, row.interval, wk[w].now)
                                 ELSE @]]
    /\ lock' = Unlocked(w)
    /\ UNCHANGED <<scan, Others>>

(* The process dies: what its two sessions committed stays. *)
Crash(w) ==
    /\ wk[w].pc # "idle" /\ crashes < MaxCrashes
    /\ wk' = [wk EXCEPT ![w] = Idle]
    /\ lock' = Unlocked(w)
    /\ crashes' = crashes + 1
    /\ UNCHANGED <<clock, sched, minInterval, active, scan, edits>>

-----------------------------------------------------------------------------
(* Users, administrators, the scans themselves, time *)

Edit == edits < MaxEdits /\ edits' = edits + 1

(* create_or_update_schedule: an existing row keeps its next_run_at unless *)
(* it is enabled and due, or the user names a first run.                   *)
PutSchedule(s, enabled, interval, first) ==
    LET next == IF first # None THEN first ELSE clock + interval
        row  == sched[s]
    IN
    /\ Edit
    /\ Entitled(interval)
    /\ sched' = [sched EXCEPT ![s] =
          IF row = None
          THEN [enabled |-> enabled, interval |-> interval, next |-> next,
                outcome |-> None, scan |-> None]
          ELSE [row EXCEPT !.enabled = enabled, !.interval = interval,
                           !.next = IF (enabled /\ @ <= clock) \/ first # None
                                    THEN next ELSE @]]
    /\ UNCHANGED <<clock, minInterval, active, scan, lock, wk, crashes>>

DisableSchedule(s) ==
    /\ Edit
    /\ sched[s] # None
    /\ sched' = [sched EXCEPT ![s].enabled = FALSE]
    /\ UNCHANGED <<clock, minInterval, active, scan, lock, wk, crashes>>

(* The workspace's plan changes, or a project is paused or resumed. *)
ChangePlan ==
    /\ Edit
    /\ minInterval' \in (Interval \cup {None}) \ {minInterval}
    /\ UNCHANGED <<clock, sched, active, scan, lock, wk, crashes>>

ToggleProject(s) ==
    /\ Edit
    /\ active' = [active EXCEPT ![s] = ~@]
    /\ UNCHANGED <<clock, sched, minInterval, scan, lock, wk, crashes>>

(* A dispatched scan runs to its end; recovery ends a stale PENDING one,   *)
(* never one a live worker is still creating.                              *)
ScanEnds(x) ==
    /\ \/ scan[x] = "dispatched"
       \/ /\ scan[x] \in {"planned", "reserved"}
          /\ \A w \in Worker : wk[w].pc \in {"reserve", "dispatch"} => TheSlot(w) # x
    /\ scan' = [scan EXCEPT ![x] = "ended"]
    /\ UNCHANGED <<sched, lock, wk, Others>>

Tick ==
    /\ clock < MaxTime
    /\ clock' = clock + 1
    /\ UNCHANGED <<sched, minInterval, active, scan, lock, wk, edits, crashes>>

Sweep(w) ==
    \/ StartSweep(w) \/ FindDue(w) \/ EndSweep(w) \/ PassOver(w)
    \/ LockAndReread(w) \/ Refuse(w)
    \/ Plan(w) \/ PreflightFails(w) \/ Reserve(w) \/ QuotaExceeded(w)
    \/ Dispatch(w) \/ CreationFails(w) \/ SkipFailed(w) \/ Finish(w)

Next ==
    \/ \E w \in Worker : Sweep(w) \/ Crash(w)
    \/ \E s \in Schedule :
          \/ \E enabled \in BOOLEAN, interval \in Interval, first \in FirstRun \cup {None} :
                PutSchedule(s, enabled, interval, first)
          \/ DisableSchedule(s)
          \/ ToggleProject(s)
    \/ ChangePlan
    \/ \E x \in Slot : ScanEnds(x)
    \/ Tick

(* Beat triggers a sweep every minute and a worker that runs goes on; when *)
(* the plan, the users or the scans act is up to them.                     *)
Fairness == \A w \in Worker : WF_vars(Sweep(w))

Spec == Init /\ [][Next]_vars
FairSpec == Spec /\ Fairness

-----------------------------------------------------------------------------
(* Properties *)

TypeOK ==
    /\ clock \in Time
    /\ \A s \in Schedule : sched[s] \in Row \cup {None}
    /\ minInterval \in Interval \cup {None}
    /\ active \in [Schedule -> BOOLEAN]
    /\ scan \in [Slot -> Stage]
    /\ lock \in [Schedule -> Worker \cup {None}]
    /\ \A w \in Worker :
          /\ wk[w].now \in Time
          /\ wk[w].s \in Schedule \cup {None}
          /\ wk[w].row \in Row \cup {None}
          /\ wk[w].done \subseteq Schedule
          /\ wk[w].why \in Outcome \cup {None}

(* A project never has two scheduled scans in progress, whatever sweeps    *)
(* overlap, crash, or see their schedule moved while they create a scan.   *)
NoOverlap ==
    \A s \in Schedule :
        Cardinality({t \in Time : scan[<<s, t>>] \in ActiveStage}) <= 1

(* No catch-up storm: when a sweep moves next_run_at, it moves it to the   *)
(* first boundary after the sweep's now, by the interval it worked with,   *)
(* so that no two evaluations of one sweep are due for one schedule.       *)
FirstFuture ==
    \A w \in Worker : \A s \in Schedule :
        (/\ wk[w].s = s /\ wk'[w].pc = "find" /\ wk[w].pc # "lock"
         /\ sched'[s].next # sched[s].next)
        => \E interval \in {wk[w].row.interval, sched[s].interval} :
              /\ sched'[s].next \in wk[w].now + 1 .. wk[w].now + interval
              /\ (sched'[s].next - wk[w].row.next) % interval = 0

FirstFutureSlot == [][FirstFuture]_vars

(* A due schedule is evaluated: the workers' sweeps get to it and move it  *)
(* on, whatever its plan, project, quota or broker say.                    *)
DueIsEvaluated ==
    \A s \in Schedule : Due(sched[s], clock) ~> ~Due(sched[s], clock)
=============================================================================
