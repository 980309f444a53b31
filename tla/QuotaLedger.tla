---------------------------- MODULE QuotaLedger ----------------------------
(***************************************************************************)
(* What app/services/quota_service.py promises about AI Checks, one        *)
(* database transaction per step.                                          *)
(*                                                                         *)
(* A workspace has one WorkspaceUsagePeriod row per UTC month with two     *)
(* counters, `used` and `reserved`.  A QuotaReservation holds a number of  *)
(* checks of the period it was created in, for good; committing checks     *)
(* moves them from `reserved` to `used` and writes an immutable            *)
(* UsageEvent, releasing or expiring returns what was not committed.       *)
(*                                                                         *)
(* QuotaService refines this module with row locks, stale reads and        *)
(* rollbacks; ScanLifecycle composes it with the life of a scan.           *)
(***************************************************************************)
EXTENDS Integers, FiniteSets

CONSTANTS
    Workspace,   \* tenants
    Month,       \* UTC calendar months
    Key,         \* reservation idempotency keys (one row each)
    UsageKey,    \* usage idempotency keys (one UsageEvent each)
    MaxChecks,   \* largest number of checks one reservation asks for
    MaxLimit,    \* largest monthly_ai_checks of any plan
    NoRow        \* the value of a key that has no row yet

ASSUME LedgerAssumption ==
    /\ IsFiniteSet(Key)
    /\ IsFiniteSet(UsageKey)
    /\ MaxChecks \in Nat \ {0}
    /\ MaxLimit \in Nat

VARIABLES
    period,      \* workspace_usage_periods: the two counters of each row
    resv,        \* quota_reservations by idempotency key
    usage,       \* usage_events by idempotency key
    peak         \* history: the largest limit a workspace was ever granted

vars == <<period, resv, usage, peak>>

-----------------------------------------------------------------------------
(* The rows *)

Period == Workspace \X Month

Status == {"ACTIVE", "COMMITTED", "RELEASED", "EXPIRED"}

Counters == [used : Int, reserved : Int]

Reservation ==
    [period : Period, reserved : 1..MaxChecks, committed : 0..MaxChecks, status : Status]

UsageEvent == [key : Key, checks : 1..MaxChecks]

ASSUME NoRowAssumption == NoRow \notin Reservation /\ NoRow \notin UsageEvent

(* Checks of a reservation nobody has committed or given back. *)
Remaining(r) == r.reserved - r.committed

Reserved == {k \in Key : resv[k] # NoRow}

Active == {k \in Reserved : resv[k].status = "ACTIVE"}

-----------------------------------------------------------------------------
(* The row updates, as the service computes them from the rows it read. *)

NewReservation(p, n) ==
    [period |-> p, reserved |-> n, committed |-> 0, status |-> "ACTIVE"]

(* Mutant: the last check does not complete the reservation. *)
ConsumeOffByOne(r, q) ==
    [r EXCEPT !.committed = @ + q,
              !.status = IF r.committed + q > r.reserved THEN "COMMITTED" ELSE @]

(* commit_ai_checks: committed += q, and COMMITTED once nothing remains. *)
Consume(r, q) ==
    [r EXCEPT !.committed = @ + q,
              !.status = IF r.committed + q >= r.reserved THEN "COMMITTED" ELSE @]

(* release_reservation: a fully committed reservation keeps COMMITTED. *)
GiveBack(r) ==
    [r EXCEPT !.status = IF Remaining(r) > 0 THEN "RELEASED" ELSE "COMMITTED"]

Debit(c, n)    == [used |-> c.used, reserved |-> c.reserved + n]
Transfer(c, q) == [used |-> c.used + q, reserved |-> c.reserved - q]
Credit(c, n)   == [used |-> c.used, reserved |-> c.reserved - n]

-----------------------------------------------------------------------------

Init ==
    /\ period = [p \in Period |-> [used |-> 0, reserved |-> 0]]
    /\ resv = [k \in Key |-> NoRow]
    /\ usage = [u \in UsageKey |-> NoRow]
    /\ peak \in [Workspace -> 0..MaxLimit]

(* A plan change raises or lowers monthly_ai_checks; only a rise shows.    *)
GrantPlan(w, l) ==
    /\ l > peak[w]
    /\ peak' = [peak EXCEPT ![w] = l]
    /\ UNCHANGED <<period, resv, usage>>

(* Mutant: checks that are reserved but not used yet count as available. *)
ReserveAgainstUsed(k, p, n) ==
    /\ resv[k] = NoRow
    /\ period[p].used + n <= peak[p[1]]
    /\ period' = [period EXCEPT ![p] = Debit(@, n)]
    /\ resv' = [resv EXCEPT ![k] = NewReservation(p, n)]
    /\ UNCHANGED <<usage, peak>>

(* reserve_ai_checks for a key that has no reservation.  The limit is read *)
(* before the period is locked, so it may be one the plan had earlier.     *)
Reserve(k, p, n) ==
    /\ resv[k] = NoRow
    /\ period[p].used + period[p].reserved + n <= peak[p[1]]
    /\ period' = [period EXCEPT ![p] = Debit(@, n)]
    /\ resv' = [resv EXCEPT ![k] = NewReservation(p, n)]
    /\ UNCHANGED <<usage, peak>>

(* What a commit writes, with the period it settles in as a parameter. *)
Settle(k, p, q, u) ==
    /\ period' = [period EXCEPT ![p] = Transfer(@, q)]
    /\ resv' = [resv EXCEPT ![k] = Consume(@, q)]
    /\ usage' = [usage EXCEPT ![u] = [key |-> k, checks |-> q]]
    /\ UNCHANGED peak

(* Mutant: more may be committed than remains. *)
CommitBeyondReserved(k, q, u) ==
    /\ resv[k] # NoRow
    /\ usage[u] = NoRow
    /\ resv[k].status \in {"ACTIVE", "COMMITTED"}
    /\ Settle(k, resv[k].period, q, u)

(* Mutant: settles in the month of the commit. *)
CommitInCurrentMonth(k, q, u) ==
    /\ resv[k] # NoRow
    /\ usage[u] = NoRow
    /\ resv[k].status \in {"ACTIVE", "COMMITTED"}
    /\ q <= Remaining(resv[k])
    /\ \E m \in Month : Settle(k, <<resv[k].period[1], m>>, q, u)

(* Mutant: a usage key that has its event is charged again. *)
CommitReplayed(k, q, u) ==
    /\ resv[k] # NoRow
    /\ resv[k].status \in {"ACTIVE", "COMMITTED"}
    /\ q <= Remaining(resv[k])
    /\ Settle(k, resv[k].period, q, u)

(* commit_ai_checks for a usage key that has no event. *)
Commit(k, q, u) ==
    /\ resv[k] # NoRow
    /\ usage[u] = NoRow
    /\ resv[k].status \in {"ACTIVE", "COMMITTED"}
    /\ q <= Remaining(resv[k])
    /\ Settle(k, resv[k].period, q, u)

(* What a release writes. *)
Refund(k) ==
    /\ period' = [period EXCEPT ![resv[k].period] = Credit(@, Remaining(resv[k]))]
    /\ resv' = [resv EXCEPT ![k] = GiveBack(@)]
    /\ UNCHANGED <<usage, peak>>

(* Mutant: a reservation that is over is released again. *)
ReleaseAgain(k) == k \in Reserved /\ Refund(k)

(* release_reservation of a reservation that is not terminal. *)
Release(k) ==
    /\ k \in Active
    /\ Refund(k)

(* What an expiry writes.  Each iteration re-reads its period row          *)
(* (populate_existing, autoflush off) and so drops the decrement an        *)
(* earlier iteration left unflushed: of the reservations of one period     *)
(* only the last, last[p], is credited.                                    *)
Periods(S) == {resv[k].period : k \in S}

Lapse(S, last) ==
    /\ \A p \in Periods(S) : last[p] \in S /\ resv[last[p]].period = p
    /\ period' = [p \in Period |->
                    IF p \in Periods(S) THEN Credit(period[p], Remaining(resv[last[p]]))
                                        ELSE period[p]]
    /\ resv' = [k \in Key |-> IF k \in S THEN [resv[k] EXCEPT !.status = "EXPIRED"]
                                         ELSE resv[k]]
    /\ UNCHANGED <<usage, peak>>

(* Mutant: the statuses of the locked reservations are not looked at. *)
ExpireAnyStatus(S, last) == S # {} /\ S \subseteq Reserved /\ Lapse(S, last)

(* expire_stale_reservations on the reservations S it locked. *)
Expire(S, last) == S # {} /\ S \subseteq Active /\ Lapse(S, last)

(* The operations the application calls: expire_stale_reservations has no  *)
(* caller under app/.                                                      *)
AppNext ==
    \/ \E w \in Workspace, l \in 0..MaxLimit : GrantPlan(w, l)
    \/ \E k \in Key, p \in Period, n \in 1..MaxChecks : Reserve(k, p, n)
    \/ \E k \in Key, q \in 1..MaxChecks, u \in UsageKey : Commit(k, q, u)
    \/ \E k \in Key : Release(k)

Next ==
    \/ AppNext
    \/ \E S \in SUBSET Key : \E last \in [Period -> Key] : Expire(S, last)

Spec == Init /\ [][Next]_vars

AppSpec == Init /\ [][AppNext]_vars

-----------------------------------------------------------------------------
(* Properties.  One check is a pair <<k, i>>: the i-th check of             *)
(* reservation k; counters are compared with the number of such pairs.     *)

CommittedChecks(p) ==
    {c \in Key \X (1..MaxChecks) :
        /\ c[1] \in Reserved
        /\ resv[c[1]].period = p
        /\ c[2] <= resv[c[1]].committed}

HeldChecks(p) ==
    {c \in Key \X (1..MaxChecks) :
        /\ c[1] \in Active
        /\ resv[c[1]].period = p
        /\ resv[c[1]].committed < c[2]
        /\ c[2] <= resv[c[1]].reserved}

EventChecks(k) ==
    {c \in UsageKey \X (1..MaxChecks) :
        /\ usage[c[1]] # NoRow
        /\ usage[c[1]].key = k
        /\ c[2] <= usage[c[1]].checks}

TypeOK ==
    /\ period \in [Period -> Counters]
    /\ resv \in [Key -> Reservation \cup {NoRow}]
    /\ usage \in [UsageKey -> UsageEvent \cup {NoRow}]
    /\ peak \in [Workspace -> 0..MaxLimit]

(* The `used` counter of a period is the number of checks committed        *)
(* against reservations bound to that period, whatever month it is when    *)
(* they are committed (the cross-month invariant of commit_ai_checks).     *)
UsedExact == \A p \in Period : period[p].used = Cardinality(CommittedChecks(p))

(* The `reserved` counter never understates what active reservations still *)
(* hold: nothing held can be sold a second time.                           *)
HeldCovered == \A p \in Period : period[p].reserved >= Cardinality(HeldChecks(p))

(* The `reserved` counter is exactly what active reservations hold: no     *)
(* check of the plan is lost to a reservation that is over.                *)
HeldExact == \A p \in Period : period[p].reserved = Cardinality(HeldChecks(p))

(* No period is sold beyond the largest limit its workspace was granted.   *)
NoOversell ==
    \A p \in Period : period[p].used + period[p].reserved <= peak[p[1]]

(* The event ledger and the reservation agree: the committed count of a    *)
(* reservation is the number of checks of its usage events, so a retried   *)
(* provider call is never counted twice.                                   *)
EventsMatch ==
    \A k \in Key :
        Cardinality(EventChecks(k)) = IF resv[k] = NoRow THEN 0 ELSE resv[k].committed

(* COMMITTED says exactly that every check was used; a reservation that    *)
(* was given back or expired always returned something.                    *)
StatusMatchesChecks ==
    \A k \in Reserved : resv[k].status = "COMMITTED" <=> Remaining(resv[k]) = 0

(* No reservation has committed more than it holds: with StatusMatchesChecks *)
(* what makes the properties above inductive.                              *)
CommittedWithin == \A k \in Reserved : resv[k].committed <= resv[k].reserved

(* A reservation stays bound to the period and the number of checks it was *)
(* created with, and never leaves a terminal status.                       *)
ReservationIsFinal ==
    [][\A k \in Reserved :
        /\ resv'[k] # NoRow
        /\ resv'[k].period = resv[k].period
        /\ resv'[k].reserved = resv[k].reserved
        /\ resv[k].status # "ACTIVE" => resv'[k] = resv[k]]_vars
=============================================================================
