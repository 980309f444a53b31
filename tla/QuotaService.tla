---------------------------- MODULE QuotaService ----------------------------
(***************************************************************************)
(* app/services/quota_service.py as PostgreSQL sessions run it: every      *)
(* public operation is a READ COMMITTED transaction that takes row locks   *)
(* (SELECT ... FOR UPDATE) one after the other, computes new rows from the *)
(* copies it read, and writes them back at commit.                         *)
(*                                                                         *)
(* A session's copies are also its locks: a row is locked by the session   *)
(* whose copy of it is not NoRow, and a reservation or usage event that is *)
(* copied but not in the table is its uncommitted insert.  Waiting for a   *)
(* lock is the guard of the step that takes it.  A caller-owned            *)
(* transaction (commit_transaction=False) is one whose last step is the    *)
(* caller's commit or rollback.                                            *)
(***************************************************************************)
EXTENDS Integers, SequencesExt

CONSTANTS
    Workspace, Month, Key, UsageKey, MaxChecks, MaxLimit, NoRow,
    Session,     \* database sessions: web requests, Celery workers
    Cleaner      \* the sessions that may also run expire_stale_reservations

ASSUME ServiceAssumption ==
    /\ Cleaner \subseteq Session
    /\ IsFiniteSet(Key) /\ IsFiniteSet(UsageKey)
    /\ MaxChecks \in Nat \ {0} /\ MaxLimit \in Nat

VARIABLES
    period, resv, usage,   \* committed rows (see QuotaLedger)
    peak,                  \* history: the largest limit ever granted
    pc,                    \* what a session does next
    arg,                   \* the arguments of its call
    lim,                   \* the limit it read
    periodRow,             \* its copies (and locks) of period rows
    resvRow,               \* its copies (locks, inserts) of reservations
    usageRow,              \* its uncommitted usage events
    todo                   \* reservations an expiry still has to visit, in order

tables  == <<period, resv, usage>>
copies  == <<periodRow, resvRow, usageRow>>
vars    == <<tables, peak, pc, arg, lim, copies, todo>>

Ledger == INSTANCE QuotaLedger

Period == Workspace \X Month

ASSUME NoRowAssumption ==
    /\ NoRow \notin Key \cup UsageKey \cup Period
    /\ NoRow \notin Ledger!Counters \cup Ledger!Reservation \cup Ledger!UsageEvent

NoArg == [key |-> NoRow, period |-> NoRow, checks |-> 0, event |-> NoRow]

Init ==
    /\ Ledger!Init
    /\ pc = [s \in Session |-> "idle"]
    /\ arg = [s \in Session |-> NoArg]
    /\ lim = [s \in Session |-> 0]
    /\ periodRow = [s \in Session |-> [p \in Period |-> NoRow]]
    /\ resvRow = [s \in Session |-> [k \in Key |-> NoRow]]
    /\ usageRow = [s \in Session |-> [u \in UsageKey |-> NoRow]]
    /\ todo = [s \in Session |-> <<>>]

-----------------------------------------------------------------------------
(* Locks and transaction ends *)

(* Mutant: the period row is read without FOR UPDATE. *)
PeriodUnlocked(s, p) == TRUE

(* FOR UPDATE on a row another session has locked waits.  An insert waits  *)
(* for a session that has inserted the same unique key and not committed;  *)
(* a key that is already in the table fails it at once, locked or not.     *)
PeriodFree(s, p) == \A t \in Session \ {s} : periodRow[t][p] = NoRow
ResvFree(s, k)   == \A t \in Session \ {s} : resvRow[t][k] = NoRow
EventFree(s, u)  == \A t \in Session \ {s} : usageRow[t][u] = NoRow

Goto(s, from, to) == pc[s] = from /\ pc' = [pc EXCEPT ![s] = to]

HoldPeriod(s, p, row) == periodRow' = [periodRow EXCEPT ![s][p] = row]
HoldResv(s, k, row)   == resvRow' = [resvRow EXCEPT ![s][k] = row]
HoldEvent(s, u, row)  == usageRow' = [usageRow EXCEPT ![s][u] = row]

DropCopies(s) ==
    /\ periodRow' = [periodRow EXCEPT ![s] = [p \in Period |-> NoRow]]
    /\ resvRow' = [resvRow EXCEPT ![s] = [k \in Key |-> NoRow]]
    /\ usageRow' = [usageRow EXCEPT ![s] = [u \in UsageKey |-> NoRow]]
    /\ todo' = [todo EXCEPT ![s] = <<>>]
    /\ lim' = [lim EXCEPT ![s] = 0]

(* End the transaction without writing: a rollback, or the commit of a     *)
(* transaction that only read.                                             *)
End(s, from, answer) ==
    /\ Goto(s, from, answer)
    /\ DropCopies(s)
    /\ UNCHANGED <<tables, peak, arg>>

Merge(copy, table) ==
    [x \in DOMAIN table |-> IF copy[x] # NoRow THEN copy[x] ELSE table[x]]

CommitTransaction(s) ==
    /\ Goto(s, "commit", "ok")
    /\ period' = Merge(periodRow[s], period)
    /\ resv' = Merge(resvRow[s], resv)
    /\ usage' = Merge(usageRow[s], usage)
    /\ DropCopies(s)
    /\ UNCHANGED <<peak, arg>>

Answers == {"ok", "conflict", "exceeded"}

(* The caller takes the answer, or the exception, of its call. *)
Return(s) ==
    /\ pc[s] \in Answers
    /\ pc' = [pc EXCEPT ![s] = "idle"]
    /\ arg' = [arg EXCEPT ![s] = NoArg]
    /\ UNCHANGED <<tables, peak, lim, copies, todo>>

(* The process dies, the connection is lost, PostgreSQL picks the session  *)
(* as a deadlock victim, or the caller of a caller-owned transaction rolls *)
(* back because one of its own writes failed.                              *)
Abort(s) ==
    /\ pc[s] \notin Answers \cup {"idle"}
    /\ pc' = [pc EXCEPT ![s] = "idle"]
    /\ arg' = [arg EXCEPT ![s] = NoArg]
    /\ DropCopies(s)
    /\ UNCHANGED <<tables, peak>>

-----------------------------------------------------------------------------
(* reserve_ai_checks: limit, then period lock, then the new reservation.   *)

Begin(s, label, a) ==
    /\ Goto(s, "idle", label)
    /\ arg' = [arg EXCEPT ![s] = a]

(* The month is that of the caller's clock.  The limit is that of the plan *)
(* the workspace has now, which an administrator may have lowered.         *)
BeginReserve(s, k, p, n) ==
    /\ Begin(s, "rsv_period", [NoArg EXCEPT !.key = k, !.period = p, !.checks = n])
    /\ \E l \in 0..peak[p[1]] : lim' = [lim EXCEPT ![s] = l]
    /\ UNCHANGED <<tables, peak, copies, todo>>

SameRequest(a, r) == r.period[1] = a.period[1] /\ r.reserved = a.checks

(* Under the period lock: the key may be taken, or the checks not there.   *)
ReserveLockPeriod(s) ==
    LET a == arg[s]
        row == period[a.period]
        available == lim[s] - row.used - row.reserved
    IN
    /\ pc[s] = "rsv_period"
    /\ PeriodFree(s, a.period)
    /\ \/ /\ resv[a.key] # NoRow
          /\ End(s, "rsv_period", IF SameRequest(a, resv[a.key]) THEN "ok" ELSE "conflict")
       \/ /\ resv[a.key] = NoRow
          /\ a.checks > available
          /\ End(s, "rsv_period", "exceeded")
       \/ /\ resv[a.key] = NoRow
          /\ a.checks <= available
          /\ Goto(s, "rsv_period", "rsv_insert")
          /\ HoldPeriod(s, a.period, Ledger!Debit(row, a.checks))
          /\ UNCHANGED <<tables, peak, arg, lim, resvRow, usageRow, todo>>

(* Mutant: whatever reservation holds the key is taken for this one. *)
ReserveInsertTrusting(s) ==
    LET a == arg[s] IN
    /\ pc[s] = "rsv_insert"
    /\ \/ /\ resv[a.key] # NoRow
          /\ End(s, "rsv_insert", "ok")
       \/ /\ resv[a.key] = NoRow
          /\ ResvFree(s, a.key)
          /\ Goto(s, "rsv_insert", "commit")
          /\ HoldResv(s, a.key, Ledger!NewReservation(a.period, a.checks))
          /\ UNCHANGED <<tables, peak, arg, lim, periodRow, usageRow, todo>>

(* The insert meets the unique index: a winner that committed meanwhile    *)
(* (it locked another period) costs this session its whole transaction.    *)
ReserveInsert(s) ==
    LET a == arg[s] IN
    /\ pc[s] = "rsv_insert"
    /\ \/ /\ resv[a.key] # NoRow
          /\ End(s, "rsv_insert", IF SameRequest(a, resv[a.key]) THEN "ok" ELSE "conflict")
       \/ /\ resv[a.key] = NoRow
          /\ ResvFree(s, a.key)
          /\ Goto(s, "rsv_insert", "commit")
          /\ HoldResv(s, a.key, Ledger!NewReservation(a.period, a.checks))
          /\ UNCHANGED <<tables, peak, arg, lim, periodRow, usageRow, todo>>

-----------------------------------------------------------------------------
(* commit_ai_checks: reservation lock, original period lock, usage event.  *)

BeginCommit(s, k, q, u) ==
    /\ resv[k] # NoRow
    /\ Begin(s, "use_resv", [NoArg EXCEPT !.key = k, !.checks = q, !.event = u])
    /\ UNCHANGED <<tables, peak, lim, copies, todo>>

SameUsage(a, e) == e.key = a.key /\ e.checks = a.checks

(* Mutant: the remaining balance is not looked at. *)
CommittableBeyond(r, q) == r.status \in {"ACTIVE", "COMMITTED"}

Committable(r, q) ==
    r.status \in {"ACTIVE", "COMMITTED"} /\ q <= Ledger!Remaining(r)

CommitLockReservation(s) ==
    LET a == arg[s]
        row == resv[a.key]
    IN
    /\ pc[s] = "use_resv"
    /\ ResvFree(s, a.key)
    /\ \/ /\ usage[a.event] # NoRow
          /\ End(s, "use_resv", IF SameUsage(a, usage[a.event]) THEN "ok" ELSE "conflict")
       \/ /\ usage[a.event] = NoRow
          /\ ~Committable(row, a.checks)
          /\ End(s, "use_resv", "conflict")
       \/ /\ usage[a.event] = NoRow
          /\ Committable(row, a.checks)
          /\ Goto(s, "use_resv", "use_period")
          /\ HoldResv(s, a.key, row)
          /\ UNCHANGED <<tables, peak, arg, lim, periodRow, usageRow, todo>>

CommitLockPeriod(s) ==
    LET a == arg[s]
        row == resvRow[s][a.key]
    IN
    /\ pc[s] = "use_period"
    /\ Goto(s, "use_period", "use_insert")
    /\ PeriodFree(s, row.period)
    /\ HoldPeriod(s, row.period, Ledger!Transfer(period[row.period], a.checks))
    /\ HoldResv(s, a.key, Ledger!Consume(row, a.checks))
    /\ UNCHANGED <<tables, peak, arg, lim, usageRow, todo>>

CommitInsertEvent(s) ==
    LET a == arg[s] IN
    /\ pc[s] = "use_insert"
    /\ \/ /\ usage[a.event] # NoRow
          /\ End(s, "use_insert", IF SameUsage(a, usage[a.event]) THEN "ok" ELSE "conflict")
       \/ /\ usage[a.event] = NoRow
          /\ EventFree(s, a.event)
          /\ Goto(s, "use_insert", "commit")
          /\ HoldEvent(s, a.event, [key |-> a.key, checks |-> a.checks])
          /\ UNCHANGED <<tables, peak, arg, lim, periodRow, resvRow, todo>>

-----------------------------------------------------------------------------
(* release_reservation: reservation lock, original period lock.            *)

BeginRelease(s, k) ==
    /\ resv[k] # NoRow
    /\ Begin(s, "rel_resv", [NoArg EXCEPT !.key = k])
    /\ UNCHANGED <<tables, peak, lim, copies, todo>>

(* Mutant: release takes the period before the reservation. *)
ReleaseLockPeriodFirst(s) ==
    LET k == arg[s].key
        p == resv[k].period
    IN
    /\ pc[s] = "rel_resv"
    /\ \/ /\ periodRow[s][p] = NoRow
          /\ PeriodFree(s, p)
          /\ HoldPeriod(s, p, period[p])
          /\ UNCHANGED <<tables, peak, pc, arg, lim, resvRow, usageRow, todo>>
       \/ /\ periodRow[s][p] # NoRow
          /\ ResvFree(s, k)
          /\ End(s, "rel_resv", "ok")

ReleaseLockReservation(s) ==
    LET k == arg[s].key IN
    /\ pc[s] = "rel_resv"
    /\ ResvFree(s, k)
    /\ \/ /\ resv[k].status # "ACTIVE"
          /\ End(s, "rel_resv", "ok")
       \/ /\ resv[k].status = "ACTIVE"
          /\ Goto(s, "rel_resv", IF Ledger!Remaining(resv[k]) > 0 THEN "rel_period" ELSE "commit")
          /\ HoldResv(s, k, Ledger!GiveBack(resv[k]))
          /\ UNCHANGED <<tables, peak, arg, lim, periodRow, usageRow, todo>>

ReleaseLockPeriod(s) ==
    LET row == resvRow[s][arg[s].key] IN
    /\ pc[s] = "rel_period"
    /\ Goto(s, "rel_period", "commit")
    /\ PeriodFree(s, row.period)
    /\ HoldPeriod(s, row.period, Ledger!Credit(period[row.period], Ledger!Remaining(row)))
    /\ UNCHANGED <<tables, peak, arg, lim, resvRow, usageRow, todo>>

-----------------------------------------------------------------------------
(* expire_stale_reservations: lock the reservations past their expires_at  *)
(* (any of the active ones) that nobody else has locked, then visit them   *)
(* in the order of the result, which the query does not fix.               *)

ExpireLock(s) ==
    \E found \in (SUBSET {k \in Ledger!Active : ResvFree(s, k)}) \ {{}} :
    /\ Begin(s, "exp_loop", NoArg)
    /\ resvRow' = [resvRow EXCEPT ![s] = [k \in Key |-> IF k \in found THEN resv[k] ELSE NoRow]]
    /\ \E order \in SetToSeqs(found) : todo' = [todo EXCEPT ![s] = order]
    /\ UNCHANGED <<tables, peak, lim, periodRow, usageRow>>

(* get_by_id_for_update re-reads the period row with populate_existing     *)
(* while the session has autoflush off: a decrement of the same row left   *)
(* pending by an earlier iteration is overwritten by what is in the table. *)
ExpireOne(s) ==
    LET k == Head(todo[s])
        row == resvRow[s][k]
        p == row.period
    IN
    /\ pc[s] = "exp_loop"
    /\ Goto(s, "exp_loop", IF Len(todo[s]) = 1 THEN "commit" ELSE "exp_loop")
    /\ PeriodFree(s, p)
    /\ HoldPeriod(s, p, Ledger!Credit(period[p], Ledger!Remaining(row)))
    /\ HoldResv(s, k, [row EXCEPT !.status = "EXPIRED"])
    /\ todo' = [todo EXCEPT ![s] = Tail(@)]
    /\ UNCHANGED <<tables, peak, arg, lim, usageRow>>

-----------------------------------------------------------------------------
(* A plan with a higher limit. *)
GrantPlan(w, l) ==
    /\ Ledger!GrantPlan(w, l)
    /\ UNCHANGED <<pc, arg, lim, copies, todo>>

Call(s) ==
    \/ \E k \in Key, p \in Period, n \in 1..MaxChecks : BeginReserve(s, k, p, n)
    \/ \E k \in Key, q \in 1..MaxChecks, u \in UsageKey : BeginCommit(s, k, q, u)
    \/ \E k \in Key : BeginRelease(s, k)

Step(s) ==
    \/ ReserveLockPeriod(s)
    \/ ReserveInsert(s)
    \/ CommitLockReservation(s)
    \/ CommitLockPeriod(s)
    \/ CommitInsertEvent(s)
    \/ ReleaseLockReservation(s)
    \/ ReleaseLockPeriod(s)
    \/ ExpireOne(s)
    \/ CommitTransaction(s)
    \/ Return(s)

Next ==
    \/ \E s \in Session : Call(s)
    \/ \E s \in Cleaner : ExpireLock(s)
    \/ \E s \in Session : Step(s) \/ Abort(s)
    \/ \E w \in Workspace, l \in 0..MaxLimit : GrantPlan(w, l)

Spec == Init /\ [][Next]_vars

-----------------------------------------------------------------------------
(* Properties *)

Labels ==
    {"idle", "rsv_period", "rsv_insert", "use_resv", "use_period", "use_insert",
     "rel_resv", "rel_period", "exp_loop", "commit"} \cup Answers

Args ==
    [key : Key \cup {NoRow}, period : Period \cup {NoRow}, checks : 0..MaxChecks,
     event : UsageKey \cup {NoRow}]

TypeOK ==
    /\ Ledger!TypeOK
    /\ pc \in [Session -> Labels]
    /\ arg \in [Session -> Args]
    /\ lim \in [Session -> 0..MaxLimit]
    /\ periodRow \in [Session -> [Period -> Ledger!Counters \cup {NoRow}]]
    /\ resvRow \in [Session -> [Key -> Ledger!Reservation \cup {NoRow}]]
    /\ usageRow \in [Session -> [UsageKey -> Ledger!UsageEvent \cup {NoRow}]]
    /\ todo \in [Session -> Seq(Key)]

(* The service with its locks, stale limits, insert races and rollbacks    *)
(* does nothing but the atomic operations of QuotaLedger: no update of a   *)
(* counter is lost, no key is reserved twice, no check is counted twice.   *)
ImplementsLedger == Ledger!Spec

(* Waiting for a lock another session holds, per step of the code. *)
Awaits(s, t) ==
    \/ pc[s] = "rsv_period" /\ periodRow[t][arg[s].period] # NoRow
    \/ pc[s] \in {"use_resv", "rel_resv"} /\ resvRow[t][arg[s].key] # NoRow
    \/ /\ pc[s] = "rsv_insert"
       /\ resv[arg[s].key] = NoRow
       /\ resvRow[t][arg[s].key] # NoRow
    \/ /\ pc[s] \in {"use_period", "rel_period"}
       /\ periodRow[t][resvRow[s][arg[s].key].period] # NoRow
    \/ /\ pc[s] = "use_insert"
       /\ usage[arg[s].event] = NoRow
       /\ usageRow[t][arg[s].event] # NoRow
    \/ pc[s] = "exp_loop" /\ periodRow[t][resvRow[s][Head(todo[s])].period] # NoRow

(* No set of sessions each waiting for another of the set.  The module's   *)
(* docstring: "This ordering is consistent - no circular lock              *)
(* dependencies."                                                          *)
NoWaitCycle ==
    \A C \in (SUBSET Session) \ {{}} :
        \E s \in C : \A t \in C \ {s} : ~Awaits(s, t)

(* A caller that was told "ok" finds what it asked for in the database: the *)
(* reservation of its key for its workspace and number of checks, the      *)
(* usage event of its key, a reservation that is no longer active - even   *)
(* when another session did the work.                                      *)
ReplyTruthful ==
    \A s \in Session :
        LET a == arg[s] IN
        pc[s] = "ok" =>
            /\ a.period # NoRow => resv[a.key] # NoRow /\ SameRequest(a, resv[a.key])
            /\ a.event # NoRow => usage[a.event] # NoRow /\ SameUsage(a, usage[a.event])
            /\ a.period = NoRow /\ a.event = NoRow /\ a.key # NoRow
                  => resv[a.key].status # "ACTIVE"

(* Each reservation that is over has given its checks back to the period   *)
(* it was bound to.                                                        *)
HeldExact == Ledger!HeldExact
=============================================================================
