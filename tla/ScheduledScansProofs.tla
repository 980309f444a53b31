------------------------ MODULE ScheduledScansProofs ------------------------
(***************************************************************************)
(* Proofs about ScheduledScans, for any workers, schedules, intervals and  *)
(* bounds.                                                                 *)
(*                                                                         *)
(* A sweep that decides about a schedule holds its advisory lock, from the *)
(* second reading of the row to the commit that ends its visit, so what it *)
(* saw of the schedule's scans before it planned one is still so.          *)
(***************************************************************************)
EXTENDS ScheduledScans, FiniteSetTheorems, TLAPS

(* The steps of a sweep that holds a lock.                                 *)
Deciding == {"check", "reserve", "dispatch", "finish", "fail"}

(* What a sweep knows.                                                     *)
SweepState ==
    [pc : {"idle", "find", "lock"} \cup Deciding, now : Time, s : Schedule \cup {None},
     row : Row \cup {None}, done : SUBSET Schedule, why : Outcome \cup {None}]

(* The types, with the domains that TypeOK leaves out.                     *)
Typed ==
    /\ clock \in Time
    /\ sched \in [Schedule -> Row \cup {None}]
    /\ minInterval \in Interval \cup {None}
    /\ active \in [Schedule -> BOOLEAN]
    /\ scan \in [Slot -> Stage]
    /\ lock \in [Schedule -> Worker \cup {None}]
    /\ wk \in [Worker -> SweepState]

(* A deciding sweep holds the lock of a schedule it read as due. *)
DeciderHolds(w) ==
    LET s == wk[w].s  row == wk[w].row IN
    /\ wk[w].pc \in {"idle", "find"} => s = None
    /\ wk[w].pc \in {"lock"} \cup Deciding => s \in Schedule /\ sched[s] # None
    /\ wk[w].pc \in Deciding =>
         lock[s] = w /\ row # None /\ row.next <= wk[w].now

(* What the creation of a scan left of it when its next step comes. *)
CreationAgrees(w) ==
    /\ wk[w].pc = "reserve" => scan[TheSlot(w)] = "planned"
    /\ wk[w].pc = "dispatch" => scan[TheSlot(w)] = "reserved"

(* NoOverlap, without counting. *)
OneActive ==
    \A s \in Schedule, t, u \in Time :
        scan[<<s, t>>] \in ActiveStage /\ scan[<<s, u>>] \in ActiveStage => t = u

(* The inductive invariant.                                                *)
IInv ==
    /\ Typed
    /\ \A w \in Worker : DeciderHolds(w) /\ CreationAgrees(w)
    /\ OneActive

-----------------------------------------------------------------------------
(* The boundary after now *)

(* The closed form is what its loop computes: the first boundary after     *)
(* now, whole intervals away from the one that was due.                    *)
LEMMA FirstBoundary ==
    ASSUME NEW next \in Nat, NEW interval \in Nat \ {0}, NEW now \in Nat, next <= now
    PROVE  /\ Advance(next, interval, now) \in Nat
           /\ Advance(next, interval, now) \in now + 1 .. now + interval
           /\ (Advance(next, interval, now) - next) % interval = 0
<1> DEFINE q == (now - next) \div interval
           d == now - next
<1>1. d \in Nat
  OBVIOUS
<1>2. /\ q \in Int
      /\ d = (interval * q) + (d % interval)
      /\ d % interval \in 0 .. interval - 1
  BY <1>1
<1>3. interval * (q + 1) = interval * q + interval
  BY <1>2
<1>4. interval * q \in Int
  BY <1>2
<1>5. Advance(next, interval, now) = next + interval * (q + 1)
  BY DEF Advance
<1>6. Advance(next, interval, now) \in now + 1 .. now + interval
  <2> HIDE DEF q
  <2> QED
    BY <1>2, <1>3, <1>4, <1>5
<1>7. (interval * (q + 1)) % interval = 0
  BY <1>2
<1>8. Advance(next, interval, now) - next = interval * (q + 1)
  <2> HIDE DEF q
  <2> QED
    BY <1>2, <1>3, <1>4, <1>5
<1>9. Advance(next, interval, now) \in Nat
  BY <1>6
<1> QED
  BY <1>6, <1>7, <1>8, <1>9

(* What a sweep decides with stays in its types. *)
LEMMA AdvanceType ==
    ASSUME ScheduleAssumption, NEW row \in Row, NEW interval \in Interval, NEW now \in Time,
           row.next <= now
    PROVE  Advance(row.next, interval, now) \in Nat
<1>1. row.next \in Nat /\ interval \in Nat \ {0} /\ now \in Nat
  BY DEF ScheduleAssumption, Row, Time
<1> QED
  BY <1>1, FirstBoundary

-----------------------------------------------------------------------------
(* The other sweeps *)

(* A deciding sweep has a schedule, its row and its lock.                  *)
LEMMA Decider ==
    ASSUME ScheduleAssumption, IInv, NEW w \in Worker, wk[w].pc \in Deciding
    PROVE  /\ wk[w].s \in Schedule /\ sched[wk[w].s] \in Row
           /\ lock[wk[w].s] = w
           /\ wk[w].row \in Row /\ wk[w].row.next <= wk[w].now
           /\ wk[w].row.next \in Time /\ wk[w].now \in Time
           /\ TheSlot(w) \in Slot
<1>1. DeciderHolds(w) /\ wk[w] \in SweepState
  BY DEF IInv, Typed
<1>2. wk[w].row \in Row /\ wk[w].now \in Time /\ wk[w].row.next <= wk[w].now
  BY <1>1 DEF DeciderHolds, SweepState
<1>3. wk[w].row.next \in Time
  BY <1>2 DEF Row, Time, ScheduleAssumption
<1> QED
  BY <1>1, <1>2, <1>3 DEF DeciderHolds, IInv, Typed, TheSlot, Slot

(* Two sweeps never decide about one schedule. *)
LEMMA DecidersApart ==
    ASSUME ScheduleAssumption, IInv, NEW v \in Worker, NEW w \in Worker, v # w,
           wk[v].pc \in Deciding, wk[w].pc \in Deciding
    PROVE  wk[v].s # wk[w].s
BY Decider

(* A step of sweep w that leaves the locks and the slots of the others     *)
(* alone need only account for w.                                          *)
LEMMA SweepKeeps ==
    ASSUME ScheduleAssumption, IInv, NEW w \in Worker, NEW x \in SweepState,
           wk' = [wk EXCEPT ![w] = x],
           sched' \in [Schedule -> Row \cup {None}],
           \A s \in Schedule : sched[s] # None => sched'[s] # None,
           lock' \in [Schedule -> Worker \cup {None}],
           \A s \in Schedule, v \in Worker : v # w /\ lock[s] = v => lock'[s] = v,
           scan' \in [Slot -> Stage],
           \A y \in Slot : scan'[y] # scan[y] => wk[w].pc \in Deciding /\ y = TheSlot(w),
           UNCHANGED <<clock, minInterval, active>>,
           DeciderHolds(w)', CreationAgrees(w)', OneActive'
    PROVE  IInv'
<1>1. Typed'
  BY DEF IInv, Typed
<1>2. ASSUME NEW v \in Worker, v # w PROVE DeciderHolds(v)' /\ CreationAgrees(v)'
  <2>1. wk'[v] = wk[v]
    BY <1>2 DEF IInv, Typed
  <2>2. DeciderHolds(v) /\ CreationAgrees(v) /\ wk[v] \in SweepState
    BY DEF IInv, Typed
  <2>3. DeciderHolds(v)'
    BY <1>2, <2>1, <2>2 DEF DeciderHolds, Deciding
  <2>4. ASSUME wk[v].pc \in {"reserve", "dispatch"}
        PROVE  TheSlot(v)' = TheSlot(v) /\ scan'[TheSlot(v)] = scan[TheSlot(v)]
    <3>1. TheSlot(v)' = TheSlot(v)
      BY <2>1 DEF TheSlot
    <3>2. wk[v].pc \in Deciding /\ TheSlot(v) \in Slot
      BY <2>4, Decider DEF Deciding
    <3>3. wk[w].pc \in Deciding => TheSlot(v) # TheSlot(w)
      BY <1>2, <3>2, DecidersApart DEF TheSlot
    <3> QED
      BY <3>1, <3>2, <3>3
  <2>5. CreationAgrees(v)'
    BY <2>1, <2>2, <2>4 DEF CreationAgrees
  <2> QED
    BY <2>3, <2>5
<1> QED
  BY <1>1, <1>2 DEF IInv

(* The same when the step leaves the scans alone. *)
LEMMA SweepGoesOn ==
    ASSUME ScheduleAssumption, IInv, NEW w \in Worker, NEW x \in SweepState,
           wk' = [wk EXCEPT ![w] = x],
           sched' \in [Schedule -> Row \cup {None}],
           \A s \in Schedule : sched[s] # None => sched'[s] # None,
           lock' \in [Schedule -> Worker \cup {None}],
           \A s \in Schedule, v \in Worker : v # w /\ lock[s] = v => lock'[s] = v,
           UNCHANGED <<scan, clock, minInterval, active>>,
           DeciderHolds(w)', CreationAgrees(w)'
    PROVE  IInv'
<1>1. OneActive'
  BY DEF IInv, OneActive
<1> QED
  BY <1>1, SweepKeeps DEF IInv, Typed

(* The end of a transaction gives up its own locks only.                   *)
LEMMA UnlockedKeeps ==
    ASSUME ScheduleAssumption, IInv, NEW w \in Worker
    PROVE  /\ Unlocked(w) \in [Schedule -> Worker \cup {None}]
           /\ \A s \in Schedule, v \in Worker : v # w /\ lock[s] = v => Unlocked(w)[s] = v
BY DEF IInv, Typed, Unlocked

(* A sweep begins well formed,                                             *)
LEMMA IdleType ==
    ASSUME ScheduleAssumption
    PROVE  Idle \in SweepState /\ \A now \in Time : [Idle EXCEPT !.pc = "find", !.now = now] \in SweepState
<1>1. 0 \in Time
  BY DEF Time, ScheduleAssumption
<1> QED
  BY <1>1 DEF Idle, SweepState

(* and goes on so after a visit.                                           *)
LEMMA VisitedType ==
    ASSUME ScheduleAssumption, IInv, NEW w \in Worker, wk[w].pc \in {"lock"} \cup Deciding
    PROVE  Visited(w) \in SweepState /\ Visited(w).pc = "find" /\ Visited(w).s = None
<1>1. wk[w] \in SweepState /\ wk[w].s \in Schedule
  BY DEF IInv, Typed, DeciderHolds
<1> QED
  BY <1>1 DEF Visited, SweepState

(* A sweep that decides about nothing has nothing to hold. *)
LEMMA Undecided ==
    ASSUME ScheduleAssumption, IInv, NEW w \in Worker, NEW x \in SweepState,
           x.pc \in {"idle", "find"}, x.s = None,
           wk' = [wk EXCEPT ![w] = x]
    PROVE  DeciderHolds(w)' /\ CreationAgrees(w)'
<1>1. wk'[w] = x
  BY DEF IInv, Typed
<1> QED
  BY <1>1 DEF DeciderHolds, CreationAgrees, Deciding

-----------------------------------------------------------------------------
(* The steps of a sweep *)

(* To look for a due schedule, and to pass over one, keeps IInv.           *)
LEMMA FindKeeps ==
    ASSUME ScheduleAssumption, IInv, NEW w \in Worker,
           StartSweep(w) \/ FindDue(w) \/ EndSweep(w) \/ PassOver(w)
    PROVE  IInv'
<1>0. Typed
  BY DEF IInv
<1>1. CASE StartSweep(w)
  <2>1. [Idle EXCEPT !.pc = "find", !.now = clock] \in SweepState
    BY <1>0, IdleType DEF Typed
  <2>2. DeciderHolds(w)' /\ CreationAgrees(w)'
    BY <1>1, <2>1, Undecided DEF StartSweep, Do, Idle
  <2> QED
    BY <1>0, <1>1, <2>1, <2>2, SweepGoesOn DEF StartSweep, Do, Others, Typed
<1>2. CASE FindDue(w)
  <2>1. PICK s \in Schedule : /\ Due(sched[s], wk[w].now)
                              /\ wk' = [wk EXCEPT ![w] = [wk[w] EXCEPT !.pc = "lock", !.s = s]]
    BY <1>2 DEF FindDue, Do
  <2>2. [wk[w] EXCEPT !.pc = "lock", !.s = s] \in SweepState
    BY <1>0 DEF Typed, SweepState
  <2>3. wk'[w].pc = "lock" /\ wk'[w].s = s /\ sched'[s] # None
    BY <1>0, <1>2, <2>1, <2>2 DEF Typed, SweepState, FindDue, Due
  <2>4. DeciderHolds(w)' /\ CreationAgrees(w)'
    BY <2>3 DEF DeciderHolds, CreationAgrees, Deciding
  <2> QED
    BY <1>0, <1>2, <2>1, <2>2, <2>4, SweepGoesOn DEF FindDue, Others, Typed
<1>3. CASE EndSweep(w)
  <2>1. DeciderHolds(w)' /\ CreationAgrees(w)'
    BY <1>3, IdleType, Undecided DEF EndSweep, Do, Idle
  <2> QED
    BY <1>0, <1>3, <2>1, IdleType, UnlockedKeeps, SweepGoesOn DEF EndSweep, Do, Others, Typed
<1>4. CASE PassOver(w)
  <2>1. DeciderHolds(w)' /\ CreationAgrees(w)'
    BY <1>4, VisitedType, Undecided DEF PassOver, Do
  <2> QED
    BY <1>0, <1>4, <2>1, VisitedType, SweepGoesOn DEF PassOver, Do, Others, Typed
<1> QED
  BY <1>1, <1>2, <1>3, <1>4

(* So does the second reading of the row: the lock was free, or the        *)
(* sweep's.                                                                *)
LEMMA LockKeeps ==
    ASSUME ScheduleAssumption, IInv, NEW w \in Worker, LockAndReread(w)
    PROVE  IInv'
<1> DEFINE s == wk[w].s
           x == [wk[w] EXCEPT !.pc = "check", !.row = sched[s]]
<1>1. Typed /\ wk[w] \in SweepState /\ wk[w].pc = "lock" /\ s \in Schedule /\ sched[s] \in Row
  BY DEF IInv, Typed, DeciderHolds, LockAndReread, Do
<1>2. /\ lock' \in [Schedule -> Worker \cup {None}]
      /\ lock'[s] = w
      /\ \A t \in Schedule, v \in Worker : v # w /\ lock[t] = v => lock'[t] = v
  BY <1>1 DEF LockAndReread, Typed, ScheduleAssumption
<1>3. CASE Due(sched[s], wk[w].now)
  <2>1. x \in SweepState
    BY <1>1 DEF SweepState, Deciding
  <2>2. wk' = [wk EXCEPT ![w] = x]
    BY <1>3 DEF LockAndReread, Do
  <2>3. wk'[w] = x /\ x.pc = "check" /\ x.row = sched[s] /\ x.s = s /\ x.now = wk[w].now
    BY <1>1, <2>2 DEF Typed, SweepState
  <2>4. DeciderHolds(w)'
    BY <1>1, <1>2, <1>3, <2>3 DEF DeciderHolds, Due, LockAndReread, ScheduleAssumption
  <2>5. CreationAgrees(w)'
    BY <2>3 DEF CreationAgrees
  <2> QED
    BY <1>1, <1>2, <2>1, <2>2, <2>4, <2>5, SweepGoesOn DEF LockAndReread, Others, Typed
<1>4. CASE ~Due(sched[s], wk[w].now)
  <2>1. wk' = [wk EXCEPT ![w] = Visited(w)]
    BY <1>4 DEF LockAndReread, Do
  <2>2. DeciderHolds(w)' /\ CreationAgrees(w)'
    BY <1>1, <2>1, VisitedType, Undecided
  <2> QED
    BY <1>1, <1>2, <2>1, <2>2, VisitedType, SweepGoesOn DEF LockAndReread, Others, Typed
<1> QED
  BY <1>3, <1>4

(* A visit that ends with a skip. *)
LEMMA SkipKeeps ==
    ASSUME ScheduleAssumption, IInv, NEW w \in Worker, wk[w].pc \in Deciding,
           NEW why \in Outcome \cup {None}, Skip(w, why), UNCHANGED <<scan, Others>>
    PROVE  IInv'
<1> DEFINE s == wk[w].s
           row == wk[w].row
           next == Advance(row.next, row.interval, wk[w].now)
<1>1. /\ Typed /\ s \in Schedule /\ sched[s] \in Row
      /\ row \in Row /\ row.next <= wk[w].now /\ wk[w].now \in Time
  BY Decider DEF IInv
<1>2. next \in Nat
  BY <1>1, AdvanceType DEF Row
<1>3. sched' = [sched EXCEPT ![s] = [sched[s] EXCEPT !.outcome = why, !.next = next]]
  <2> HIDE DEF next
  <2> QED
    BY <1>1 DEF Skip, Typed, next
<1>4. [sched[s] EXCEPT !.outcome = why, !.next = next] \in Row
  <2> HIDE DEF next
  <2> QED
    BY <1>1, <1>2 DEF Row
<1>5. /\ sched' \in [Schedule -> Row \cup {None}]
      /\ \A t \in Schedule : sched[t] # None => sched'[t] # None
  <2> HIDE DEF next
  <2> QED
    BY <1>1, <1>3, <1>4 DEF Typed, ScheduleAssumption
<1>6. wk' = [wk EXCEPT ![w] = Visited(w)] /\ lock' = Unlocked(w)
  BY DEF Skip
<1>7. DeciderHolds(w)' /\ CreationAgrees(w)'
  BY <1>6, VisitedType, Undecided
<1>8. UNCHANGED <<scan, clock, minInterval, active>>
  BY DEF Others
<1>9. Visited(w) \in SweepState
  BY VisitedType
<1>10. /\ lock' \in [Schedule -> Worker \cup {None}]
       /\ \A t \in Schedule, v \in Worker : v # w /\ lock[t] = v => lock'[t] = v
  BY <1>6, UnlockedKeeps
<1> QED
  BY <1>5, <1>6, <1>7, <1>8, <1>9, <1>10, SweepGoesOn

(* So does the end of a visit, which moves next_run_at.                    *)
LEMMA FinishKeeps ==
    ASSUME ScheduleAssumption, IInv, NEW w \in Worker, Finish(w)
    PROVE  IInv'
<1> DEFINE s == wk[w].s
           slot == wk[w].row.next
           next == IF sched[s].next = slot
                   THEN Advance(slot, sched[s].interval, wk[w].now) ELSE sched[s].next
<1>1. wk[w].pc \in Deciding
  BY DEF Finish, Do, Deciding
<1>2. /\ Typed /\ s \in Schedule /\ sched[s] \in Row
      /\ slot \in Time /\ slot <= wk[w].now /\ wk[w].now \in Time
  BY <1>1, Decider DEF IInv
<1>3. next \in Nat
  BY <1>2, AdvanceType DEF Row
<1>4. sched' = [sched EXCEPT ![s] = [sched[s] EXCEPT !.outcome = "TRIGGERED", !.scan = slot,
                                                     !.next = next]]
  BY DEF Finish
<1>5. [sched[s] EXCEPT !.outcome = "TRIGGERED", !.scan = slot, !.next = next] \in Row
  <2> HIDE DEF next
  <2> QED
    BY <1>2, <1>3 DEF Row, Outcome
<1>6. /\ sched' \in [Schedule -> Row \cup {None}]
      /\ \A t \in Schedule : sched[t] # None => sched'[t] # None
  <2> HIDE DEF next
  <2> QED
    BY <1>2, <1>4, <1>5 DEF Typed, ScheduleAssumption
<1>7. wk' = [wk EXCEPT ![w] = Visited(w)] /\ lock' = Unlocked(w)
  BY DEF Finish, Do
<1>8. DeciderHolds(w)' /\ CreationAgrees(w)'
  BY <1>1, <1>7, VisitedType, Undecided
<1>9. UNCHANGED <<scan, clock, minInterval, active>>
  BY DEF Finish, Others
<1>10. Visited(w) \in SweepState
  BY <1>1, VisitedType
<1>11. /\ lock' \in [Schedule -> Worker \cup {None}]
       /\ \A t \in Schedule, v \in Worker : v # w /\ lock[t] = v => lock'[t] = v
  BY <1>7, UnlockedKeeps
<1> QED
  BY <1>6, <1>7, <1>8, <1>9, <1>10, <1>11, SweepGoesOn

(* A visit that goes on. *)
LEMMA VisitKeeps ==
    ASSUME ScheduleAssumption, IInv, NEW w \in Worker, wk[w].pc \in Deciding,
           NEW x \in SweepState, wk' = [wk EXCEPT ![w] = x],
           x.pc \in Deciding, x.now = wk[w].now, x.s = wk[w].s, x.row = wk[w].row,
           NEW stage \in Stage, scan' = [scan EXCEPT ![TheSlot(w)] = stage],
           x.pc = "reserve" => stage = "planned",
           x.pc = "dispatch" => stage = "reserved",
           stage \in ActiveStage => scan[TheSlot(w)] \in ActiveStage \/ ~HasActiveScan(wk[w].s),
           UNCHANGED <<sched, lock, Others>>
    PROVE  IInv'
<1>1. /\ Typed /\ OneActive /\ DeciderHolds(w) /\ TheSlot(w) \in Slot
      /\ wk[w].s \in Schedule /\ wk[w].row.next \in Time
  BY Decider DEF IInv
<1>2. wk'[w] = x /\ TheSlot(w)' = TheSlot(w)
  BY <1>1 DEF Typed, TheSlot
<1>3. scan' \in [Slot -> Stage]
  BY <1>1 DEF Typed
<1>4. DeciderHolds(w)'
  BY <1>1, <1>2 DEF DeciderHolds, Deciding
<1>5. CreationAgrees(w)'
  BY <1>1, <1>2 DEF CreationAgrees, Typed
<1>6. OneActive'
  <2> SUFFICES ASSUME NEW s \in Schedule, NEW t \in Time, NEW u \in Time,
                      scan'[<<s, t>>] \in ActiveStage, scan'[<<s, u>>] \in ActiveStage, t # u
               PROVE  FALSE
    BY DEF OneActive
  <2>1. <<s, t>> \in Slot /\ <<s, u>> \in Slot
    BY DEF Slot
  <2>2. ~(scan[<<s, t>>] \in ActiveStage /\ scan[<<s, u>>] \in ActiveStage)
    BY <1>1 DEF OneActive
  <2>3. TheSlot(w) = <<s, t>> \/ TheSlot(w) = <<s, u>>
    BY <1>1, <2>1, <2>2 DEF Typed
  <2>4. wk[w].s = s /\ stage \in ActiveStage
    BY <1>1, <2>1, <2>3 DEF TheSlot, Typed
  <2>5. scan[<<s, t>>] \in ActiveStage \/ scan[<<s, u>>] \in ActiveStage
    BY <1>1, <2>1, <2>3 DEF Typed
  <2>6. HasActiveScan(s)
    BY <2>5 DEF HasActiveScan
  <2> QED
    BY <1>1, <2>1, <2>2, <2>3, <2>4, <2>5, <2>6 DEF Typed
<1> QED
  BY <1>1, <1>3, <1>4, <1>5, <1>6, SweepKeeps DEF Typed, Others

(* So do the steps of a creation: the schedule had no active scan, and no  *)
(* other sweep could plan one.                                             *)
LEMMA CreateKeeps ==
    ASSUME ScheduleAssumption, IInv, NEW w \in Worker,
           \/ Plan(w) \/ PreflightFails(w) \/ Reserve(w) \/ QuotaExceeded(w)
           \/ Dispatch(w) \/ CreationFails(w)
    PROVE  IInv'
<1> DEFINE slot == TheSlot(w)
           x(pc) == [wk[w] EXCEPT !.pc = pc]
<1>0. wk[w].pc \in Deciding
  BY DEF Plan, PreflightFails, Reserve, QuotaExceeded, Dispatch, CreationFails, Do, Deciding
<1>1. /\ Typed /\ wk[w] \in SweepState /\ slot \in Slot /\ CreationAgrees(w)
      /\ wk[w].s \in Schedule
  BY <1>0, Decider DEF IInv, Typed
<1>2. /\ scan[slot] \in Stage
      /\ scan = [scan EXCEPT ![slot] = scan[slot]]
  BY <1>1 DEF Typed
<1>3. ASSUME NEW pc \in Deciding
      PROVE  /\ x(pc) \in SweepState /\ x(pc).pc = pc /\ x(pc).now = wk[w].now
             /\ x(pc).s = wk[w].s /\ x(pc).row = wk[w].row
  BY <1>1, <1>3 DEF SweepState
<1>4. ASSUME NEW why \in Outcome
      PROVE  /\ Fails(w, why) \in SweepState /\ Fails(w, why).pc = "fail"
             /\ Fails(w, why).now = wk[w].now
             /\ Fails(w, why).s = wk[w].s /\ Fails(w, why).row = wk[w].row
  BY <1>1, <1>4 DEF SweepState, Fails, Deciding
<1>5. CASE Plan(w)
  <2>1. ~HasActiveScan(wk[w].s)
    BY <1>5 DEF Plan, Refusal, ScheduleAssumption, Outcome
  <2>2. CASE scan[slot] = "quota_failed"
    <3>1. wk' = [wk EXCEPT ![w] = Fails(w, "SKIPPED_QUOTA")] /\ scan' = scan
      BY <1>5, <2>2 DEF Plan, Do
    <3> QED
      BY <1>0, <1>2, <1>4, <1>5, <2>2, <3>1, VisitKeeps DEF Plan, ActiveStage, Outcome, Deciding
  <2>3. scan[slot] \notin ActiveStage
    <3>1. slot = <<wk[w].s, wk[w].row.next>> /\ wk[w].row.next \in Time
      BY <1>0, Decider DEF TheSlot
    <3> QED
      BY <2>1, <3>1 DEF HasActiveScan
  <2>4. CASE scan[slot] = "none"
    <3>1. wk' = [wk EXCEPT ![w] = x("reserve")] /\ scan' = [scan EXCEPT ![slot] = "planned"]
      BY <1>5, <2>4 DEF Plan, Do
    <3> QED
      BY <1>0, <1>3, <1>5, <2>1, <3>1, VisitKeeps DEF Plan, Stage, ActiveStage, Deciding
  <2>5. CASE scan[slot] = "ended"
    <3>1. wk' = [wk EXCEPT ![w] = x("finish")] /\ scan' = scan
      BY <1>5, <2>5 DEF Plan, Do
    <3> QED
      BY <1>0, <1>2, <1>3, <1>5, <2>5, <3>1, VisitKeeps DEF Plan, ActiveStage, Deciding
  <2> QED
    BY <1>2, <2>2, <2>3, <2>4, <2>5 DEF Stage
<1>6. CASE PreflightFails(w)
  <2>1. wk' = [wk EXCEPT ![w] = Fails(w, "SKIPPED_NOT_READY")] /\ scan' = scan
    BY <1>6 DEF PreflightFails, Do
  <2> QED
    BY <1>0, <1>2, <1>4, <1>6, <2>1, VisitKeeps
       DEF PreflightFails, ActiveStage, Outcome, Deciding
<1>7. CASE Reserve(w)
  <2>1. /\ wk' = [wk EXCEPT ![w] = x("dispatch")] /\ scan' = [scan EXCEPT ![slot] = "reserved"]
        /\ scan[slot] = "planned"
    BY <1>1, <1>7 DEF Reserve, Do, CreationAgrees
  <2> QED
    BY <1>0, <1>3, <1>7, <2>1, VisitKeeps DEF Reserve, Stage, ActiveStage, Deciding
<1>8. CASE QuotaExceeded(w)
  <2>1. /\ wk' = [wk EXCEPT ![w] = Fails(w, "SKIPPED_QUOTA")]
        /\ scan' = [scan EXCEPT ![slot] = "quota_failed"]
        /\ UNCHANGED <<sched, lock, Others>>
    BY <1>8 DEF QuotaExceeded, Do
  <2>2. "SKIPPED_QUOTA" \in Outcome /\ "fail" \in Deciding
    BY DEF Outcome, Deciding
  <2>3. "quota_failed" \in Stage /\ "quota_failed" \notin ActiveStage
    BY DEF Stage, ActiveStage
  <2> QED
    BY <1>0, <1>4, <2>1, <2>2, <2>3, VisitKeeps
<1>9. CASE Dispatch(w)
  <2>1. /\ wk' = [wk EXCEPT ![w] = x("finish")] /\ scan' = [scan EXCEPT ![slot] = "dispatched"]
        /\ scan[slot] = "reserved"
    BY <1>1, <1>9 DEF Dispatch, Do, CreationAgrees
  <2> QED
    BY <1>0, <1>3, <1>9, <2>1, VisitKeeps DEF Dispatch, Stage, ActiveStage, Deciding
<1>10. CASE CreationFails(w)
  <2>1. wk' = [wk EXCEPT ![w] = Fails(w, "DISPATCH_FAILED")] /\ scan' = scan
    BY <1>10 DEF CreationFails
  <2> QED
    BY <1>0, <1>2, <1>4, <1>10, <2>1, VisitKeeps DEF CreationFails, Outcome, Deciding
<1> QED
  BY <1>5, <1>6, <1>7, <1>8, <1>9, <1>10

(* So does every step of a sweep.                                          *)
LEMMA SweepStep ==
    ASSUME ScheduleAssumption, IInv, NEW w \in Worker, Sweep(w)
    PROVE  IInv'
<1>1. CASE Refuse(w)
  <2>1. Refusal(wk[w].s, wk[w].row) \in Outcome \cup {None}
    BY DEF Refusal, Outcome
  <2>2. wk[w].pc \in Deciding
    BY <1>1 DEF Refuse, Deciding
  <2> QED
    BY <1>1, <2>1, <2>2, SkipKeeps DEF Refuse
<1>2. CASE SkipFailed(w)
  <2>1. wk[w].why \in Outcome \cup {None} /\ wk[w].pc \in Deciding
    BY <1>2 DEF SkipFailed, Deciding, IInv, Typed, SweepState
  <2> QED
    BY <1>2, <2>1, SkipKeeps DEF SkipFailed
<1> QED
  BY <1>1, <1>2, FindKeeps, LockKeeps, CreateKeeps, FinishKeeps DEF Sweep

(* A sweep that dies leaves its scan where it is.                          *)
LEMMA CrashKeeps ==
    ASSUME ScheduleAssumption, IInv, NEW w \in Worker, Crash(w)
    PROVE  IInv'
<1>1. DeciderHolds(w)' /\ CreationAgrees(w)'
  BY IdleType, Undecided DEF Crash, Idle
<1>2. /\ wk' = [wk EXCEPT ![w] = Idle] /\ Idle \in SweepState
      /\ sched' \in [Schedule -> Row \cup {None}]
      /\ \A s \in Schedule : sched[s] # None => sched'[s] # None
      /\ UNCHANGED <<scan, clock, minInterval, active>>
  BY IdleType DEF Crash, IInv, Typed
<1>3. /\ lock' \in [Schedule -> Worker \cup {None}]
      /\ \A s \in Schedule, v \in Worker : v # w /\ lock[s] = v => lock'[s] = v
  BY UnlockedKeeps DEF Crash
<1> QED
  BY <1>1, <1>2, <1>3, SweepGoesOn

-----------------------------------------------------------------------------
(* The steps of everybody else *)

(* Who changes neither the sweeps nor the scans of a creation disturbs     *)
(* nothing.                                                                *)
LEMMA BystanderKeeps ==
    ASSUME ScheduleAssumption, IInv, Typed', UNCHANGED <<lock, wk>>,
           \A s \in Schedule : sched[s] # None => sched'[s] # None,
           \A x \in Slot : \/ scan'[x] = scan[x]
                           \/ /\ scan'[x] = "ended"
                              /\ \A w \in Worker :
                                    wk[w].pc \in {"reserve", "dispatch"} => TheSlot(w) # x
    PROVE  IInv'
<1>1. ASSUME NEW w \in Worker PROVE DeciderHolds(w)' /\ CreationAgrees(w)'
  <2>1. DeciderHolds(w) /\ CreationAgrees(w)
    BY DEF IInv
  <2>2. DeciderHolds(w)'
    BY <2>1 DEF DeciderHolds, Deciding
  <2>3. wk[w].pc \in {"reserve", "dispatch"} => TheSlot(w) \in Slot
    BY Decider DEF Deciding
  <2>4. TheSlot(w)' = TheSlot(w)
    BY DEF TheSlot
  <2>5. CreationAgrees(w)'
    BY <2>1, <2>3, <2>4 DEF CreationAgrees
  <2> QED
    BY <2>2, <2>5
<1>2. OneActive'
  BY DEF IInv, OneActive, Slot, ActiveStage
<1> QED
  BY <1>1, <1>2 DEF IInv

(* A user's edit does not touch the sweeps' copies.                        *)
LEMMA PutKeeps ==
    ASSUME ScheduleAssumption, IInv, NEW s \in Schedule, NEW enabled \in BOOLEAN,
           NEW interval \in Interval, NEW first \in FirstRun \cup {None},
           PutSchedule(s, enabled, interval, first)
    PROVE  IInv'
<1> DEFINE next == IF first # None THEN first ELSE clock + interval
<1>1. Typed
  BY DEF IInv
<1>2. next \in Nat
  <2>1. clock \in Nat /\ interval \in Nat
    BY <1>1 DEF Typed, Time, ScheduleAssumption
  <2> QED
    BY <2>1 DEF ScheduleAssumption
<1>3. [enabled |-> enabled, interval |-> interval, next |-> next,
       outcome |-> None, scan |-> None] \in Row
  <2> HIDE DEF next
  <2> QED
    BY <1>2 DEF Row
<1>4. ASSUME sched[s] # None, NEW n \in Nat
      PROVE  [sched[s] EXCEPT !.enabled = enabled, !.interval = interval, !.next = n] \in Row
  BY <1>1, <1>4 DEF Typed, Row
<1>5. sched' \in [Schedule -> Row \cup {None}] /\ \A t \in Schedule : sched[t] # None => sched'[t] # None
  <2>1. sched[s] # None => sched[s] \in Row /\ sched[s].next \in Nat
    BY <1>1 DEF Typed, Row
  <2>2. PICK row \in Row : sched' = [sched EXCEPT ![s] = row]
    <3>1. CASE sched[s] = None
      BY <1>3, <3>1 DEF PutSchedule
    <3>2. CASE sched[s] # None
      <4> DEFINE n == IF (enabled /\ sched[s].next <= clock) \/ first # None
                      THEN next ELSE sched[s].next
      <4>1. n \in Nat
        BY <1>2, <2>1, <3>2
      <4>2. sched' = [sched EXCEPT ![s] = [sched[s] EXCEPT !.enabled = enabled,
                                              !.interval = interval, !.next = n]]
        BY <3>2 DEF PutSchedule
      <4> HIDE DEF n
      <4> QED
        BY <1>4, <3>2, <4>1, <4>2
    <3> QED
      BY <3>1, <3>2
  <2> QED
    BY <1>1, <2>2 DEF Typed, ScheduleAssumption
<1>6. Typed'
  BY <1>1, <1>5 DEF Typed, PutSchedule
<1> QED
  BY <1>5, <1>6, BystanderKeeps DEF PutSchedule

(* Nor do the other edits, the ends of scans and the clock.                *)
LEMMA OtherKeeps ==
    ASSUME ScheduleAssumption, IInv,
           \/ \E s \in Schedule : DisableSchedule(s) \/ ToggleProject(s)
           \/ ChangePlan
           \/ \E x \in Slot : ScanEnds(x)
           \/ Tick
    PROVE  IInv'
<1>1. Typed
  BY DEF IInv
<1>2. ASSUME NEW s \in Schedule, DisableSchedule(s) PROVE IInv'
  <2>1. [sched[s] EXCEPT !.enabled = FALSE] \in Row
    BY <1>1, <1>2 DEF Typed, Row, DisableSchedule
  <2>2. sched' = [sched EXCEPT ![s] = [sched[s] EXCEPT !.enabled = FALSE]]
    BY <1>2 DEF DisableSchedule
  <2>3. Typed' /\ \A t \in Schedule : sched[t] # None => sched'[t] # None
    BY <1>1, <1>2, <2>1, <2>2 DEF Typed, DisableSchedule, ScheduleAssumption
  <2> QED
    BY <1>2, <2>3, BystanderKeeps DEF DisableSchedule
<1>3. ASSUME NEW s \in Schedule, ToggleProject(s) PROVE IInv'
  <2>1. Typed'
    BY <1>1, <1>3 DEF Typed, ToggleProject
  <2> QED
    BY <1>3, <2>1, BystanderKeeps DEF ToggleProject
<1>4. CASE ChangePlan
  <2>1. Typed'
    BY <1>1, <1>4 DEF Typed, ChangePlan
  <2> QED
    BY <1>4, <2>1, BystanderKeeps DEF ChangePlan
<1>5. ASSUME NEW x \in Slot, ScanEnds(x) PROVE IInv'
  <2>1. Typed'
    BY <1>1, <1>5 DEF Typed, ScanEnds, Others, Stage
  <2>2. \A w \in Worker : wk[w].pc \in {"reserve", "dispatch"} => TheSlot(w) # x
    <3> SUFFICES ASSUME NEW w \in Worker, wk[w].pc \in {"reserve", "dispatch"}, TheSlot(w) = x
                 PROVE  FALSE
      OBVIOUS
    <3>1. scan[x] \in {"planned", "reserved"}
      BY DEF IInv, CreationAgrees
    <3> QED
      BY <1>5, <3>1 DEF ScanEnds
  <2>3. \A y \in Slot : scan'[y] = scan[y] \/ (scan'[y] = "ended" /\ y = x)
    BY <1>1, <1>5 DEF ScanEnds, Typed
  <2> QED
    BY <1>5, <2>1, <2>2, <2>3, BystanderKeeps DEF ScanEnds, Others
<1>6. CASE Tick
  <2>1. Typed'
    BY <1>1, <1>6 DEF Typed, Tick, Time, ScheduleAssumption
  <2> QED
    BY <1>6, <2>1, BystanderKeeps DEF Tick
<1> QED
  BY <1>2, <1>3, <1>4, <1>5, <1>6

(* The parts of IInv hold initially.                                       *)
LEMMA InvInit == ScheduleAssumption /\ Init => IInv
<1> SUFFICES ASSUME ScheduleAssumption, Init PROVE IInv
  OBVIOUS
<1>1. Typed
  <2>1. 0 \in Time /\ "none" \in Stage /\ Idle \in SweepState
    <3>1. 0 \in Time
      BY DEF Time, ScheduleAssumption
    <3> QED
      BY <3>1, IdleType DEF Stage
  <2> QED
    BY <2>1 DEF Init, Typed
<1>2. \A w \in Worker : DeciderHolds(w) /\ CreationAgrees(w)
  BY DEF Init, Idle, DeciderHolds, CreationAgrees, Deciding
<1>3. OneActive
  BY DEF Init, OneActive, Slot, ActiveStage
<1> QED
  BY <1>1, <1>2, <1>3 DEF IInv

(* Every step keeps IInv.                                                  *)
LEMMA InvStep == ScheduleAssumption /\ IInv /\ [Next]_vars => IInv'
<1> SUFFICES ASSUME ScheduleAssumption, IInv, [Next]_vars PROVE IInv'
  OBVIOUS
<1>1. CASE UNCHANGED vars
  BY <1>1 DEF vars, IInv, Typed, DeciderHolds, CreationAgrees, TheSlot, OneActive
<1> QED
  BY <1>1, SweepStep, CrashKeeps, PutKeeps, OtherKeeps DEF Next

-----------------------------------------------------------------------------
(* Theorems *)

(* IInv says more of the sweeps than TypeOK does. *)
LEMMA TypedIsTypeOK == IInv => TypeOK
BY DEF IInv, Typed, TypeOK, SweepState

(* Schedules, locks, scans and sweeps stay well formed. *)
THEOREM TypeCorrect == ASSUME ScheduleAssumption PROVE Spec => []TypeOK
BY InvInit, InvStep, TypedIsTypeOK, PTL DEF Spec

(* One slot at most of a schedule has a scan that is PENDING or RUNNING.   *)
LEMMA OneIsCounted == ASSUME ScheduleAssumption PROVE IInv => NoOverlap
<1> SUFFICES ASSUME IInv, NEW s \in Schedule
             PROVE  Cardinality({t \in Time : scan[<<s, t>>] \in ActiveStage}) <= 1
  BY DEF NoOverlap
<1> DEFINE T == {t \in Time : scan[<<s, t>>] \in ActiveStage}
<1>1. \A t, u \in T : t = u
  BY DEF IInv, OneActive
<1> SUFFICES Cardinality(T) <= 1
  OBVIOUS
<1> HIDE DEF T
<1>2. CASE T = {}
  BY <1>2, FS_EmptySet
<1>3. CASE T # {}
  <2>1. PICK t : t \in T
    BY <1>3
  <2>2. T = {t}
    BY <1>1, <2>1
  <2>3. Cardinality({t}) = 1
    BY FS_Singleton
  <2> QED
    BY <2>2, <2>3
<1> QED
  BY <1>2, <1>3

(* Whatever sweeps overlap, crash or race with the user's changes, a       *)
(* project has at most one scheduled scan going.                           *)
THEOREM OneScheduledScan == ASSUME ScheduleAssumption PROVE Spec => []NoOverlap
BY InvInit, InvStep, OneIsCounted, PTL DEF Spec

(* A visit that moves next_run_at moves it to the first boundary after now.*)
LEMMA StepToFuture == ScheduleAssumption /\ IInv /\ [Next]_vars => FirstFuture
<1> SUFFICES ASSUME ScheduleAssumption, IInv, [Next]_vars, NEW w \in Worker, NEW s \in Schedule,
                    wk[w].s = s, wk'[w].pc = "find", wk[w].pc # "lock",
                    sched'[s].next # sched[s].next
             PROVE  \E interval \in {wk[w].row.interval, sched[s].interval} :
                      /\ sched'[s].next \in wk[w].now + 1 .. wk[w].now + interval
                      /\ (sched'[s].next - wk[w].row.next) % interval = 0
  BY DEF FirstFuture
<1>1. wk[w].pc \in Deciding
  BY DEF IInv, Typed, DeciderHolds, SweepState, ScheduleAssumption
<1>2. /\ sched[s] \in Row /\ wk[w].row \in Row /\ wk[w].row.next <= wk[w].now
      /\ wk[w].row.next \in Nat /\ wk[w].now \in Nat
      /\ sched[s].interval \in Nat \ {0} /\ wk[w].row.interval \in Nat \ {0}
      /\ sched \in [Schedule -> Row \cup {None}]
  <2>1. /\ sched[s] \in Row /\ wk[w].row \in Row /\ wk[w].row.next <= wk[w].now
        /\ wk[w].now \in Time
    BY <1>1, Decider
  <2>2. Interval \subseteq Nat \ {0} /\ Time \subseteq Nat
    BY DEF Time, ScheduleAssumption
  <2> QED
    BY <2>1, <2>2 DEF Row, IInv, Typed
<1>3. Refuse(w) \/ SkipFailed(w) \/ Finish(w)
  <2>1. wk' # wk /\ sched' # sched
    BY <1>1 DEF Deciding
  <2>2. PICK v \in Worker : Sweep(v) \/ Crash(v)
    BY <2>1 DEF Next, vars, PutSchedule, DisableSchedule, ToggleProject, ChangePlan, ScanEnds, Tick
  <2>3. Refuse(v) \/ SkipFailed(v) \/ Finish(v)
    BY <2>1, <2>2 DEF Sweep, StartSweep, FindDue, EndSweep, PassOver, LockAndReread, Plan,
       PreflightFails, Reserve, QuotaExceeded, Dispatch, CreationFails, Crash
  <2>4. wk' = [wk EXCEPT ![v] = Visited(v)]
    BY <2>3 DEF Refuse, SkipFailed, Skip, Finish, Do
  <2>5. v = w
    BY <1>1, <2>4 DEF Deciding, IInv, Typed
  <2> QED
    BY <2>3, <2>5
<1>4. CASE Refuse(w) \/ SkipFailed(w)
  <2>1. PICK why : sched' = [sched EXCEPT ![s].outcome = why,
              ![s].next = Advance(wk[w].row.next, wk[w].row.interval, wk[w].now)]
    BY <1>4 DEF Refuse, SkipFailed, Skip
  <2>2. sched'[s].next = Advance(wk[w].row.next, wk[w].row.interval, wk[w].now)
    BY <1>2, <2>1 DEF Row
  <2>3. LET next == Advance(wk[w].row.next, wk[w].row.interval, wk[w].now) IN
        /\ next \in wk[w].now + 1 .. wk[w].now + wk[w].row.interval
        /\ (next - wk[w].row.next) % wk[w].row.interval = 0
    BY <1>2, FirstBoundary, Zenon
  <2>4. /\ sched'[s].next \in wk[w].now + 1 .. wk[w].now + wk[w].row.interval
        /\ (sched'[s].next - wk[w].row.next) % wk[w].row.interval = 0
    BY <2>2, <2>3, Zenon
  <2> QED
    BY <2>4
<1>5. CASE Finish(w)
  <2>1. sched'[s].next = IF sched[s].next = wk[w].row.next
                         THEN Advance(sched[s].next, sched[s].interval, wk[w].now)
                         ELSE sched[s].next
    BY <1>2, <1>5 DEF Finish, Row
  <2>2. sched'[s].next = Advance(wk[w].row.next, sched[s].interval, wk[w].now)
    BY <2>1
  <2>3. LET next == Advance(wk[w].row.next, sched[s].interval, wk[w].now) IN
        /\ next \in wk[w].now + 1 .. wk[w].now + sched[s].interval
        /\ (next - wk[w].row.next) % sched[s].interval = 0
    BY <1>2, FirstBoundary, Zenon
  <2>4. /\ sched'[s].next \in wk[w].now + 1 .. wk[w].now + sched[s].interval
        /\ (sched'[s].next - wk[w].row.next) % sched[s].interval = 0
    BY <2>2, <2>3, Zenon
  <2> QED
    BY <2>4
<1> QED
  BY <1>3, <1>4, <1>5

(* No catch-up storm: next_run_at moves to the first boundary in the       *)
(* sweep's future, by the interval the sweep worked with.                  *)
THEOREM FutureSlot == ASSUME ScheduleAssumption PROVE Spec => FirstFutureSlot
<1>1. ScheduleAssumption /\ IInv /\ [Next]_vars => [FirstFuture]_vars
  BY StepToFuture
<1> QED
  BY InvInit, InvStep, <1>1, PTL DEF Spec, FirstFutureSlot
=============================================================================
