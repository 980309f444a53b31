------------------------ MODULE ScanLifecycleProofs ------------------------
(***************************************************************************)
(* Proofs about ScanLifecycle, for any set of scans, requests and workers, *)
(* any finite plan of runs in any rounds, any concurrency, any number of   *)
(* duplicate deliveries and crashes, with reservations that expire or not  *)
(* and workers that are slow or not.                                       *)
(*                                                                         *)
(* IInv is inductive.  What the safety of a scan rests on:                 *)
(*   CreationAgrees, OneCreator    while a request may still refuse the    *)
(*       scan, nobody else can have touched it;                            *)
(*   WorkersPlaced, WorkersApart   one worker at most executes a scan; the *)
(*       claim, and a reservation that stays unusable, see to it;          *)
(*   TasksPlaced, TasksAgree       what a task may still do to its run;    *)
(*   RoundsAgree                   what a round leaves behind;             *)
(*   RecoveryAgrees                what recovery may rely on.              *)
(***************************************************************************)
EXTENDS ScanLifecycle, FiniteSetTheorems, TLAPS

Creating == {"reserve", "refuse", "attach"}

Publishing == {"dispatch", "dispatched", "undispatched"}

Executing == {"round", "fill", "wait"}

Over == {"SUCCEEDED", "FAILED"}

(* A request that has not attached its reservation owns a scan nobody has  *)
(* touched; one that publishes has attached it.                            *)
CreationAgrees ==
    \A q \in Request :
        /\ request[q].pc # "create" => Exists(Target[q])
        /\ request[q].pc \in Creating =>
             /\ scan[Target[q]].status = "PENDING"
             /\ ~scan[Target[q]].attached
             /\ \A r \in Runs(Target[q]) : run[r] = "PENDING"
        /\ request[q].pc \in Publishing => scan[Target[q]].attached

OneCreator ==
    \A a, b \in Request :
        /\ request[a].pc \in Creating /\ request[b].pc \in Creating
        /\ Target[a] = Target[b]
        => a = b

(* Only a scan that was attached is ever published. *)
MessagesAgree ==
    \A s \in Scan : messages[s] > 0 => Exists(s) /\ scan[s].attached

WorkerPlaced(w) ==
    /\ worker[w].pc = "idle" <=> worker[w].scan = NoRow
    /\ worker[w].stop => worker[w].pc = "wait"
    /\ worker[w].pc # "idle" =>
         /\ Exists(worker[w].scan)
         /\ scan[worker[w].scan].attached
    /\ worker[w].pc \in Executing => scan[worker[w].scan].status # "PENDING"
    /\ worker[w].pc = "finalize" /\ scan[worker[w].scan].status = "PENDING"
         => ~Usable(worker[w].scan)

WorkersPlaced == \A w \in Worker : WorkerPlaced(w)

(* Two workers hold the same scan only when both are about to finalize it. *)
WorkersApart ==
    \A v, w \in Worker :
        /\ v # w
        /\ worker[v].pc # "idle"
        /\ worker[v].scan = worker[w].scan
        => worker[v].pc = "finalize"

TasksPlaced ==
    \A r \in Run :
        task[r] # "none" =>
            \E w \in Worker : worker[w].pc \in {"fill", "wait"} /\ worker[w].scan = ScanOf[r]

RunsAgree ==
    \A r \in Run :
        /\ run[r] = "PLANNED" <=> ~Exists(ScanOf[r])
        /\ calls[r] <= 1
        /\ run[r] \in {"PLANNED", "PENDING"} => calls[r] = 0
        /\ r \in evidenced => calls[r] > 0
        /\ HasStatus(ScanOf[r], {"PENDING"}) => run[r] \in {"PENDING", "FAILED"} /\ calls[r] = 0

TasksAgree ==
    \A r \in Run :
        /\ task[r] \in {"queued", "scheduled"} => run[r] \in {"PENDING", "FAILED"} /\ calls[r] = 0
        /\ task[r] = "calling" \/ task[r] \in Answered =>
             run[r] \in {"RUNNING", "FAILED"} /\ calls[r] > 0
        /\ task[r] \in {"calling", "answered_failure"} => r \notin evidenced
        /\ task[r] \in {"answered_ok", "answered_billed_failure"} => r \in evidenced
        /\ task[r] = "done" => run[r] \in Over

(* A round begins when the runs of the earlier ones are over, and leaves   *)
(* the later ones alone.                                                   *)
RoundAgrees(w, r) ==
    worker[w].scan = ScanOf[r] =>
        /\ worker[w].pc = "round" /\ RoundOf[r] <= worker[w].round => run[r] \in Over
        /\ worker[w].pc \in {"fill", "wait"} /\ ~worker[w].stop /\ RoundOf[r] <= worker[w].round
             => run[r] \in Over \/ task[r] \in {"queued"} \cup Started
        /\ worker[w].pc \in Executing /\ RoundOf[r] > worker[w].round
             => run[r] \in {"PENDING", "FAILED"} /\ calls[r] = 0 /\ task[r] = "none"

RoundsAgree == \A w \in Worker, r \in Run : RoundAgrees(w, r)

(* A run is queued, or called, after the runs of the earlier rounds.       *)
RoundsFollow ==
    \A a, b \in Run :
        /\ ScanOf[a] = ScanOf[b] /\ RoundOf[a] < RoundOf[b]
        /\ task[b] # "none" \/ calls[b] > 0
        => run[a] \in Over

(* The counts of a scan are written when it ends. *)
CountsAgree ==
    \A s \in Scan : HasStatus(s, {"PENDING", "RUNNING"}) => scan[s].ok = 0

RecoveryAgrees ==
    recovery.pc # "idle" =>
        /\ recovery.scan \in Scan
        /\ Exists(recovery.scan)
        /\ \A q \in Request : Target[q] = recovery.scan => request[q].pc \notin Creating

(* When no worker is slow, recovery finds nobody at work.                  *)
RecoveryAlone ==
    ~SlowWorkers =>
        /\ recovery.pc = "mark" =>
             /\ \A w \in Worker : worker[w].scan # recovery.scan
             /\ RunsIn(recovery.scan, "RUNNING") = {}
        /\ \A r \in Run : task[r] = "calling" \/ task[r] \in Answered => run[r] = "RUNNING"
        /\ EvidencedRunNotWrittenOff

IInv ==
    /\ TypeOK
    /\ CreationAgrees /\ OneCreator
    /\ MessagesAgree
    /\ WorkersPlaced /\ WorkersApart
    /\ TasksPlaced /\ TasksAgree
    /\ RunsAgree
    /\ RoundsAgree /\ RoundsFollow
    /\ CountsAgree
    /\ RecoveryAgrees /\ RecoveryAlone
    /\ UsageIsEvidence
    /\ TerminalScanAccurate
    /\ TerminalScanReleased

-----------------------------------------------------------------------------
(* The quota tables *)

(* A reservation is made for a scan that has none. *)
LEMMA ReserveRows ==
    ASSUME TypeOK, NEW s \in Scan, NEW p \in Quota!Period, NEW n \in 1..MaxChecks,
           Quota!Reserve(s, p, n)
    PROVE  /\ Quota!TypeOK'
           /\ usage' = usage
           /\ \A k \in Scan \ {s} : resv'[k] = resv[k]
<1>1. n \in Int /\ 0 \in 0..MaxChecks
  BY LifecycleAssumption
<1>2. Quota!Debit(period[p], n) \in Quota!Counters
  BY <1>1 DEF TypeOK, Quota!TypeOK, Quota!Counters, Quota!Debit
<1>3. Quota!NewReservation(p, n) \in Quota!Reservation
  BY <1>1 DEF Quota!NewReservation, Quota!Reservation, Quota!Status
<1> QED
  BY <1>2, <1>3 DEF TypeOK, Quota!TypeOK, Quota!Reserve

(* What committing, releasing or expiring leaves of the reservations: none *)
(* becomes usable or active.                                               *)
Dwindles ==
    /\ \A k \in Scan : Usable(k)' => Usable(k)
    /\ \A k \in Scan : k \in Quota!Active' => k \in Quota!Active

LEMMA CommitRows ==
    ASSUME TypeOK, NEW s \in Scan, NEW r \in Run, Quota!Commit(s, 1, r)
    PROVE  /\ Quota!TypeOK'
           /\ usage' = [usage EXCEPT ![r] = [key |-> s, checks |-> 1]]
           /\ Dwindles
<1> DEFINE o == resv[s]
<1>1. /\ o \in Quota!Reservation
      /\ 1 <= o.reserved - o.committed
      /\ o.status \in {"ACTIVE", "COMMITTED"}
      /\ period' = [period EXCEPT ![o.period] = Quota!Transfer(@, 1)]
      /\ resv' = [resv EXCEPT ![s] = Quota!Consume(@, 1)]
      /\ usage' = [usage EXCEPT ![r] = [key |-> s, checks |-> 1]]
      /\ peak' = peak
  BY DEF TypeOK, Quota!TypeOK, Quota!Commit, Quota!Settle, Quota!Remaining
<1>2. Quota!Consume(o, 1) \in Quota!Reservation
  <2>1. o.committed + 1 \in 0..MaxChecks
    BY <1>1, LifecycleAssumption DEF Quota!Reservation
  <2>2. (IF o.committed + 1 >= o.reserved THEN "COMMITTED" ELSE o.status) \in Quota!Status
    BY <1>1 DEF Quota!Reservation, Quota!Status
  <2> QED
    BY <1>1, <2>1, <2>2 DEF Quota!Reservation, Quota!Consume
<1>3. Quota!Transfer(period[o.period], 1) \in Quota!Counters
  BY <1>1 DEF TypeOK, Quota!TypeOK, Quota!Reservation, Quota!Counters, Quota!Transfer
<1>4. [key |-> s, checks |-> 1] \in Quota!UsageEvent
  BY LifecycleAssumption DEF Quota!UsageEvent
<1>5. Quota!TypeOK'
  BY <1>1, <1>2, <1>3, <1>4 DEF TypeOK, Quota!TypeOK
<1>6. resv'[s] = Quota!Consume(o, 1) /\ \A k \in Scan \ {s} : resv'[k] = resv[k]
  BY <1>1 DEF TypeOK, Quota!TypeOK
<1>7. Quota!Consume(o, 1).status \in {o.status, "COMMITTED"} /\ o # NoRow
  BY <1>1, RowAssumption DEF Quota!Consume, Quota!Reservation
<1> QED
  BY <1>1, <1>5, <1>6, <1>7 DEF Dwindles, Usable, Quota!Active, Quota!Reserved

LEMMA ReleaseRows ==
    ASSUME TypeOK, NEW s \in Scan, Quota!Release(s)
    PROVE  Quota!TypeOK' /\ usage' = usage /\ Dwindles /\ s \notin Quota!Active'
<1> DEFINE o == resv[s]
<1>1. /\ o \in Quota!Reservation
      /\ o # NoRow /\ o.status = "ACTIVE"
      /\ period' = [period EXCEPT ![o.period] = Quota!Credit(@, Quota!Remaining(o))]
      /\ resv' = [resv EXCEPT ![s] = Quota!GiveBack(@)]
      /\ usage' = usage /\ peak' = peak
  BY DEF TypeOK, Quota!TypeOK, Quota!Release, Quota!Refund, Quota!Active, Quota!Reserved
<1>2. /\ Quota!GiveBack(o) \in Quota!Reservation
      /\ Quota!GiveBack(o).status \in {"RELEASED", "COMMITTED"}
  BY <1>1 DEF Quota!GiveBack, Quota!Reservation, Quota!Status
<1>3. Quota!Credit(period[o.period], Quota!Remaining(o)) \in Quota!Counters
  <2>1. Quota!Remaining(o) \in Int
    BY <1>1, LifecycleAssumption DEF Quota!Remaining, Quota!Reservation
  <2>2. period[o.period] \in Quota!Counters
    BY <1>1 DEF TypeOK, Quota!TypeOK, Quota!Reservation
  <2> QED
    BY <2>1, <2>2 DEF Quota!Credit, Quota!Counters
<1>4. Quota!TypeOK'
  BY <1>1, <1>2, <1>3 DEF TypeOK, Quota!TypeOK
<1>5. resv'[s] = Quota!GiveBack(o) /\ \A k \in Scan \ {s} : resv'[k] = resv[k]
  BY <1>1 DEF TypeOK, Quota!TypeOK
<1> QED
  BY <1>1, <1>2, <1>4, <1>5 DEF Dwindles, Usable, Quota!Active, Quota!Reserved

LEMMA ExpireRows ==
    ASSUME TypeOK, NEW s \in Scan, Quota!Expire({s}, [p \in Quota!Period |-> s])
    PROVE  Quota!TypeOK' /\ usage' = usage /\ Dwindles
<1> DEFINE o == resv[s]
           last == [p \in Quota!Period |-> s]
<1>1. /\ o \in Quota!Reservation
      /\ o # NoRow /\ o.status = "ACTIVE"
      /\ usage' = usage /\ peak' = peak
      /\ resv' = [k \in Scan |-> IF k \in {s} THEN [resv[k] EXCEPT !.status = "EXPIRED"]
                                              ELSE resv[k]]
  BY DEF TypeOK, Quota!TypeOK, Quota!Expire, Quota!Lapse, Quota!Active, Quota!Reserved
<1>2. /\ [o EXCEPT !.status = "EXPIRED"] \in Quota!Reservation
      /\ [o EXCEPT !.status = "EXPIRED"].status = "EXPIRED"
  BY <1>1 DEF Quota!Reservation, Quota!Status
<1>3. period' \in [Quota!Period -> Quota!Counters]
  <2>1. Quota!Remaining(o) \in Int
    BY <1>1, LifecycleAssumption DEF Quota!Remaining, Quota!Reservation
  <2>2. period' = [p \in Quota!Period |->
                     IF p \in Quota!Periods({s})
                     THEN Quota!Credit(period[p], Quota!Remaining(resv[last[p]]))
                     ELSE period[p]]
    BY DEF Quota!Expire, Quota!Lapse
  <2>3. \A p \in Quota!Period : Quota!Credit(period[p], Quota!Remaining(o)) \in Quota!Counters
    BY <2>1 DEF TypeOK, Quota!TypeOK, Quota!Credit, Quota!Counters
  <2>4. \A p \in Quota!Period : resv[last[p]] = o
    OBVIOUS
  <2>5. \A p \in Quota!Period : period[p] \in Quota!Counters
    BY DEF TypeOK, Quota!TypeOK
  <2> QED
    BY <2>2, <2>3, <2>4, <2>5
<1>4. \A k \in Scan : resv'[k] = IF k = s THEN [o EXCEPT !.status = "EXPIRED"] ELSE resv[k]
  BY <1>1
<1>5. resv' \in [Scan -> Quota!Reservation \cup {NoRow}]
  BY <1>1, <1>2 DEF TypeOK, Quota!TypeOK
<1>6. Quota!TypeOK'
  BY <1>1, <1>3, <1>5 DEF TypeOK, Quota!TypeOK
<1> QED
  BY <1>1, <1>2, <1>4, <1>6 DEF Dwindles, Usable, Quota!Active, Quota!Reserved

-----------------------------------------------------------------------------
(* What is over stays over *)

StaysFinal ==
    /\ \A s \in Scan :
         HasStatus(s, Terminal) =>
             /\ Exists(s)'
             /\ scan'[s].status = scan[s].status
             /\ scan'[s].ok = scan[s].ok
             /\ scan'[s].failed = scan[s].failed
    /\ \A r \in Run : run[r] \in Over => run'[r] = run[r]

(* A row of scans is never the absence of one. *)
LEMMA RowExists == \A row \in ScanRow : row # NoRow
BY RowAssumption

(* FailUnresolved touches no run that is over. *)
LEMMA FailUnresolvedRuns ==
    ASSUME TypeOK, NEW s \in Scan, FailUnresolved(s)
    PROVE  /\ run' \in [Run -> RunStatus]
           /\ \A r \in Run :
                run'[r] = IF ScanOf[r] = s /\ run[r] \in {"PENDING", "RUNNING"}
                          THEN "FAILED" ELSE run[r]
BY DEF TypeOK, FailUnresolved, Unresolved, Runs, RunStatus

(* Rewriting a row of scans. *)
LEMMA SetScanRows ==
    ASSUME TypeOK, NEW s \in Scan, NEW row \in ScanRow, SetScan(s, row)
    PROVE  /\ scan' \in [Scan -> ScanRow \cup {NoRow}]
           /\ \A k \in Scan : scan'[k] = IF k = s THEN row ELSE scan[k]
           /\ Exists(s)'
BY RowExists DEF TypeOK, SetScan, Exists

(* Finalizing writes the row of a scan that was not terminal, all of whose *)
(* runs are over, or no row.                                               *)
LEMMA ClassifyRow ==
    ASSUME TypeOK, NEW s \in Scan, Exists(s)
    PROVE  /\ Classify(s) \in ScanRow
           /\ Classify(s).ok = Cardinality(RunsIn(s, "SUCCEEDED"))
           /\ Classify(s).failed = Cardinality(RunsIn(s, "FAILED"))
           /\ Classify(s).attached = scan[s].attached
           /\ Classify(s).status =
                IF Cardinality(RunsIn(s, "SUCCEEDED")) = Planned(s) THEN "COMPLETED"
                ELSE IF Cardinality(RunsIn(s, "SUCCEEDED")) > 0 THEN "PARTIAL" ELSE "FAILED"
<1>1. \A x : IsFiniteSet(RunsIn(s, x))
  BY LifecycleAssumption, FS_Subset DEF RunsIn, Runs
<1>2. \A x : Cardinality(RunsIn(s, x)) \in Nat
  BY <1>1, FS_CardinalityType
<1>3. scan[s] \in ScanRow
  BY DEF TypeOK, Exists
<1> QED
  BY <1>2, <1>3 DEF Classify, ScanRow, Terminal

LEMMA FinalizeStaysFinal ==
    ASSUME IInv, NEW s \in Scan, Exists(s), FinalizeScan(s) \/ FinalizeRefused(s)
    PROVE  StaysFinal
<1> USE DEF IInv
<1>1. run' = run
  BY DEF FinalizeScan, FinalizeRefused, rows
<1>2. \/ scan' = scan
      \/ scan[s].status \notin Terminal /\ SetScan(s, Classify(s))
  BY DEF FinalizeScan, FinalizeRefused, rows
<1>3. CASE scan' = scan
  BY <1>1, <1>3 DEF StaysFinal, Exists, HasStatus
<1>4. CASE scan[s].status \notin Terminal /\ SetScan(s, Classify(s))
  BY <1>1, <1>4, SetScanRows, ClassifyRow DEF StaysFinal, Exists, HasStatus
<1> QED
  BY <1>2, <1>3, <1>4

(* No step changes the status or the counts of a terminal scan, or the     *)
(* status of a run that is over.                                           *)
LEMMA FinalStep == IInv /\ [Next]_vars => StaysFinal
<1> SUFFICES ASSUME IInv, [Next]_vars PROVE StaysFinal
  OBVIOUS
<1> USE DEF IInv
<1> DEFINE Same == scan' = scan /\ run' = run
<1>1. Same => StaysFinal
  BY DEF StaysFinal, Exists, HasStatus
<1> HIDE DEF Same
<1>2. ASSUME NEW q \in Request, CreateScan(q) PROVE StaysFinal
  <2>1. Target[q] \in Scan /\ NewScan \in ScanRow
    BY LifecycleAssumption DEF NewScan, ScanRow, Failure, Terminal
  <2>2. \A k \in Scan : scan'[k] = IF k = Target[q] THEN NewScan ELSE scan[k]
    BY <1>2, <2>1, SetScanRows DEF CreateScan
  <2>3. \A r \in Run : run'[r] = IF ScanOf[r] = Target[q] THEN "PENDING" ELSE run[r]
    BY <1>2 DEF CreateScan, Runs
  <2>4. ~Exists(Target[q])
    BY <1>2 DEF CreateScan
  <2> QED
    BY <2>1, <2>2, <2>3, <2>4 DEF StaysFinal, RunsAgree, Exists, HasStatus, Over
<1>3. ASSUME NEW q \in Request, MarkQuotaFailed(q) PROVE StaysFinal
  <2>1. Target[q] \in Scan /\ request[q].pc = "refuse"
    BY <1>3, LifecycleAssumption DEF MarkQuotaFailed, RequestGoes
  <2>2. scan[Target[q]] \in ScanRow /\ scan[Target[q]].status = "PENDING"
    BY <2>1 DEF CreationAgrees, Creating, TypeOK, Exists
  <2>3. \A r \in Run : run[r] \in Over => run'[r] = run[r]
    BY <1>3, <2>1, FailUnresolvedRuns DEF MarkQuotaFailed, Over
  <2>4. \A k \in Scan \ {Target[q]} : scan'[k] = scan[k]
    BY <1>3 DEF MarkQuotaFailed, SetScan, TypeOK
  <2> QED
    BY <2>1, <2>2, <2>3, <2>4 DEF StaysFinal, Exists, HasStatus, Terminal
<1>4. ASSUME NEW q \in Request,
             AttachReservation(q) \/ RecordDispatch(q) \/ RecordDispatchFailure(q)
      PROVE StaysFinal
  <2>1. Target[q] \in Scan /\ run' = run /\ request[q].pc # "create"
    BY <1>4, LifecycleAssumption
       DEF AttachReservation, RecordDispatch, RecordDispatchFailure, RequestGoes
  <2>2. scan[Target[q]] \in ScanRow /\ scan[Target[q]] # NoRow
    BY <2>1 DEF CreationAgrees, TypeOK, Exists
  <2>3. PICK row \in ScanRow :
          /\ SetScan(Target[q], row)
          /\ row.status = scan[Target[q]].status
          /\ row.ok = scan[Target[q]].ok
          /\ row.failed = scan[Target[q]].failed
    <3>1. CASE AttachReservation(q)
      <4>1. [scan[Target[q]] EXCEPT !.attached = TRUE] \in ScanRow
        BY <2>2 DEF ScanRow
      <4> QED
        BY <2>2, <3>1, <4>1 DEF AttachReservation, ScanRow
    <3>2. CASE RecordDispatch(q)
      <4> DEFINE f == IF request[q].seen # "none" THEN "none" ELSE scan[Target[q]].failure
      <4>1. [scan[Target[q]] EXCEPT !.dispatched = TRUE, !.failure = f] \in ScanRow
        BY <2>2 DEF ScanRow, Failure
      <4> QED
        BY <2>2, <3>2, <4>1 DEF RecordDispatch, ScanRow
    <3>3. CASE RecordDispatchFailure(q)
      BY <2>2, <3>3 DEF RecordDispatchFailure, ScanRow, Failure
    <3> QED
      BY <1>4, <3>1, <3>2, <3>3
  <2> QED
    BY <2>1, <2>2, <2>3, SetScanRows DEF StaysFinal, Exists, HasStatus
<1>5. ASSUME NEW w \in Worker, NEW s \in Scan, Deliver(w, s) PROVE StaysFinal
  <2>1. CASE ClaimRefused(w, s)
    BY <2>1, <1>1 DEF ClaimRefused, rows, Same
  <2>2. CASE ClaimRejected(w, s)
    BY <2>2, FailUnresolvedRuns
       DEF ClaimRejected, StaysFinal, SetScan, TypeOK, Exists, HasStatus, Terminal, Over
  <2>3. CASE ClaimScan(w, s)
    BY <2>3 DEF ClaimScan, StaysFinal, SetScan, TypeOK, Exists, HasStatus, Terminal
  <2> QED
    BY <1>5, <2>1, <2>2, <2>3 DEF Deliver
<1>6. ASSUME NEW r \in Run, RunStep(r) \/ DatabaseFails(r) PROVE StaysFinal
  <2>1. CASE SkipRun(r) \/ ProviderAnswers(r) \/ RecordRaises(r) \/ DatabaseFails(r)
    BY <2>1, <1>1 DEF SkipRun, ProviderAnswers, RecordRaises, DatabaseFails, rows, Same
  <2>2. CASE StartRun(r)
    BY <2>2 DEF StartRun, StaysFinal, TypeOK, Exists, HasStatus, Over
  <2>3. CASE RecordEvidence(r)
    BY <2>3 DEF RecordEvidence, StaysFinal, TypeOK, Exists, HasStatus, Over
  <2>4. CASE RecordFailure(r)
    BY <2>4 DEF RecordFailure, StaysFinal, TypeOK, Exists, HasStatus, Over
  <2> QED
    BY <1>6, <2>1, <2>2, <2>3, <2>4 DEF RunStep
<1>7. ASSUME NEW w \in Worker, WorkerStep(w) PROVE StaysFinal
  <2>1. CASE WorkerFinalizes(w)
    <3>1. worker[w].scan \in Scan /\ Exists(worker[w].scan)
      BY <2>1 DEF WorkerFinalizes, WorkersPlaced, WorkerPlaced, TypeOK, WorkerState
    <3> QED
      BY <2>1, <3>1, FinalizeStaysFinal DEF WorkerFinalizes
  <2>2. CASE NextRound(w) \/ Fill(w) \/ Collect(w)
    BY <2>2, <1>1 DEF NextRound, Fill, Collect, WorkerOnly, rows, Same
  <2> QED
    BY <1>7, <2>1, <2>2 DEF WorkerStep
<1>8. ASSUME Recovery PROVE StaysFinal
  <2>1. CASE RecoveryMarks
    <3>1. recovery.scan \in Scan /\ scan' = scan
      BY <2>1 DEF RecoveryMarks, RecoveryAgrees
    <3> QED
      BY <2>1, <3>1, FailUnresolvedRuns
         DEF RecoveryMarks, StaysFinal, Exists, HasStatus, Over
  <2>2. CASE RecoveryFinalizes
    <3>1. recovery.scan \in Scan /\ Exists(recovery.scan)
      BY <2>2 DEF RecoveryFinalizes, RecoveryAgrees
    <3> QED
      BY <2>2, <3>1, FinalizeStaysFinal DEF RecoveryFinalizes
  <2>3. CASE \E s \in Scan : RecoveryChecks(s)
    BY <2>3, <1>1 DEF RecoveryChecks, rows, Same
  <2> QED
    BY <1>8, <2>1, <2>2, <2>3 DEF Recovery
<1>9. ASSUME NEW q \in Request,
             ReuseScan(q) \/ ReserveQuota(q) \/ QuotaExceeded(q) \/ Dispatch(q)
               \/ DispatchRaises(q) \/ RequestDies(q)
      PROVE Same
  BY <1>9 DEF ReuseScan, ReserveQuota, QuotaExceeded, Dispatch, DispatchRaises, Publish,
              RequestDies, rows, Same
<1>10. ASSUME NEW s \in Scan, LoseMessage(s) \/ ExpireReservation(s) PROVE Same
  BY <1>10 DEF LoseMessage, ExpireReservation, rows, Same
<1>11. ASSUME \/ \E w \in Worker : WorkerDies(w)
              \/ RecoveryDies
              \/ UNCHANGED vars
       PROVE Same
  BY <1>11 DEF WorkerDies, RecoveryDies, vars, rows, Same
<1> QED
  BY <1>1, <1>2, <1>3, <1>4, <1>5, <1>6, <1>7, <1>8, <1>9, <1>10, <1>11 DEF Next, RequestStep

-----------------------------------------------------------------------------
(* What a step leaves alone *)

AccurateAt(s) ==
    /\ Unresolved(s) = {}
    /\ scan[s].ok = Cardinality(RunsIn(s, "SUCCEEDED"))
    /\ scan[s].failed = Cardinality(RunsIn(s, "FAILED"))
    /\ scan[s].status = "COMPLETED" <=> scan[s].ok = Planned(s)
    /\ scan[s].status = "FAILED" <=> scan[s].ok = 0

(* The quota tables of a step that leaves them alone. *)
LEMMA QuotaSame ==
    ASSUME TypeOK, UNCHANGED quota
    PROVE  Quota!TypeOK' /\ Dwindles /\ usage' = usage
BY DEF TypeOK, quota, Quota!TypeOK, Dwindles, Usable, Quota!Active, Quota!Reserved

(* A scan that was terminal keeps an accurate row: none of its runs can    *)
(* change any more.                                                        *)
LEMMA AccurateKept ==
    ASSUME IInv, StaysFinal, NEW s \in Scan, HasStatus(s, Terminal)
    PROVE  AccurateAt(s)'
<1> USE DEF IInv
<1>1. AccurateAt(s)
  BY DEF TerminalScanAccurate, AccurateAt
<1>2. \A r \in Runs(s) : run[r] \in Over
  BY <1>1 DEF AccurateAt, Unresolved, Runs, RunsAgree, HasStatus, TypeOK, RunStatus, Over
<1>3. \A r \in Runs(s) : run'[r] = run[r]
  BY <1>2 DEF StaysFinal, Runs
<1>4. /\ Unresolved(s)' = Unresolved(s)
      /\ RunsIn(s, "SUCCEEDED")' = RunsIn(s, "SUCCEEDED")
      /\ RunsIn(s, "FAILED")' = RunsIn(s, "FAILED")
  BY <1>3 DEF Unresolved, RunsIn, Runs
<1>5. /\ scan'[s].status = scan[s].status
      /\ scan'[s].ok = scan[s].ok
      /\ scan'[s].failed = scan[s].failed
  BY DEF StaysFinal
<1> QED
  BY <1>1, <1>4, <1>5 DEF AccurateAt

(* The terminal scans of a step that ends none. *)
LEMMA AccurateFrame ==
    ASSUME IInv, StaysFinal,
           \A s \in Scan : HasStatus(s, Terminal)' => HasStatus(s, Terminal)
    PROVE  TerminalScanAccurate'
BY AccurateKept DEF TerminalScanAccurate, AccurateAt

(* A scan that was attached, or that a worker holds, is not being created. *)
LEMMA AttachedNotCreating ==
    ASSUME IInv, NEW s \in Scan, scan[s].attached
    PROVE  \A q \in Request : Target[q] = s => request[q].pc \notin Creating
BY DEF IInv, CreationAgrees

(* Requests, and the messages they sent, in a step of somebody else. *)
LEMMA RequestFrame ==
    ASSUME IInv,
           request' = request,
           \A s \in Scan : messages'[s] > 0 => messages[s] > 0,
           \A s \in Scan : Exists(s) =>
             Exists(s)' /\ (scan[s].attached => scan'[s].attached),
           \A q \in Request : request[q].pc \in Creating =>
             /\ scan'[Target[q]] = scan[Target[q]]
             /\ \A r \in Runs(Target[q]) : run'[r] = run[r]
    PROVE  CreationAgrees' /\ OneCreator' /\ MessagesAgree'
<1> USE LifecycleAssumption DEF IInv
<1>1. \A q \in Request : request[q].pc \in Creating \cup Publishing => Exists(Target[q])
  BY DEF CreationAgrees, Creating, Publishing
<1>2. CreationAgrees'
  BY <1>1 DEF CreationAgrees, Creating, Publishing, Runs
<1>3. OneCreator' /\ MessagesAgree'
  BY DEF OneCreator, MessagesAgree
<1> QED
  BY <1>2, <1>3

(* Scans, runs, workers and tasks in a step of a request, of the broker or *)
(* of recovery that changes none of them.                                  *)
LEMMA WorkFrame ==
    ASSUME IInv, UNCHANGED <<rows, usage, worker, task, ghost>>,
           \A s \in Scan : Exists(s) /\ scan[s].attached =>
             /\ Usable(s)' => Usable(s)
             /\ s \in Quota!Active' => s \in Quota!Active
    PROVE  /\ WorkersPlaced' /\ WorkersApart' /\ TasksPlaced' /\ TasksAgree'
           /\ RunsAgree' /\ RoundsAgree' /\ RoundsFollow' /\ CountsAgree'
           /\ UsageIsEvidence' /\ TerminalScanAccurate' /\ TerminalScanReleased'
<1> USE DEF IInv, rows, ghost, Exists, HasStatus
<1>1. WorkersPlaced'
  <2>1. \A w \in Worker : worker[w].pc # "idle" => worker[w].scan \in Scan
    BY DEF WorkersPlaced, WorkerPlaced, TypeOK, WorkerState
  <2> QED
    BY <2>1 DEF WorkersPlaced, WorkerPlaced
<1>2. WorkersApart' /\ TasksPlaced' /\ TasksAgree'
  BY DEF WorkersApart, TasksPlaced, TasksAgree
<1>3. RunsAgree' /\ RoundsAgree' /\ RoundsFollow' /\ CountsAgree' /\ UsageIsEvidence'
  BY DEF RunsAgree, RoundsAgree, RoundAgrees, RoundsFollow, CountsAgree, UsageIsEvidence
<1>4. TerminalScanAccurate'
  BY DEF TerminalScanAccurate, Unresolved, RunsIn, Runs
<1>5. TerminalScanReleased'
  BY DEF TerminalScanReleased
<1> QED
  BY <1>1, <1>2, <1>3, <1>4, <1>5

(* Recovery, in a step that lets no request begin to create a scan. *)
LEMMA RecoveryFrame ==
    ASSUME IInv,
           recovery' = recovery,
           \A s \in Scan : Exists(s) => Exists(s)',
           \A q \in Request : request'[q].pc \in Creating /\ Exists(Target[q])
             => request[q].pc \in Creating
    PROVE  RecoveryAgrees'
<1> USE LifecycleAssumption DEF IInv
<1>1. CASE recovery.pc # "idle"
  BY <1>1 DEF RecoveryAgrees
<1>2. CASE recovery.pc = "idle"
  BY <1>2 DEF RecoveryAgrees
<1> QED
  BY <1>1, <1>2

(* Nothing recovery relies on changes. *)
LEMMA AloneFrame ==
    ASSUME IInv, UNCHANGED <<recovery, worker, run, task, evidenced, usage>>
    PROVE  RecoveryAlone'
BY DEF IInv, RecoveryAlone, EvidencedRunNotWrittenOff, RunsIn, Runs

-----------------------------------------------------------------------------
(* The steps of a request *)

(* A request that goes on, or ends, without touching the scan. *)
LEMMA RequestOnlyKeeps ==
    ASSUME IInv, NEW q \in Request, NEW x \in RequestState,
           request' = [request EXCEPT ![q] = x],
           x.pc # "create",
           x.pc \in Creating => request[q].pc \in Creating,
           x.pc \in Publishing => scan[Target[q]].attached,
           Exists(Target[q]),
           messages' \in [Scan -> 0..MaxMessages],
           \A s \in Scan : messages'[s] > 0 =>
             messages[s] > 0 \/ (Exists(s) /\ scan[s].attached),
           crashes' \in 0..MaxCrashes,
           UNCHANGED <<rows, quota, worker, task, recovery, ghost>>
    PROVE  IInv'
<1> USE LifecycleAssumption DEF IInv
<1>1. TypeOK'
  <2>1. Quota!TypeOK'
    BY QuotaSame
  <2> QED
    BY <2>1 DEF TypeOK, rows, ghost
<1>2. \A p \in Request : request'[p] = IF p = q THEN x ELSE request[p]
  BY DEF TypeOK
<1>3. CreationAgrees'
  BY <1>2 DEF CreationAgrees, rows, Exists, Creating, Publishing
<1>4. OneCreator'
  BY <1>2 DEF OneCreator
<1>5. MessagesAgree'
  BY DEF MessagesAgree, rows, Exists
<1>6. RecoveryAgrees'
  BY <1>2, RecoveryFrame DEF rows, Exists
<1>7. RecoveryAlone'
  BY AloneFrame DEF rows, ghost, quota
<1>8. /\ WorkersPlaced' /\ WorkersApart' /\ TasksPlaced' /\ TasksAgree'
      /\ RunsAgree' /\ RoundsAgree' /\ RoundsFollow' /\ CountsAgree'
      /\ UsageIsEvidence' /\ TerminalScanAccurate' /\ TerminalScanReleased'
  BY QuotaSame, WorkFrame DEF Dwindles, quota
<1> QED
  BY <1>1, <1>3, <1>4, <1>5, <1>6, <1>7, <1>8

LEMMA ReuseScanKeeps ==
    ASSUME IInv, NEW q \in Request, ReuseScan(q)
    PROVE  IInv'
<1> DEFINE t == scan[Target[q]]
           x == IF /\ t.failure # "QUOTA_EXCEEDED"
                   /\ t.status = "PENDING" /\ t.attached /\ ~t.dispatched
                THEN [pc |-> "dispatch", seen |-> t.failure]
                ELSE [pc |-> "done", seen |-> "none"]
<1>1. /\ Exists(Target[q])
      /\ request' = [request EXCEPT ![q] = x]
      /\ UNCHANGED <<rows, quota, messages, worker, task, recovery, ghost, crashes>>
  BY DEF ReuseScan
<1>2. t \in ScanRow
  BY <1>1, LifecycleAssumption DEF IInv, TypeOK, Exists
<1>3. x \in RequestState
  BY <1>2 DEF RequestState, ScanRow, Failure
<1>4. x.pc \notin {"create"} \cup Creating /\ (x.pc \in Publishing => t.attached)
  BY DEF Creating, Publishing
<1>5. messages' \in [Scan -> 0..MaxMessages] /\ crashes' \in 0..MaxCrashes
  BY <1>1 DEF IInv, TypeOK
<1> HIDE DEF x
<1> QED
  BY <1>1, <1>3, <1>4, <1>5, RequestOnlyKeeps

LEMMA QuotaExceededKeeps ==
    ASSUME IInv, NEW q \in Request, QuotaExceeded(q)
    PROVE  IInv'
<1> DEFINE x == [request[q] EXCEPT !.pc = "refuse"]
<1>1. /\ request[q].pc = "reserve"
      /\ request' = [request EXCEPT ![q] = x]
      /\ UNCHANGED <<rows, quota, messages, worker, task, recovery, ghost, crashes>>
  BY DEF QuotaExceeded, RequestGoes
<1>2. request[q] \in RequestState
  BY DEF IInv, TypeOK
<1>3. x \in RequestState /\ x.pc = "refuse"
  BY <1>2 DEF RequestState
<1>4. Exists(Target[q])
  BY <1>1 DEF IInv, CreationAgrees
<1>5. messages' \in [Scan -> 0..MaxMessages] /\ crashes' \in 0..MaxCrashes
  BY <1>1 DEF IInv, TypeOK
<1> HIDE DEF x
<1> QED
  BY <1>1, <1>3, <1>4, <1>5, RequestOnlyKeeps DEF Creating, Publishing

LEMMA RequestDiesKeeps ==
    ASSUME IInv, NEW q \in Request, RequestDies(q)
    PROVE  IInv'
<1> DEFINE x == [request[q] EXCEPT !.pc = "done"]
<1>1. /\ request[q].pc \notin {"create", "done"}
      /\ request' = [request EXCEPT ![q] = x]
      /\ UNCHANGED <<rows, quota, messages, worker, task, recovery, ghost>>
  BY DEF RequestDies
<1>2. request[q] \in RequestState
  BY DEF IInv, TypeOK
<1>3. x \in RequestState /\ x.pc = "done"
  BY <1>2 DEF RequestState
<1>4. Exists(Target[q])
  BY <1>1 DEF IInv, CreationAgrees
<1>5. messages' \in [Scan -> 0..MaxMessages] /\ crashes' \in 0..MaxCrashes
  BY <1>1, LifecycleAssumption DEF IInv, TypeOK, RequestDies
<1> HIDE DEF x
<1> QED
  BY <1>1, <1>3, <1>4, <1>5, RequestOnlyKeeps DEF Creating, Publishing

LEMMA PublishKeeps ==
    ASSUME IInv, NEW q \in Request, NEW arrives \in BOOLEAN,
           NEW to \in {"dispatched", "undispatched"}, Publish(q, arrives, to)
    PROVE  IInv'
<1> DEFINE x == [request[q] EXCEPT !.pc = to]
<1>1. /\ request[q].pc = "dispatch"
      /\ request' = [request EXCEPT ![q] = x]
      /\ UNCHANGED <<rows, quota, worker, task, recovery, ghost, crashes>>
  BY DEF Publish, RequestGoes
<1>2. request[q] \in RequestState
  BY DEF IInv, TypeOK
<1>3. x \in RequestState /\ x.pc = to
  BY <1>2 DEF RequestState
<1>4. Exists(Target[q]) /\ scan[Target[q]].attached
  BY <1>1 DEF IInv, CreationAgrees, Publishing
<1>5. messages' \in [Scan -> 0..MaxMessages] /\ crashes' \in 0..MaxCrashes
  BY <1>1, LifecycleAssumption DEF IInv, TypeOK, Publish
<1>6. \A s \in Scan : messages'[s] > 0 =>
        messages[s] > 0 \/ (Exists(s) /\ scan[s].attached)
  BY <1>4, LifecycleAssumption DEF IInv, TypeOK, Publish
<1> HIDE DEF x
<1> QED
  BY <1>1, <1>3, <1>4, <1>5, <1>6, RequestOnlyKeeps DEF Creating, Publishing

LEMMA CreateScanKeeps ==
    ASSUME IInv, StaysFinal, NEW q \in Request, CreateScan(q)
    PROVE  IInv'
<1> USE LifecycleAssumption DEF IInv
<1> DEFINE s == Target[q]
<1>1. /\ s \in Scan /\ ~Exists(s)
      /\ request[q].pc = "create"
      /\ request' = [request EXCEPT ![q].pc = "reserve"]
      /\ UNCHANGED <<quota, messages, worker, task, recovery, ghost, crashes>>
  BY DEF CreateScan, RequestGoes
<1>2. NewScan \in ScanRow /\ NewScan.status = "PENDING" /\ ~NewScan.attached /\ NewScan.ok = 0
  BY DEF NewScan, ScanRow, Failure, Terminal
<1>3. /\ scan' \in [Scan -> ScanRow \cup {NoRow}]
      /\ \A k \in Scan : scan'[k] = IF k = s THEN NewScan ELSE scan[k]
      /\ Exists(s)'
  BY <1>1, <1>2, SetScanRows DEF CreateScan
<1>4. /\ run' \in [Run -> RunStatus]
      /\ \A r \in Run : run'[r] = IF ScanOf[r] = s THEN "PENDING" ELSE run[r]
  BY DEF CreateScan, Runs, TypeOK, RunStatus
<1>5. \A p \in Request : request'[p] = IF p = q THEN [request[q] EXCEPT !.pc = "reserve"]
                                               ELSE request[p]
  BY <1>1 DEF TypeOK
<1>6. request' \in [Request -> RequestState] /\ request'[q].pc = "reserve"
  BY <1>1, <1>5 DEF TypeOK, RequestState
<1>7. TypeOK'
  BY <1>1, <1>3, <1>4, <1>6, QuotaSame DEF TypeOK, ghost
<1>8. \A p \in Request : Target[p] = s => request[p].pc = "create"
  BY <1>1 DEF CreationAgrees
<1>9. \A r \in Run : ScanOf[r] = s => run[r] = "PLANNED" /\ task[r] = "none" /\ calls[r] = 0
  BY <1>1 DEF RunsAgree, TasksPlaced, WorkersPlaced, WorkerPlaced
<1>10. \A w \in Worker : worker[w].scan # s
  BY <1>1, RowAssumption DEF WorkersPlaced, WorkerPlaced
<1> HIDE DEF s
<1>11. CreationAgrees'
  <2> SUFFICES ASSUME NEW p \in Request
               PROVE /\ request'[p].pc # "create" => Exists(Target[p])'
                     /\ request'[p].pc \in Creating =>
                          /\ scan'[Target[p]].status = "PENDING"
                          /\ ~scan'[Target[p]].attached
                          /\ \A r \in Runs(Target[p]) : run'[r] = "PENDING"
                     /\ request'[p].pc \in Publishing => scan'[Target[p]].attached
    BY DEF CreationAgrees
  <2>1. CASE Target[p] = s
    BY <1>2, <1>3, <1>4, <1>5, <1>6, <1>8, <2>1 DEF Creating, Publishing, Runs
  <2>2. CASE Target[p] # s
    <3>1. request'[p] = request[p] /\ scan'[Target[p]] = scan[Target[p]]
      BY <1>3, <1>5, <2>2 DEF s
    <3>2. \A r \in Runs(Target[p]) : run'[r] = run[r]
      BY <1>4, <2>2 DEF Runs
    <3> QED
      BY <3>1, <3>2 DEF CreationAgrees, Exists
  <2> QED
    BY <2>1, <2>2
<1>12. OneCreator'
  BY <1>5, <1>8 DEF OneCreator, Creating, s
<1>13. MessagesAgree' /\ CountsAgree'
  BY <1>1, <1>2, <1>3 DEF MessagesAgree, CountsAgree, Exists, HasStatus
<1>14. WorkersPlaced' /\ WorkersApart' /\ TasksPlaced'
  <2>1. \A w \in Worker : worker[w].pc # "idle" => scan'[worker[w].scan] = scan[worker[w].scan]
    BY <1>3, <1>10 DEF WorkersPlaced, WorkerPlaced, TypeOK, WorkerState
  <2>2. WorkersPlaced'
    BY <1>1, <2>1 DEF WorkersPlaced, WorkerPlaced, Exists, Usable, quota, Executing
  <2> QED
    BY <1>1, <2>2 DEF WorkersApart, TasksPlaced
<1>15. TasksAgree'
  BY <1>1, <1>4, <1>9 DEF TasksAgree, ghost, Answered, Evidenced
<1>16. RunsAgree'
  BY <1>1, <1>2, <1>3, <1>4, <1>9 DEF RunsAgree, Exists, HasStatus, ghost
<1>17. RoundsAgree'
  BY <1>1, <1>4, <1>9, <1>10 DEF RoundsAgree, RoundAgrees, ghost
<1>18. RoundsFollow'
  BY <1>1, <1>4, <1>9 DEF RoundsFollow, ghost
<1>19. RecoveryAgrees'
  BY <1>1, <1>3, <1>5, RecoveryFrame DEF Exists, s
<1>20. UsageIsEvidence'
  BY <1>1, <1>4, <1>9 DEF UsageIsEvidence, ghost, quota
<1>21. RecoveryAlone'
  <2>1. recovery.pc = "mark" => recovery.scan # s
    BY <1>1 DEF RecoveryAgrees
  <2>2. \A r \in Run : ScanOf[r] = s => r \notin evidenced
    BY <1>9 DEF RunsAgree, TypeOK
  <2>3. recovery.pc = "mark" => RunsIn(recovery.scan, "RUNNING")' = RunsIn(recovery.scan, "RUNNING")
    BY <1>1, <1>4, <2>1 DEF RunsIn, Runs
  <2>4. EvidencedRunNotWrittenOff => EvidencedRunNotWrittenOff'
    BY <1>1, <1>4, <2>2 DEF EvidencedRunNotWrittenOff, ghost, quota, TypeOK
  <2>5. \A r \in Run : task'[r] # "none" => task'[r] = task[r] /\ run'[r] = run[r]
    BY <1>1, <1>4, <1>9
  <2> QED
    BY <1>1, <2>3, <2>4, <2>5 DEF RecoveryAlone, Answered, Evidenced
<1>22. TerminalScanAccurate'
  BY <1>2, <1>3, AccurateFrame DEF HasStatus, Exists, Terminal
<1>23. TerminalScanReleased'
  BY <1>1, <1>2, <1>3
     DEF TerminalScanReleased, HasStatus, Exists, quota, Quota!Active, Quota!Reserved
<1> QED
  BY <1>7, <1>11, <1>12, <1>13, <1>14, <1>15, <1>16, <1>17, <1>18, <1>19, <1>20, <1>21,
     <1>22, <1>23

LEMMA ReserveQuotaKeeps ==
    ASSUME IInv, NEW q \in Request, ReserveQuota(q)
    PROVE  IInv'
<1> USE LifecycleAssumption DEF IInv
<1> DEFINE s == Target[q]
<1>1. /\ s \in Scan
      /\ request[q].pc = "reserve"
      /\ request' = [request EXCEPT ![q].pc = "attach"]
      /\ UNCHANGED <<rows, messages, worker, task, recovery, ghost, crashes>>
  BY DEF ReserveQuota, RequestGoes
<1>2. PICK p \in Quota!Period : Quota!Reserve(s, p, Planned(s))
  BY DEF ReserveQuota
<1>3. /\ Quota!TypeOK' /\ usage' = usage
      /\ \A k \in Scan \ {s} : resv'[k] = resv[k]
  BY <1>1, <1>2, ReserveRows
<1>4. Exists(s) /\ ~scan[s].attached
  BY <1>1 DEF CreationAgrees, Creating
<1>5. \A k \in Scan : Exists(k) /\ scan[k].attached =>
        /\ Usable(k)' => Usable(k)
        /\ k \in Quota!Active' => k \in Quota!Active
  BY <1>3, <1>4 DEF Usable, Quota!Active, Quota!Reserved
<1>6. \A x \in Request : request'[x] = IF x = q THEN [request[q] EXCEPT !.pc = "attach"]
                                               ELSE request[x]
  BY <1>1 DEF TypeOK
<1>7. request' \in [Request -> RequestState] /\ request'[q].pc = "attach"
  BY <1>1, <1>6 DEF TypeOK, RequestState
<1> HIDE DEF s
<1>8. TypeOK'
  BY <1>1, <1>3, <1>7 DEF TypeOK, rows, ghost
<1>9. CreationAgrees'
  BY <1>1, <1>6, <1>7 DEF CreationAgrees, rows, Exists, Creating, Publishing
<1>10. OneCreator'
  BY <1>1, <1>6 DEF OneCreator, Creating
<1>11. MessagesAgree'
  BY <1>1 DEF MessagesAgree, rows, Exists
<1>12. RecoveryAgrees'
  BY <1>1, <1>6, RecoveryFrame DEF rows, Exists, Creating
<1>13. RecoveryAlone'
  BY <1>1, <1>3, AloneFrame DEF rows, ghost
<1>14. /\ WorkersPlaced' /\ WorkersApart' /\ TasksPlaced' /\ TasksAgree'
       /\ RunsAgree' /\ RoundsAgree' /\ RoundsFollow' /\ CountsAgree'
       /\ UsageIsEvidence' /\ TerminalScanAccurate' /\ TerminalScanReleased'
  BY <1>1, <1>3, <1>5, WorkFrame
<1> QED
  BY <1>8, <1>9, <1>10, <1>11, <1>12, <1>13, <1>14

LEMMA MarkQuotaFailedKeeps ==
    ASSUME IInv, StaysFinal, NEW q \in Request, MarkQuotaFailed(q)
    PROVE  IInv'
<1> USE LifecycleAssumption DEF IInv
<1> DEFINE s == Target[q]
           row == [scan[s] EXCEPT !.status = "FAILED", !.failed = Planned(s),
                                  !.failure = "QUOTA_EXCEEDED"]
<1>1. /\ s \in Scan
      /\ request[q].pc = "refuse"
      /\ request' = [request EXCEPT ![q].pc = "done"]
      /\ SetScan(s, row) /\ FailUnresolved(s)
      /\ UNCHANGED <<quota, messages, worker, task, recovery, ghost, crashes>>
  BY DEF MarkQuotaFailed, RequestGoes
<1>2. /\ Exists(s)
      /\ scan[s].status = "PENDING" /\ ~scan[s].attached
      /\ \A r \in Runs(s) : run[r] = "PENDING"
  BY <1>1 DEF CreationAgrees, Creating
<1>3. scan[s] \in ScanRow /\ Planned(s) \in Nat \ {0}
  BY <1>1, <1>2 DEF TypeOK, Exists
<1>4. scan[s].ok = 0
  BY <1>1, <1>2 DEF CountsAgree, HasStatus
<1>5. /\ row \in ScanRow
      /\ row.status = "FAILED" /\ ~row.attached /\ row.ok = 0 /\ row.failed = Planned(s)
  BY <1>2, <1>3, <1>4 DEF ScanRow, Terminal, Failure
<1>6. /\ scan' \in [Scan -> ScanRow \cup {NoRow}]
      /\ \A k \in Scan : scan'[k] = IF k = s THEN row ELSE scan[k]
      /\ Exists(s)'
  BY <1>1, <1>5, SetScanRows
<1>7. /\ run' \in [Run -> RunStatus]
      /\ \A r \in Run : run'[r] = IF ScanOf[r] = s THEN "FAILED" ELSE run[r]
  BY <1>1, <1>2, FailUnresolvedRuns DEF Runs
<1>8. \A p \in Request : request'[p] = IF p = q THEN [request[q] EXCEPT !.pc = "done"]
                                               ELSE request[p]
  BY <1>1 DEF TypeOK
<1>9. request' \in [Request -> RequestState] /\ request'[q].pc = "done"
  BY <1>1, <1>8 DEF TypeOK, RequestState
<1>10. TypeOK'
  BY <1>1, <1>6, <1>7, <1>9, QuotaSame DEF TypeOK, ghost
<1>11. \A w \in Worker : worker[w].scan # s
  BY <1>1, <1>2, RowAssumption DEF WorkersPlaced, WorkerPlaced
<1>12. \A r \in Run : ScanOf[r] = s =>
         run[r] = "PENDING" /\ task[r] = "none" /\ calls[r] = 0 /\ r \notin evidenced
  BY <1>2, <1>11 DEF RunsAgree, TasksPlaced, Runs, TypeOK
<1>13. \A p \in Request : Target[p] = s /\ p # q => request[p].pc \notin Creating
  BY <1>1 DEF OneCreator, Creating
<1> HIDE DEF s, row
<1>14. CreationAgrees'
  <2> SUFFICES ASSUME NEW p \in Request
               PROVE /\ request'[p].pc # "create" => Exists(Target[p])'
                     /\ request'[p].pc \in Creating =>
                          /\ scan'[Target[p]].status = "PENDING"
                          /\ ~scan'[Target[p]].attached
                          /\ \A r \in Runs(Target[p]) : run'[r] = "PENDING"
                     /\ request'[p].pc \in Publishing => scan'[Target[p]].attached
    BY DEF CreationAgrees
  <2>1. CASE Target[p] = s
    <3>1. request'[p].pc \notin Creating
      BY <1>8, <1>9, <1>13, <2>1 DEF Creating
    <3>2. request'[p].pc \notin Publishing
      BY <1>2, <1>8, <1>9, <2>1 DEF CreationAgrees, Publishing
    <3> QED
      BY <1>6, <2>1, <3>1, <3>2
  <2>2. CASE Target[p] # s
    <3>1. request'[p] = request[p] /\ scan'[Target[p]] = scan[Target[p]]
      BY <1>6, <1>8, <2>2 DEF s
    <3>2. \A r \in Runs(Target[p]) : run'[r] = run[r]
      BY <1>7, <2>2 DEF Runs
    <3> QED
      BY <3>1, <3>2 DEF CreationAgrees, Exists
  <2> QED
    BY <2>1, <2>2
<1>15. OneCreator'
  BY <1>8, <1>9 DEF OneCreator, Creating
<1>16. MessagesAgree' /\ CountsAgree'
  BY <1>1, <1>2, <1>5, <1>6 DEF MessagesAgree, CountsAgree, Exists, HasStatus
<1>17. WorkersPlaced' /\ WorkersApart' /\ TasksPlaced'
  <2>1. \A w \in Worker : worker[w].pc # "idle" => scan'[worker[w].scan] = scan[worker[w].scan]
    BY <1>6, <1>11 DEF WorkersPlaced, WorkerPlaced, TypeOK, WorkerState
  <2>2. WorkersPlaced'
    BY <1>1, <2>1 DEF WorkersPlaced, WorkerPlaced, Exists, Usable, quota, Executing
  <2> QED
    BY <1>1, <2>2 DEF WorkersApart, TasksPlaced
<1>18. TasksAgree'
  BY <1>1, <1>7, <1>12 DEF TasksAgree, ghost, Answered, Evidenced
<1>19. RunsAgree'
  BY <1>1, <1>2, <1>5, <1>6, <1>7, <1>12 DEF RunsAgree, Exists, HasStatus, ghost
<1>20. RoundsAgree'
  BY <1>1, <1>7, <1>11 DEF RoundsAgree, RoundAgrees, ghost
<1>21. RoundsFollow'
  BY <1>1, <1>7, <1>12 DEF RoundsFollow, ghost
<1>22. RecoveryAgrees'
  BY <1>1, <1>6, <1>8, <1>9, RecoveryFrame DEF Exists, s, Creating
<1>23. UsageIsEvidence'
  BY <1>1, <1>7, <1>12 DEF UsageIsEvidence, ghost, quota
<1>24. RecoveryAlone'
  <2>1. RunsIn(recovery.scan, "RUNNING") = {} => RunsIn(recovery.scan, "RUNNING")' = {}
    BY <1>1, <1>7 DEF RunsIn, Runs
  <2>2. EvidencedRunNotWrittenOff => EvidencedRunNotWrittenOff'
    BY <1>1, <1>7, <1>12 DEF EvidencedRunNotWrittenOff, ghost, quota, TypeOK
  <2>3. \A r \in Run : task'[r] # "none" => task'[r] = task[r] /\ run'[r] = run[r]
    BY <1>1, <1>7, <1>12
  <2> QED
    BY <1>1, <2>1, <2>2, <2>3 DEF RecoveryAlone, Answered, Evidenced
<1>25. AccurateAt(s)'
  <2>1. Unresolved(s)' = {} /\ RunsIn(s, "SUCCEEDED")' = {} /\ RunsIn(s, "FAILED")' = Runs(s)
    BY <1>7 DEF Unresolved, RunsIn, Runs
  <2>2. Cardinality({}) = 0
    BY FS_EmptySet
  <2>3. scan'[s] = row
    BY <1>6, <1>1
  <2>4. Planned(s)' = Planned(s)
    BY DEF Planned, Runs
  <2> QED
    BY <1>3, <1>5, <2>1, <2>2, <2>3, <2>4 DEF AccurateAt, Planned
<1>26. TerminalScanAccurate'
  <2>1. \A k \in Scan : HasStatus(k, Terminal)' => HasStatus(k, Terminal) \/ k = s
    BY <1>6 DEF HasStatus, Exists
  <2> QED
    BY <1>25, <2>1, AccurateKept DEF TerminalScanAccurate, AccurateAt
<1>27. TerminalScanReleased'
  BY <1>1, <1>5, <1>6
     DEF TerminalScanReleased, HasStatus, Exists, quota, Quota!Active, Quota!Reserved
<1> QED
  BY <1>10, <1>14, <1>15, <1>16, <1>17, <1>18, <1>19, <1>20, <1>21, <1>22, <1>23, <1>24,
     <1>26, <1>27

(* A request that only annotates its scan: attached, or on its way. *)
LEMMA AnnotateKeeps ==
    ASSUME IInv, StaysFinal, NEW q \in Request, NEW to \in {"dispatch", "done"},
           NEW row \in ScanRow,
           request[q].pc \in {"attach"} \cup Publishing,
           request' = [request EXCEPT ![q].pc = to],
           SetScan(Target[q], row),
           row.attached,
           row.status = scan[Target[q]].status,
           row.ok = scan[Target[q]].ok,
           UNCHANGED <<run, quota, messages, worker, task, recovery, ghost, crashes>>
    PROVE  IInv'
<1> USE LifecycleAssumption DEF IInv
<1> DEFINE s == Target[q]
<1>1. s \in Scan /\ Exists(s)
  BY DEF CreationAgrees, Publishing
<1>2. scan[s].attached \/ scan[s].status = "PENDING"
  BY DEF CreationAgrees, Creating, Publishing
<1>3. /\ scan' \in [Scan -> ScanRow \cup {NoRow}]
      /\ \A k \in Scan : scan'[k] = IF k = s THEN row ELSE scan[k]
      /\ Exists(s)'
  BY <1>1, SetScanRows
<1>4. \A p \in Request : request'[p] = IF p = q THEN [request[q] EXCEPT !.pc = to]
                                               ELSE request[p]
  BY DEF TypeOK
<1>5. request' \in [Request -> RequestState] /\ request'[q].pc = to
  BY <1>4 DEF TypeOK, RequestState
<1>6. TypeOK'
  BY <1>3, <1>5, QuotaSame DEF TypeOK, ghost
<1>7. \A p \in Request : Target[p] = s /\ p # q => request[p].pc \notin Creating
  BY <1>2 DEF OneCreator, CreationAgrees, Creating, Publishing
<1>8. \A k \in Scan : Exists(k) =>
        /\ Exists(k)'
        /\ scan'[k].status = scan[k].status
        /\ scan'[k].ok = scan[k].ok
        /\ scan[k].attached => scan'[k].attached
  BY <1>3 DEF Exists
<1>9. \A k \in Scan : Exists(k)' <=> Exists(k)
  BY <1>1, <1>3 DEF Exists
<1> HIDE DEF s
<1>10. CreationAgrees'
  <2> SUFFICES ASSUME NEW p \in Request
               PROVE /\ request'[p].pc # "create" => Exists(Target[p])'
                     /\ request'[p].pc \in Creating =>
                          /\ scan'[Target[p]].status = "PENDING"
                          /\ ~scan'[Target[p]].attached
                          /\ \A r \in Runs(Target[p]) : run'[r] = "PENDING"
                     /\ request'[p].pc \in Publishing => scan'[Target[p]].attached
    BY DEF CreationAgrees
  <2>1. CASE Target[p] = s
    BY <1>3, <1>4, <1>5, <1>7, <2>1 DEF Creating, s
  <2>2. CASE Target[p] # s
    BY <1>3, <1>4, <2>2 DEF CreationAgrees, Exists, s
  <2> QED
    BY <2>1, <2>2
<1>11. OneCreator'
  BY <1>4, <1>5 DEF OneCreator, Creating
<1>12. MessagesAgree' /\ CountsAgree'
  BY <1>8, <1>9 DEF MessagesAgree, CountsAgree, HasStatus
<1>13. WorkersPlaced'
  <2>1. \A w \in Worker : worker[w].pc # "idle" => worker[w].scan \in Scan
    BY DEF WorkersPlaced, WorkerPlaced, TypeOK, WorkerState
  <2> QED
    BY <1>8, <2>1 DEF WorkersPlaced, WorkerPlaced, Usable, quota, Executing
<1>14. WorkersApart' /\ TasksPlaced' /\ TasksAgree' /\ RoundsAgree' /\ RoundsFollow'
  BY DEF WorkersApart, TasksPlaced, TasksAgree, RoundsAgree, RoundAgrees, RoundsFollow, ghost
<1>15. RunsAgree'
  BY <1>8, <1>9 DEF RunsAgree, HasStatus, ghost
<1>16. RecoveryAgrees'
  BY <1>4, <1>5, <1>8, RecoveryFrame DEF Creating
<1>17. RecoveryAlone'
  BY AloneFrame DEF ghost, quota
<1>18. UsageIsEvidence'
  BY DEF UsageIsEvidence, ghost, quota
<1>19. TerminalScanAccurate'
  BY <1>8, <1>9, AccurateFrame DEF HasStatus
<1>20. TerminalScanReleased'
  <2>1. \A k \in Scan : HasStatus(k, Terminal)' /\ scan'[k].attached =>
          HasStatus(k, Terminal) /\ scan[k].attached
    BY <1>2, <1>3, <1>8, <1>9 DEF HasStatus, Terminal
  <2> QED
    BY <2>1 DEF TerminalScanReleased, quota, Quota!Active, Quota!Reserved
<1> QED
  BY <1>6, <1>10, <1>11, <1>12, <1>13, <1>14, <1>15, <1>16, <1>17, <1>18, <1>19, <1>20

LEMMA AttachReservationKeeps ==
    ASSUME IInv, StaysFinal, NEW q \in Request, AttachReservation(q)
    PROVE  IInv'
<1> DEFINE row == [scan[Target[q]] EXCEPT !.attached = TRUE]
<1>1. /\ request[q].pc = "attach"
      /\ request' = [request EXCEPT ![q].pc = "dispatch"]
      /\ SetScan(Target[q], row)
      /\ UNCHANGED <<run, quota, messages, worker, task, recovery, ghost, crashes>>
  BY DEF AttachReservation, RequestGoes
<1>2. scan[Target[q]] \in ScanRow
  BY <1>1, LifecycleAssumption DEF IInv, CreationAgrees, TypeOK, Exists
<1>3. /\ row \in ScanRow /\ row.attached
      /\ row.status = scan[Target[q]].status /\ row.ok = scan[Target[q]].ok
  BY <1>2 DEF ScanRow
<1> HIDE DEF row
<1> QED
  BY <1>1, <1>3, AnnotateKeeps

LEMMA RecordDispatchKeeps ==
    ASSUME IInv, StaysFinal, NEW q \in Request, RecordDispatch(q) \/ RecordDispatchFailure(q)
    PROVE  IInv'
<1> DEFINE t == scan[Target[q]]
           sent == [t EXCEPT !.dispatched = TRUE,
                             !.failure = IF request[q].seen # "none" THEN "none" ELSE t.failure]
           unsent == [t EXCEPT !.failure = IF request[q].seen # "DISPATCH_FAILED"
                                           THEN "DISPATCH_FAILED" ELSE t.failure]
<1>1. /\ request[q].pc \in Publishing
      /\ request' = [request EXCEPT ![q].pc = "done"]
      /\ UNCHANGED <<run, quota, messages, worker, task, recovery, ghost, crashes>>
  BY DEF RecordDispatch, RecordDispatchFailure, RequestGoes, Publishing
<1>2. t \in ScanRow /\ t.attached
  BY <1>1, LifecycleAssumption DEF IInv, CreationAgrees, TypeOK, Exists, Publishing
<1>3. /\ sent \in ScanRow /\ sent.attached
      /\ sent.status = t.status /\ sent.ok = t.ok
  BY <1>2 DEF ScanRow, Failure
<1>4. /\ unsent \in ScanRow /\ unsent.attached
      /\ unsent.status = t.status /\ unsent.ok = t.ok
  BY <1>2 DEF ScanRow, Failure
<1>5. SetScan(Target[q], sent) \/ SetScan(Target[q], unsent)
  <2>1. CASE RecordDispatch(q)
    BY <1>2, <2>1 DEF RecordDispatch, ScanRow
  <2>2. CASE RecordDispatchFailure(q)
    BY <1>2, <2>2 DEF RecordDispatchFailure, ScanRow
  <2> QED
    BY <2>1, <2>2
<1> HIDE DEF sent, unsent
<1> QED
  BY <1>1, <1>3, <1>4, <1>5, AnnotateKeeps

(* Every step of a request. *)
LEMMA RequestKeeps ==
    ASSUME IInv, StaysFinal, NEW q \in Request, RequestStep(q) \/ RequestDies(q)
    PROVE  IInv'
<1>1. CASE Dispatch(q) \/ DispatchRaises(q)
  BY <1>1, PublishKeeps DEF Dispatch, DispatchRaises
<1> QED
  BY <1>1, CreateScanKeeps, ReuseScanKeeps, ReserveQuotaKeeps, QuotaExceededKeeps,
     MarkQuotaFailedKeeps, AttachReservationKeeps, RecordDispatchKeeps, RequestDiesKeeps
     DEF RequestStep

-----------------------------------------------------------------------------
(* The broker, the claim, and a reservation that expires *)

LEMMA MessageTakenKeeps ==
    ASSUME IInv, NEW s \in Scan, messages[s] > 0,
           messages' = [messages EXCEPT ![s] = @ - 1],
           crashes' \in 0..MaxCrashes,
           UNCHANGED <<rows, quota, procs, ghost>>
    PROVE  IInv'
<1> USE LifecycleAssumption DEF IInv
<1>1. /\ messages' \in [Scan -> 0..MaxMessages]
      /\ \A k \in Scan : messages'[k] > 0 => messages[k] > 0
  BY DEF TypeOK
<1>2. TypeOK'
  BY <1>1, QuotaSame DEF TypeOK, rows, procs, ghost
<1>3. CreationAgrees' /\ OneCreator' /\ MessagesAgree'
  BY <1>1, RequestFrame DEF rows, procs, Exists
<1>4. RecoveryAgrees'
  BY RecoveryFrame DEF rows, procs, Exists
<1>5. RecoveryAlone'
  BY AloneFrame DEF rows, procs, ghost, quota
<1>6. /\ WorkersPlaced' /\ WorkersApart' /\ TasksPlaced' /\ TasksAgree'
      /\ RunsAgree' /\ RoundsAgree' /\ RoundsFollow' /\ CountsAgree'
      /\ UsageIsEvidence' /\ TerminalScanAccurate' /\ TerminalScanReleased'
  BY QuotaSame, WorkFrame DEF Dwindles, procs, quota
<1> QED
  BY <1>2, <1>3, <1>4, <1>5, <1>6

LEMMA ExpireReservationKeeps ==
    ASSUME IInv, NEW s \in Scan, ExpireReservation(s)
    PROVE  IInv'
<1> USE LifecycleAssumption DEF IInv
<1>1. UNCHANGED <<rows, messages, procs, ghost, crashes>>
  BY DEF ExpireReservation
<1>2. Quota!TypeOK' /\ usage' = usage /\ Dwindles
  BY ExpireRows DEF ExpireReservation
<1>3. TypeOK'
  BY <1>1, <1>2 DEF TypeOK, rows, procs, ghost
<1>4. CreationAgrees' /\ OneCreator' /\ MessagesAgree'
  BY <1>1, RequestFrame DEF rows, procs, Exists
<1>5. RecoveryAgrees'
  BY <1>1, RecoveryFrame DEF rows, procs, Exists
<1>6. RecoveryAlone'
  BY <1>1, <1>2, AloneFrame DEF rows, procs, ghost
<1>7. /\ WorkersPlaced' /\ WorkersApart' /\ TasksPlaced' /\ TasksAgree'
      /\ RunsAgree' /\ RoundsAgree' /\ RoundsFollow' /\ CountsAgree'
      /\ UsageIsEvidence' /\ TerminalScanAccurate' /\ TerminalScanReleased'
  BY <1>1, <1>2, WorkFrame DEF Dwindles, procs
<1> QED
  BY <1>3, <1>4, <1>5, <1>6, <1>7

(* A PENDING scan has no task, no call and no worker that executes it. *)
LEMMA PendingUntouched ==
    ASSUME IInv, NEW s \in Scan, HasStatus(s, {"PENDING"})
    PROVE  /\ \A w \in Worker : worker[w].scan = s => worker[w].pc \notin Executing
           /\ \A r \in Run : ScanOf[r] = s =>
                /\ task[r] = "none" /\ calls[r] = 0 /\ r \notin evidenced
                /\ run[r] \in {"PENDING", "FAILED"}
<1> USE DEF IInv
<1>1. \A w \in Worker : worker[w].scan = s => worker[w].pc \notin Executing
  BY DEF WorkersPlaced, WorkerPlaced, HasStatus
<1>2. \A r \in Run : ScanOf[r] = s => task[r] = "none"
  BY <1>1 DEF TasksPlaced, Executing
<1>3. \A r \in Run : ScanOf[r] = s => calls[r] = 0 /\ r \notin evidenced /\ run[r] \in {"PENDING", "FAILED"}
  BY DEF RunsAgree
<1> QED
  BY <1>1, <1>2, <1>3

LEMMA ClaimRejectedKeeps ==
    ASSUME IInv, StaysFinal, NEW w \in Worker, NEW s \in Scan, Exists(s), ClaimRejected(w, s)
    PROVE  IInv'
<1> USE LifecycleAssumption DEF IInv
<1> DEFINE row == [scan[s] EXCEPT !.failure = "REJECTED"]
           job == [NoWorker EXCEPT !.pc = "finalize", !.scan = s]
<1>1. /\ scan[s].status = "PENDING" /\ ~(scan[s].attached /\ Usable(s))
      /\ worker[w].pc = "idle" /\ messages[s] > 0 /\ Unlocked(s)
      /\ messages' = [messages EXCEPT ![s] = @ - 1]
      /\ FailUnresolved(s) /\ SetScan(s, row)
      /\ worker' = [worker EXCEPT ![w] = job]
      /\ UNCHANGED <<quota, request, task, recovery, ghost, crashes>>
  BY DEF ClaimRejected, Take
<1>2. scan[s].attached /\ ~Usable(s) /\ HasStatus(s, {"PENDING"})
  BY <1>1 DEF MessagesAgree, HasStatus
<1>3. /\ row \in ScanRow /\ row.attached = scan[s].attached
      /\ row.status = "PENDING" /\ row.ok = scan[s].ok
  BY <1>1 DEF TypeOK, Exists, ScanRow, Failure
<1>4. job \in WorkerState /\ job.pc = "finalize" /\ job.scan = s /\ job.stop = FALSE
  BY DEF WorkerState, NoWorker
<1> HIDE DEF row, job
<1>5. /\ scan' \in [Scan -> ScanRow \cup {NoRow}]
      /\ \A k \in Scan : scan'[k] = IF k = s THEN row ELSE scan[k]
      /\ Exists(s)'
  BY <1>1, <1>3, SetScanRows
<1>6. /\ run' \in [Run -> RunStatus]
      /\ \A r \in Run : run'[r] = IF ScanOf[r] = s /\ run[r] \in {"PENDING", "RUNNING"}
                                  THEN "FAILED" ELSE run[r]
  BY <1>1, FailUnresolvedRuns
<1>7. \A v \in Worker : worker'[v] = IF v = w THEN job ELSE worker[v]
  BY <1>1 DEF TypeOK
<1>8. TypeOK'
  <2>1. messages' \in [Scan -> 0..MaxMessages]
    BY <1>1 DEF TypeOK
  <2> QED
    BY <1>1, <1>4, <1>5, <1>6, <2>1, QuotaSame DEF TypeOK, ghost
<1>9. \A r \in Run : ScanOf[r] = s =>
        /\ task[r] = "none" /\ calls[r] = 0 /\ r \notin evidenced
        /\ run[r] \in {"PENDING", "FAILED"}
  BY <1>2, PendingUntouched
<1>10. CreationAgrees' /\ OneCreator' /\ MessagesAgree'
  <2>1. \A q \in Request : request[q].pc \in Creating => Target[q] # s
    BY <1>2, AttachedNotCreating
  <2>2. \A q \in Request : request[q].pc \in Creating =>
          /\ scan'[Target[q]] = scan[Target[q]]
          /\ \A r \in Runs(Target[q]) : run'[r] = run[r]
    BY <1>5, <1>6, <2>1 DEF Runs
  <2>3. \A k \in Scan : messages'[k] > 0 => messages[k] > 0
    BY <1>1 DEF TypeOK
  <2>4. \A k \in Scan : Exists(k) => Exists(k)' /\ (scan[k].attached => scan'[k].attached)
    BY <1>3, <1>5 DEF Exists
  <2> QED
    BY <1>1, <2>2, <2>3, <2>4, RequestFrame
<1>11. WorkersPlaced'
  <2> SUFFICES ASSUME NEW v \in Worker PROVE WorkerPlaced(v)'
    BY DEF WorkersPlaced, WorkerPlaced
  <2>1. CASE v = w
    <3>1. worker'[v] = job /\ scan'[s] = row /\ s # NoRow /\ resv' = resv
      BY <1>1, <1>5, <1>7, <2>1, RowAssumption DEF quota
    <3> QED
      BY <1>2, <1>3, <1>4, <1>5, <3>1 DEF WorkerPlaced, Executing, Exists, Usable
  <2>2. CASE v # w
    <3>1. worker'[v] = worker[v]
      BY <1>7, <2>2
    <3>2. worker[v].pc # "idle" => worker[v].scan \in Scan
      BY DEF WorkersPlaced, WorkerPlaced, TypeOK, WorkerState
    <3>3. worker[v].pc # "idle" =>
            /\ Exists(worker[v].scan)'
            /\ scan'[worker[v].scan].attached = scan[worker[v].scan].attached
            /\ scan'[worker[v].scan].status = scan[worker[v].scan].status
      BY <1>1, <1>3, <1>5, <3>2 DEF WorkersPlaced, WorkerPlaced, Exists
    <3> QED
      BY <1>1, <3>1, <3>2, <3>3 DEF WorkersPlaced, WorkerPlaced, Executing, Usable, quota
  <2> QED
    BY <2>1, <2>2
<1>12. WorkersApart'
  <2>1. \A v \in Worker : worker[v].scan = s => worker[v].pc = "finalize"
    BY <1>2, PendingUntouched, RowAssumption DEF WorkersPlaced, WorkerPlaced, TypeOK, WorkerState, Executing
  <2> QED
    BY <1>4, <1>7, <2>1 DEF WorkersApart
<1>13. TasksPlaced'
  BY <1>1, <1>7 DEF TasksPlaced
<1>14. TasksAgree'
  BY <1>1, <1>6, <1>9 DEF TasksAgree, ghost, Answered, Evidenced
<1>15. RunsAgree'
  BY <1>1, <1>2, <1>3, <1>5, <1>6, <1>9 DEF RunsAgree, Exists, HasStatus, ghost
<1>16. RoundsAgree'
  <2>1. \A v \in Worker : worker'[v].pc \in Executing =>
          worker'[v] = worker[v] /\ worker[v].scan # s
    BY <1>2, <1>4, <1>7, PendingUntouched DEF Executing
  <2> QED
    BY <1>1, <1>6, <2>1 DEF RoundsAgree, RoundAgrees, Executing, ghost
<1>17. RoundsFollow'
  BY <1>1, <1>6 DEF RoundsFollow, Over, ghost
<1>18. CountsAgree'
  BY <1>1, <1>3, <1>5 DEF CountsAgree, HasStatus, Exists
<1>19. RecoveryAgrees'
  BY <1>1, <1>5, RecoveryFrame DEF Exists
<1>20. RecoveryAlone'
  <2>1. RunsIn(recovery.scan, "RUNNING") = {} => RunsIn(recovery.scan, "RUNNING")' = {}
    BY <1>1, <1>6 DEF RunsIn, Runs
  <2>2. EvidencedRunNotWrittenOff => EvidencedRunNotWrittenOff'
    BY <1>1, <1>6, <1>9 DEF EvidencedRunNotWrittenOff, ghost, quota, TypeOK
  <2>3. \A r \in Run : task'[r] # "none" => task'[r] = task[r] /\ run'[r] = run[r]
    BY <1>1, <1>6, <1>9
  <2>4. recovery.pc = "mark" => recovery.scan # s
    BY <1>1 DEF Unlocked
  <2> QED
    BY <1>1, <1>4, <1>7, <2>1, <2>2, <2>3, <2>4 DEF RecoveryAlone, Answered, Evidenced
<1>21. UsageIsEvidence'
  BY <1>1, <1>6, <1>9 DEF UsageIsEvidence, ghost, quota
<1>22. TerminalScanAccurate'
  BY <1>3, <1>5, AccurateFrame DEF HasStatus, Exists, Terminal
<1>23. TerminalScanReleased'
  BY <1>1, <1>3, <1>5
     DEF TerminalScanReleased, HasStatus, Exists, Terminal, quota, Quota!Active, Quota!Reserved
<1> QED
  BY <1>8, <1>10, <1>11, <1>12, <1>13, <1>14, <1>15, <1>16, <1>17, <1>18, <1>19, <1>20,
     <1>21, <1>22, <1>23

LEMMA ClaimScanKeeps ==
    ASSUME IInv, StaysFinal, NEW w \in Worker, NEW s \in Scan, Exists(s), ClaimScan(w, s)
    PROVE  IInv'
<1> USE LifecycleAssumption DEF IInv
<1> DEFINE row == [scan[s] EXCEPT !.status = "RUNNING"]
           job == [NoWorker EXCEPT !.pc = "round", !.scan = s]
<1>1. /\ scan[s].status = "PENDING" /\ scan[s].attached /\ Usable(s)
      /\ worker[w].pc = "idle" /\ messages[s] > 0 /\ Unlocked(s)
      /\ messages' = [messages EXCEPT ![s] = @ - 1]
      /\ SetScan(s, row)
      /\ worker' = [worker EXCEPT ![w] = job]
      /\ UNCHANGED <<run, quota, request, task, recovery, ghost, crashes>>
  BY DEF ClaimScan, Take
<1>2. HasStatus(s, {"PENDING"})
  BY <1>1 DEF HasStatus
<1>3. /\ row \in ScanRow /\ row.attached = scan[s].attached
      /\ row.status = "RUNNING" /\ row.ok = scan[s].ok
  <2>1. scan[s] \in ScanRow
    BY DEF TypeOK, Exists
  <2> QED
    BY <2>1 DEF ScanRow
<1>4. /\ job \in WorkerState /\ job.pc = "round" /\ job.scan = s
      /\ job.stop = FALSE /\ job.round = 0
  BY DEF WorkerState, NoWorker
<1> HIDE DEF row, job
<1>5. /\ scan' \in [Scan -> ScanRow \cup {NoRow}]
      /\ \A k \in Scan : scan'[k] = IF k = s THEN row ELSE scan[k]
      /\ Exists(s)'
  BY <1>1, <1>3, SetScanRows
<1>6. \A v \in Worker : worker'[v] = IF v = w THEN job ELSE worker[v]
  BY <1>1 DEF TypeOK
<1>7. TypeOK'
  <2>1. messages' \in [Scan -> 0..MaxMessages]
    BY <1>1 DEF TypeOK
  <2> QED
    BY <1>1, <1>4, <1>5, <2>1, QuotaSame DEF TypeOK, ghost
<1>8. \A r \in Run : ScanOf[r] = s =>
        /\ task[r] = "none" /\ calls[r] = 0 /\ r \notin evidenced
        /\ run[r] \in {"PENDING", "FAILED"}
  BY <1>2, PendingUntouched
<1>9. \A v \in Worker : worker[v].scan # s
  BY <1>1, <1>2, PendingUntouched, RowAssumption
     DEF WorkersPlaced, WorkerPlaced, TypeOK, WorkerState, Executing
<1>10. CreationAgrees' /\ OneCreator' /\ MessagesAgree'
  <2>1. \A q \in Request : request[q].pc \in Creating => Target[q] # s
    BY <1>1, AttachedNotCreating
  <2>2. \A q \in Request : request[q].pc \in Creating =>
          /\ scan'[Target[q]] = scan[Target[q]]
          /\ \A r \in Runs(Target[q]) : run'[r] = run[r]
    BY <1>1, <1>5, <2>1
  <2>3. \A k \in Scan : messages'[k] > 0 => messages[k] > 0
    BY <1>1 DEF TypeOK
  <2>4. \A k \in Scan : Exists(k) => Exists(k)' /\ (scan[k].attached => scan'[k].attached)
    BY <1>3, <1>5 DEF Exists
  <2> QED
    BY <1>1, <2>2, <2>3, <2>4, RequestFrame
<1>11. WorkersPlaced'
  <2> SUFFICES ASSUME NEW v \in Worker PROVE WorkerPlaced(v)'
    BY DEF WorkersPlaced, WorkerPlaced
  <2>1. CASE v = w
    <3>1. worker'[v] = job /\ scan'[s] = row /\ s # NoRow
      BY <1>5, <1>6, <2>1, RowAssumption
    <3> QED
      BY <1>1, <1>3, <1>4, <1>5, <3>1 DEF WorkerPlaced, Executing, Exists
  <2>2. CASE v # w
    <3>1. worker'[v] = worker[v]
      BY <1>6, <2>2
    <3>2. worker[v].pc # "idle" => worker[v].scan \in Scan
      BY DEF WorkersPlaced, WorkerPlaced, TypeOK, WorkerState
    <3>3. worker[v].pc # "idle" => scan'[worker[v].scan] = scan[worker[v].scan]
      BY <1>5, <1>9, <3>2
    <3> QED
      BY <1>1, <3>1, <3>3 DEF WorkersPlaced, WorkerPlaced, Executing, Usable, Exists, quota
  <2> QED
    BY <2>1, <2>2
<1>12. WorkersApart'
  BY <1>4, <1>6, <1>9 DEF WorkersApart
<1>13. TasksPlaced'
  BY <1>1, <1>6 DEF TasksPlaced
<1>14. TasksAgree' /\ RoundsFollow' /\ UsageIsEvidence'
  BY <1>1 DEF TasksAgree, RoundsFollow, UsageIsEvidence, ghost, quota
<1>15. RunsAgree'
  BY <1>1, <1>3, <1>5 DEF RunsAgree, Exists, HasStatus, ghost
<1>16. RoundsAgree'
  <2>1. \A r \in Run : RoundOf[r] > 0
    OBVIOUS
  <2> QED
    BY <1>1, <1>4, <1>6, <1>8, <2>1 DEF RoundsAgree, RoundAgrees, Executing, ghost
<1>17. CountsAgree'
  BY <1>2, <1>3, <1>5 DEF CountsAgree, HasStatus, Exists
<1>18. RecoveryAgrees'
  BY <1>1, <1>5, RecoveryFrame DEF Exists
<1>19. RecoveryAlone'
  <2>1. recovery.pc = "mark" => recovery.scan # s
    BY <1>1 DEF Unlocked
  <2>2. RunsIn(recovery.scan, "RUNNING")' = RunsIn(recovery.scan, "RUNNING")
    BY <1>1 DEF RunsIn, Runs
  <2>3. EvidencedRunNotWrittenOff => EvidencedRunNotWrittenOff'
    BY <1>1 DEF EvidencedRunNotWrittenOff, ghost, quota
  <2> QED
    BY <1>1, <1>4, <1>6, <2>1, <2>2, <2>3 DEF RecoveryAlone
<1>20. TerminalScanAccurate'
  BY <1>3, <1>5, AccurateFrame DEF HasStatus, Exists, Terminal
<1>21. TerminalScanReleased'
  BY <1>1, <1>3, <1>5
     DEF TerminalScanReleased, HasStatus, Exists, Terminal, quota, Quota!Active, Quota!Reserved
<1> QED
  BY <1>7, <1>10, <1>11, <1>12, <1>13, <1>14, <1>15, <1>16, <1>17, <1>18, <1>19, <1>20, <1>21

LEMMA DeliverKeeps ==
    ASSUME IInv, StaysFinal, NEW w \in Worker, NEW s \in Scan, Deliver(w, s)
    PROVE  IInv'
<1>1. CASE ClaimRefused(w, s)
  <2>1. crashes' \in 0..MaxCrashes
    BY <1>1 DEF ClaimRefused, Take, IInv, TypeOK
  <2> QED
    BY <1>1, <2>1, MessageTakenKeeps DEF ClaimRefused, Take, procs
<1> QED
  BY <1>1, ClaimRejectedKeeps, ClaimScanKeeps DEF Deliver

-----------------------------------------------------------------------------
(* The rounds of a worker *)

(* A worker that executes a scan has it for itself. *)
LEMMA ExecutesAlone ==
    ASSUME IInv, NEW w \in Worker, worker[w].pc \in Executing
    PROVE  /\ worker[w].scan \in Scan /\ Exists(worker[w].scan)
           /\ scan[worker[w].scan].attached
           /\ \A v \in Worker \ {w} : worker[v].scan # worker[w].scan
<1> USE RowAssumption DEF IInv, Executing
<1>1. worker[w].scan \in Scan /\ Exists(worker[w].scan) /\ scan[worker[w].scan].attached
  BY DEF WorkersPlaced, WorkerPlaced, TypeOK, WorkerState
<1>2. ASSUME NEW v \in Worker \ {w}, worker[v].scan = worker[w].scan PROVE FALSE
  <2>1. worker[v].pc # "idle" /\ worker[w].pc # "idle"
    BY <1>1, <1>2 DEF WorkersPlaced, WorkerPlaced
  <2>2. worker[w].pc = "finalize"
    BY <1>2, <2>1 DEF WorkersApart
  <2> QED
    BY <2>2
<1> QED
  BY <1>1, <1>2

(* What a step of a worker that runs no query of its own leaves alone. *)
LEMMA ScheduleFrame ==
    ASSUME IInv, UNCHANGED <<rows, quota, messages, request, recovery, ghost>>
    PROVE  /\ CreationAgrees' /\ OneCreator' /\ MessagesAgree'
           /\ RunsAgree' /\ CountsAgree' /\ RecoveryAgrees'
           /\ UsageIsEvidence' /\ TerminalScanAccurate' /\ TerminalScanReleased'
           /\ Quota!TypeOK'
<1> USE DEF IInv, rows, ghost, Exists, HasStatus
<1>1. CreationAgrees' /\ OneCreator' /\ MessagesAgree'
  BY RequestFrame
<1>2. RunsAgree' /\ CountsAgree' /\ UsageIsEvidence'
  BY DEF RunsAgree, CountsAgree, UsageIsEvidence, quota
<1>3. RecoveryAgrees'
  BY RecoveryFrame
<1>4. TerminalScanAccurate'
  BY DEF TerminalScanAccurate, Unresolved, RunsIn, Runs
<1>5. TerminalScanReleased'
  BY DEF TerminalScanReleased, quota, Quota!Active, Quota!Reserved
<1> QED
  BY <1>1, <1>2, <1>3, <1>4, <1>5, QuotaSame

(* A worker goes on with its scan: it becomes x, and changes tasks of the  *)
(* scan only, which leave, are queued in their turn, or are scheduled.     *)
GoesOn(w, x) ==
    /\ worker[w].pc \in Executing
    /\ x.scan = worker[w].scan /\ x.pc # "idle" /\ (x.stop => x.pc = "wait")
    /\ worker' = [worker EXCEPT ![w] = x]
    /\ task' \in [Run -> TaskState]
    /\ \A r \in Run :
         /\ ScanOf[r] # x.scan => task'[r] = task[r]
         /\ task'[r] \in {"none", "queued", "scheduled"} \/ task'[r] = task[r]
         /\ task'[r] \in {"queued", "scheduled"} => task[r] \in {"none", "queued", "scheduled"}
         /\ ScanOf[r] = x.scan /\ task'[r] # "none" => x.pc \in {"fill", "wait"}
         /\ task'[r] # "none" /\ task[r] = "none" =>
              /\ run[r] \in {"PENDING", "FAILED"} /\ calls[r] = 0
              /\ \A p \in Run : ScanOf[p] = x.scan /\ RoundOf[p] < RoundOf[r] => run[p] \in Over
         /\ ScanOf[r] = x.scan => RoundAgrees(w, r)'
    /\ UNCHANGED <<rows, quota, messages, request, recovery, ghost, crashes>>

LEMMA WorkerGoesOn ==
    ASSUME IInv, NEW w \in Worker, NEW x \in WorkerState, GoesOn(w, x)
    PROVE  IInv'
<1> USE LifecycleAssumption DEF IInv, GoesOn
<1>1. \A v \in Worker : worker'[v] = IF v = w THEN x ELSE worker[v]
  BY DEF TypeOK
<1>2. /\ x.scan \in Scan /\ Exists(x.scan) /\ scan[x.scan].attached
      /\ \A v \in Worker \ {w} : worker[v].scan # x.scan
  BY ExecutesAlone
<1>3. TypeOK'
  BY ScheduleFrame DEF TypeOK, rows, ghost
<1>4. WorkersPlaced'
  <2> SUFFICES ASSUME NEW v \in Worker PROVE WorkerPlaced(v)'
    BY DEF WorkersPlaced
  <2>1. CASE v = w
    <3>1. worker'[v] = x /\ x.scan # NoRow /\ scan[x.scan].status # "PENDING"
      BY <1>1, <1>2, <2>1, RowAssumption DEF WorkersPlaced, WorkerPlaced
    <3> QED
      BY <1>2, <3>1 DEF WorkerPlaced, Exists, Executing, rows
  <2>2. CASE v # w
    BY <1>1, <2>2 DEF WorkersPlaced, WorkerPlaced, Exists, Executing, Usable, rows, quota
  <2> QED
    BY <2>1, <2>2
<1>5. WorkersApart'
  BY <1>1, <1>2 DEF WorkersApart
<1>6. TasksPlaced'
  <2> SUFFICES ASSUME NEW r \in Run, task'[r] # "none"
      PROVE \E v \in Worker : worker'[v].pc \in {"fill", "wait"} /\ worker'[v].scan = ScanOf[r]
    BY DEF TasksPlaced
  <2>1. CASE ScanOf[r] = x.scan
    BY <1>1, <2>1
  <2>2. CASE ScanOf[r] # x.scan
    BY <1>1, <2>2 DEF TasksPlaced
  <2> QED
    BY <2>1, <2>2
<1>7. TasksAgree'
  <2> SUFFICES ASSUME NEW r \in Run
      PROVE
        /\ task'[r] \in {"queued", "scheduled"} => run'[r] \in {"PENDING", "FAILED"} /\ calls'[r] = 0
        /\ task'[r] = "calling" \/ task'[r] \in Answered =>
             run'[r] \in {"RUNNING", "FAILED"} /\ calls'[r] > 0
        /\ task'[r] \in {"calling", "answered_failure"} => r \notin evidenced'
        /\ task'[r] \in {"answered_ok", "answered_billed_failure"} => r \in evidenced'
        /\ task'[r] = "done" => run'[r] \in Over
    BY DEF TasksAgree
  <2>1. run' = run /\ calls' = calls /\ evidenced' = evidenced
    BY DEF rows, ghost
  <2>2. CASE task'[r] = task[r]
    BY <2>1, <2>2 DEF TasksAgree
  <2>3. CASE task'[r] = "none"
    BY <2>3 DEF Answered, Evidenced
  <2>4. CASE task'[r] \in {"queued", "scheduled"}
    BY <2>1, <2>4 DEF TasksAgree, Answered, Evidenced
  <2> QED
    BY <2>2, <2>3, <2>4
<1>8. RoundsAgree'
  <2> SUFFICES ASSUME NEW v \in Worker, NEW r \in Run PROVE RoundAgrees(v, r)'
    BY DEF RoundsAgree
  <2>1. CASE v = w
    <3>1. CASE ScanOf[r] = x.scan
      BY <2>1, <3>1
    <3>2. CASE ScanOf[r] # x.scan
      BY <1>1, <2>1, <3>2 DEF RoundAgrees
    <3> QED
      BY <3>1, <3>2
  <2>2. CASE v # w
    BY <1>1, <1>2, <2>2 DEF RoundsAgree, RoundAgrees, rows, ghost
  <2> QED
    BY <2>1, <2>2
<1>9. RoundsFollow'
  <2>1. run' = run /\ calls' = calls
    BY DEF rows, ghost
  <2>2. \A r \in Run : task'[r] # "none" /\ task[r] = "none" => ScanOf[r] = x.scan
    OBVIOUS
  <2> QED
    BY <2>1, <2>2 DEF RoundsFollow
<1>10. RecoveryAlone'
  <2>1. /\ recovery.pc = "mark" => recovery.scan \in Scan
        /\ RunsIn(recovery.scan, "RUNNING")' = RunsIn(recovery.scan, "RUNNING")
        /\ EvidencedRunNotWrittenOff => EvidencedRunNotWrittenOff'
    BY DEF RecoveryAgrees, RunsIn, Runs, EvidencedRunNotWrittenOff, rows, ghost, quota
  <2>2. \A r \in Run : task'[r] = "calling" \/ task'[r] \in Answered =>
          task'[r] = task[r] /\ run'[r] = run[r]
    BY DEF Answered, Evidenced, rows
  <2> QED
    BY <1>1, <2>1, <2>2 DEF RecoveryAlone
<1> QED
  BY <1>3, <1>4, <1>5, <1>6, <1>7, <1>8, <1>9, <1>10, ScheduleFrame

(* A worker leaves its scan, with no task of it. *)
LEMMA WorkerLeaves ==
    ASSUME IInv, NEW w \in Worker, worker[w].pc # "idle",
           worker' = [worker EXCEPT ![w] = NoWorker],
           task' = [r \in Run |-> IF ScanOf[r] = worker[w].scan THEN "none" ELSE task[r]],
           crashes' \in 0..MaxCrashes,
           UNCHANGED <<rows, quota, messages, request, recovery, ghost>>
    PROVE  IInv'
<1> USE LifecycleAssumption DEF IInv
<1> DEFINE s == worker[w].scan
<1>1. \A v \in Worker : worker'[v] = IF v = w THEN NoWorker ELSE worker[v]
  BY DEF TypeOK
<1>2. NoWorker \in WorkerState
  BY DEF NoWorker, WorkerState
<1>3. /\ task' \in [Run -> TaskState]
      /\ \A r \in Run : task'[r] = IF ScanOf[r] = s THEN "none" ELSE task[r]
  BY DEF TypeOK, TaskState
<1> HIDE DEF s
<1>4. TypeOK'
  BY <1>1, <1>2, <1>3, ScheduleFrame DEF TypeOK, rows, ghost
<1>5. WorkersPlaced'
  BY <1>1 DEF WorkersPlaced, WorkerPlaced, NoWorker, Executing, Exists, Usable, rows, quota
<1>6. WorkersApart'
  BY <1>1 DEF WorkersApart, WorkersPlaced, WorkerPlaced, NoWorker
<1>7. TasksPlaced'
  BY <1>1, <1>3 DEF TasksPlaced, s
<1>8. TasksAgree'
  BY <1>3 DEF TasksAgree, Answered, Evidenced, rows, ghost
<1>9. RoundsAgree'
  <2> SUFFICES ASSUME NEW v \in Worker, NEW r \in Run PROVE RoundAgrees(v, r)'
    BY DEF RoundsAgree
  <2>1. CASE v = w
    BY <1>1, <2>1 DEF RoundAgrees, NoWorker, Executing
  <2>2. CASE v # w /\ worker[v].pc \in Executing
    <3>1. worker[v].scan # s
      BY <2>2, ExecutesAlone DEF s
    <3> QED
      BY <1>1, <1>3, <2>2, <3>1 DEF RoundsAgree, RoundAgrees, rows, ghost
  <2>3. CASE v # w /\ worker[v].pc \notin Executing
    BY <1>1, <2>3 DEF RoundAgrees, Executing
  <2> QED
    BY <2>1, <2>2, <2>3
<1>10. RoundsFollow'
  BY <1>3 DEF RoundsFollow, rows, ghost
<1>11. RecoveryAlone'
  <2>1. /\ recovery.pc = "mark" => recovery.scan \in Scan
        /\ RunsIn(recovery.scan, "RUNNING")' = RunsIn(recovery.scan, "RUNNING")
        /\ EvidencedRunNotWrittenOff => EvidencedRunNotWrittenOff'
    BY DEF RecoveryAgrees, RunsIn, Runs, EvidencedRunNotWrittenOff, rows, ghost, quota
  <2>2. \A r \in Run : task'[r] = "calling" \/ task'[r] \in Answered =>
          task'[r] = task[r] /\ run'[r] = run[r]
    BY <1>3 DEF Answered, Evidenced, rows
  <2> QED
    BY <1>1, <2>1, <2>2, RowAssumption DEF RecoveryAlone, NoWorker
<1> QED
  BY <1>4, <1>5, <1>6, <1>7, <1>8, <1>9, <1>10, <1>11, ScheduleFrame

LEMMA NextRoundKeeps ==
    ASSUME IInv, NEW w \in Worker, NextRound(w)
    PROVE  IInv'
<1> USE LifecycleAssumption DEF IInv
<1> DEFINE s == worker[w].scan
           later == {r \in Runs(s) : RoundOf[r] > worker[w].round}
<1>1. worker[w] \in WorkerState /\ worker[w].pc = "round" /\ ~worker[w].stop
  BY DEF NextRound, TypeOK, WorkersPlaced, WorkerPlaced
<1>2. UNCHANGED <<rows, quota, messages, request, recovery, ghost, crashes>>
  BY DEF NextRound, WorkerOnly
<1>3. /\ s \in Scan
      /\ \A v \in Worker \ {w} : worker[v].scan # s
  BY <1>1, ExecutesAlone DEF Executing
<1>4. \A r \in Run : ScanOf[r] = s => task[r] = "none"
  BY <1>1, <1>3 DEF TasksPlaced
<1>5. \A r \in Run : ScanOf[r] = s =>
        IF r \in later THEN run[r] \in {"PENDING", "FAILED"} /\ calls[r] = 0 ELSE run[r] \in Over
  BY <1>1 DEF RoundsAgree, RoundAgrees, Runs, Executing, TypeOK, WorkerState
<1>6. CASE /\ worker' = [worker EXCEPT ![w].pc = "finalize"]
           /\ task' = task
  <2> DEFINE x == [worker[w] EXCEPT !.pc = "finalize"]
  <2>1. x \in WorkerState /\ x.pc = "finalize" /\ x.scan = s /\ ~x.stop
    BY <1>1 DEF WorkerState
  <2>2. worker' = [worker EXCEPT ![w] = x] /\ worker'[w] = x
    BY <1>6 DEF TypeOK
  <2> HIDE DEF x
  <2>3. \A r \in Run : RoundAgrees(w, r)'
    BY <2>1, <2>2 DEF RoundAgrees, Executing
  <2>4. task' \in [Run -> TaskState]
    BY <1>6 DEF TypeOK
  <2>5. GoesOn(w, x)
    BY <1>1, <1>2, <1>4, <1>6, <2>1, <2>2, <2>3, <2>4 DEF GoesOn, Executing
  <2> QED
    BY <2>1, <2>5, WorkerGoesOn
<1>7. ASSUME NEW n \in {RoundOf[r] : r \in later},
             \A r \in later : n <= RoundOf[r],
             worker' = [worker EXCEPT ![w].pc = "fill", ![w].round = n],
             task' = [r \in Run |-> IF r \in later /\ RoundOf[r] = n THEN "queued" ELSE task[r]]
      PROVE IInv'
  <2> DEFINE x == [worker[w] EXCEPT !.pc = "fill", !.round = n]
  <2>1. n \in Nat
    BY DEF Runs
  <2>2. x \in WorkerState /\ x.pc = "fill" /\ x.scan = s /\ ~x.stop /\ x.round = n
    BY <1>1, <2>1 DEF WorkerState
  <2>3. worker' = [worker EXCEPT ![w] = x] /\ worker'[w] = x
    BY <1>7 DEF TypeOK
  <2>4. /\ task' \in [Run -> TaskState]
        /\ \A r \in Run : task'[r] = IF r \in later /\ RoundOf[r] = n THEN "queued" ELSE task[r]
    BY <1>7 DEF TypeOK, TaskState
  <2>5. later \subseteq Run /\ \A r \in later : ScanOf[r] = s
    BY DEF Runs
  <2>6. n > worker[w].round
    BY <2>1 DEF Runs
  <2> HIDE DEF x
  <2>7. \A r \in Run : ScanOf[r] = s /\ RoundOf[r] < n => r \notin later /\ run[r] \in Over
    BY <1>5, <1>7, <2>1
  <2>8. \A r \in Run : ScanOf[r] = s => RoundAgrees(w, r)'
    <3> SUFFICES ASSUME NEW r \in Run, ScanOf[r] = s PROVE RoundAgrees(w, r)'
      OBVIOUS
    <3>1. CASE RoundOf[r] < n
      BY <1>2, <2>1, <2>2, <2>3, <2>7, <3>1 DEF RoundAgrees, rows
    <3>2. CASE RoundOf[r] = n
      <4>1. r \in later
        BY <2>6, <3>2 DEF Runs
      <4> QED
        BY <2>1, <2>2, <2>3, <2>4, <3>2, <4>1 DEF RoundAgrees
    <3>3. CASE RoundOf[r] > n
      <4>1. r \in later
        BY <1>1, <2>1, <2>6, <3>3 DEF Runs, WorkerState
      <4> QED
        BY <1>2, <1>4, <1>5, <2>1, <2>2, <2>3, <2>4, <3>3, <4>1 DEF RoundAgrees, rows, ghost
    <3> QED
      BY <2>1, <3>1, <3>2, <3>3
  <2>9. \A r \in Run : task'[r] # "none" /\ task[r] = "none" =>
          /\ run[r] \in {"PENDING", "FAILED"} /\ calls[r] = 0
          /\ \A p \in Run : ScanOf[p] = x.scan /\ RoundOf[p] < RoundOf[r] => run[p] \in Over
    BY <1>5, <2>2, <2>4, <2>5, <2>7
  <2>10. GoesOn(w, x)
    BY <1>1, <1>2, <1>4, <2>2, <2>3, <2>4, <2>5, <2>8, <2>9 DEF GoesOn, Executing
  <2> QED
    BY <2>2, <2>10, WorkerGoesOn
<1> QED
  BY <1>6, <1>7 DEF NextRound

LEMMA FillKeeps ==
    ASSUME IInv, NEW w \in Worker, Fill(w)
    PROVE  IInv'
<1> USE LifecycleAssumption DEF IInv
<1> DEFINE s == worker[w].scan
           x == [worker[w] EXCEPT !.pc = "wait"]
<1>1. worker[w] \in WorkerState /\ worker[w].pc = "fill" /\ ~worker[w].stop
  BY DEF Fill, TypeOK, WorkersPlaced, WorkerPlaced
<1>2. UNCHANGED <<rows, quota, messages, request, recovery, ghost, crashes>>
  BY DEF Fill, WorkerOnly
<1>3. x \in WorkerState /\ x.pc = "wait" /\ x.scan = s /\ ~x.stop /\ x.round = worker[w].round
  BY <1>1 DEF WorkerState
<1>4. worker' = [worker EXCEPT ![w] = x] /\ worker'[w] = x
  BY DEF Fill, TypeOK
<1>5. PICK new \in SUBSET TasksIn(s, {"queued"}) :
        task' = [r \in Run |-> IF r \in new THEN "scheduled" ELSE task[r]]
  BY DEF Fill
<1>6. \A r \in new : r \in Run /\ ScanOf[r] = s /\ task[r] = "queued"
  BY DEF TasksIn, Runs
<1>7. /\ task' \in [Run -> TaskState]
      /\ \A r \in Run : task'[r] = IF r \in new THEN "scheduled" ELSE task[r]
  BY <1>5 DEF TypeOK, TaskState, Started
<1> HIDE DEF x
<1>8. \A r \in Run : ScanOf[r] = s => RoundAgrees(w, r)'
  <2> SUFFICES ASSUME NEW r \in Run, ScanOf[r] = s PROVE RoundAgrees(w, r)'
    OBVIOUS
  <2>1. RoundAgrees(w, r)
    BY DEF RoundsAgree
  <2>2. "scheduled" \in Started
    BY DEF Started
  <2> QED
    BY <1>1, <1>2, <1>3, <1>4, <1>6, <1>7, <2>1, <2>2 DEF RoundAgrees, Executing, rows, ghost
<1>9. GoesOn(w, x)
  BY <1>1, <1>2, <1>3, <1>4, <1>6, <1>7, <1>8 DEF GoesOn, Executing
<1> QED
  BY <1>3, <1>9, WorkerGoesOn

LEMMA CollectKeeps ==
    ASSUME IInv, NEW w \in Worker, Collect(w)
    PROVE  IInv'
<1> USE LifecycleAssumption DEF IInv
<1> DEFINE s == worker[w].scan
           done == TasksIn(s, {"done", "fatal"})
           stop == worker[w].stop \/ TasksIn(s, {"fatal"}) # {}
           active == TasksIn(s, Started) \ done
           idle == active = {} /\ TasksIn(s, {"queued"}) = {}
           x == [worker[w] EXCEPT !.stop = stop,
                                  !.pc = IF stop THEN "wait" ELSE IF idle THEN "round" ELSE "fill"]
<1>1. worker[w] \in WorkerState /\ worker[w].pc = "wait"
  BY DEF Collect, TypeOK
<1>2. UNCHANGED <<rows, quota, messages, request, recovery, ghost, crashes>>
  BY DEF Collect, WorkerOnly
<1>3. CASE active = {} /\ stop
  <2>1. worker' = [worker EXCEPT ![w] = NoWorker]
    BY <1>3 DEF Collect
  <2>2. task' = [r \in Run |-> IF ScanOf[r] = s THEN "none" ELSE task[r]]
    BY <1>3 DEF Collect, Runs
  <2>3. crashes' \in 0..MaxCrashes
    BY <1>2 DEF TypeOK
  <2> QED
    BY <1>1, <1>2, <2>1, <2>2, <2>3, WorkerLeaves
<1>4. CASE ~(active = {} /\ stop)
  <2>1. stop \in BOOLEAN
    BY <1>1 DEF WorkerState
  <2>2. /\ x \in WorkerState /\ x.scan = s /\ x.round = worker[w].round
        /\ x.stop = stop
        /\ x.pc = IF stop THEN "wait" ELSE IF idle THEN "round" ELSE "fill"
    BY <1>1, <2>1 DEF WorkerState
  <2>3. worker' = [worker EXCEPT ![w] = x] /\ worker'[w] = x
    BY <1>4 DEF Collect, TypeOK
  <2>4. /\ task' \in [Run -> TaskState]
        /\ \A r \in Run : task'[r] = IF r \in done THEN "none" ELSE task[r]
    BY <1>4 DEF Collect, TypeOK, TaskState
  <2>5. \A r \in done : r \in Run /\ ScanOf[r] = s /\ task[r] \in {"done", "fatal"}
    BY DEF TasksIn, Runs
  <2>6. \A r \in Run : ScanOf[r] = s /\ task[r] \in {"done", "fatal"} => r \in done
    BY DEF TasksIn, Runs
  <2>7. ~stop => ~worker[w].stop /\ \A r \in Run : ScanOf[r] = s => task[r] # "fatal"
    BY DEF TasksIn, Runs
  <2>8. idle => \A r \in Run : ScanOf[r] = s => r \in done \/ task[r] = "none"
    BY DEF TasksIn, Runs, TypeOK, TaskState
  <2> HIDE DEF x, done, idle, stop
  <2>9. \A r \in Run : ScanOf[r] = s => RoundAgrees(w, r)'
    <3> SUFFICES ASSUME NEW r \in Run, ScanOf[r] = s PROVE RoundAgrees(w, r)'
      OBVIOUS
    <3>1. RoundAgrees(w, r) /\ (task[r] = "done" => run[r] \in Over)
      BY DEF RoundsAgree, TasksAgree
    <3>2. RoundOf[r] > worker[w].round =>
            run'[r] \in {"PENDING", "FAILED"} /\ calls'[r] = 0 /\ task'[r] = "none"
      BY <1>1, <1>2, <2>4, <3>1 DEF RoundAgrees, Executing, rows, ghost
    <3>3. ~stop /\ RoundOf[r] <= worker[w].round =>
            \/ run'[r] \in Over
            \/ task'[r] \in {"queued"} \cup Started /\ r \notin done
      BY <1>1, <1>2, <2>4, <2>5, <2>7, <3>1 DEF RoundAgrees, rows
    <3>4. idle /\ r \notin done => task'[r] = "none"
      BY <2>4, <2>8
    <3>5. "none" \notin {"queued"} \cup Started
      BY DEF Started, Answered, Evidenced
    <3> QED
      BY <2>2, <2>3, <3>2, <3>3, <3>4, <3>5 DEF RoundAgrees
  <2>10. \A r \in Run : ScanOf[r] = s /\ task'[r] # "none" => x.pc \in {"fill", "wait"}
    BY <2>2, <2>4, <2>8
  <2>11. GoesOn(w, x)
    BY <1>1, <1>2, <2>2, <2>3, <2>4, <2>5, <2>9, <2>10 DEF GoesOn, Executing
  <2> QED
    BY <2>2, <2>11, WorkerGoesOn
<1> QED
  BY <1>3, <1>4

LEMMA WorkerDiesKeeps ==
    ASSUME IInv, NEW w \in Worker, WorkerDies(w)
    PROVE  IInv'
<1>1. crashes' \in 0..MaxCrashes
  BY LifecycleAssumption DEF WorkerDies, IInv, TypeOK
<1> QED
  BY <1>1, WorkerLeaves DEF WorkerDies

-----------------------------------------------------------------------------
(* The task of a run *)

(* What a step on run r, whose task becomes x, does to that run. *)
StepAgrees(r, x) ==
    /\ run'[r] # "PLANNED" /\ calls'[r] <= 1
    /\ run'[r] = "PENDING" => calls'[r] = 0
    /\ r \in evidenced' => calls'[r] > 0
    /\ x = "scheduled" => run'[r] \in {"PENDING", "FAILED"} /\ calls'[r] = 0
    /\ x = "calling" \/ x \in Answered => run'[r] \in {"RUNNING", "FAILED"} /\ calls'[r] > 0
    /\ x \in {"calling", "answered_failure"} => r \notin evidenced'
    /\ x \in {"answered_ok", "answered_billed_failure"} => r \in evidenced'
    /\ x = "done" => run'[r] \in Over
    /\ run'[r] = "SUCCEEDED" => usage'[r] # NoRow
    /\ usage'[r] # NoRow =>
         /\ r \in evidenced' /\ run'[r] \in Over
         /\ usage'[r].key = ScanOf[r] /\ usage'[r].checks = 1
    /\ ~SlowWorkers =>
         /\ x = "calling" \/ x \in Answered => run'[r] = "RUNNING"
         /\ r \in evidenced' /\ run'[r] = "FAILED" => usage'[r] # NoRow

TaskMoves(r, x) ==
    /\ task[r] \in Started /\ x \in Started
    /\ Waiting(r)
    /\ task' = [task EXCEPT ![r] = x]
    /\ UNCHANGED <<scan, messages, request, worker, recovery>>
    /\ crashes' \in 0..MaxCrashes
    /\ run' \in [Run -> RunStatus] /\ calls' \in [Run -> Nat]
    /\ evidenced' \subseteq billed' /\ billed' \subseteq Run
    /\ Quota!TypeOK' /\ Dwindles
    /\ \A p \in Run \ {r} :
         /\ run'[p] = run[p] /\ calls'[p] = calls[p] /\ usage'[p] = usage[p]
         /\ p \in evidenced' <=> p \in evidenced
    /\ StepAgrees(r, x)

LEMMA TaskMovesKeeps ==
    ASSUME IInv, StaysFinal, NEW r \in Run, NEW x, TaskMoves(r, x)
    PROVE  IInv'
<1> USE LifecycleAssumption DEF IInv, TaskMoves
<1> DEFINE s == ScanOf[r]
<1>1. PICK w \in Worker : worker[w].pc = "wait" /\ worker[w].scan = s
  BY DEF Waiting
<1>2. /\ s \in Scan /\ Exists(s) /\ scan[s].attached /\ scan[s].status # "PENDING"
      /\ \A v \in Worker \ {w} : worker[v].scan # s
  BY <1>1, ExecutesAlone DEF Executing, WorkersPlaced, WorkerPlaced
<1>3. \A p \in Run : task'[p] = IF p = r THEN x ELSE task[p]
  BY DEF TypeOK
<1>4. "none" \notin Started /\ "queued" \notin Started /\ Started \subseteq TaskState
  BY DEF Started, Answered, Evidenced, TaskState
<1>5. TypeOK'
  BY <1>4 DEF TypeOK
<1>6. CreationAgrees' /\ OneCreator' /\ MessagesAgree'
  <2>1. \A q \in Request : request[q].pc \in Creating => Target[q] # s
    BY <1>2, AttachedNotCreating
  <2>2. \A q \in Request : request[q].pc \in Creating =>
          /\ scan'[Target[q]] = scan[Target[q]]
          /\ \A p \in Runs(Target[q]) : run'[p] = run[p]
    BY <2>1 DEF Runs
  <2> QED
    BY <2>2, RequestFrame DEF Exists
<1>7. WorkersPlaced' /\ WorkersApart'
  <2>1. \A v \in Worker : worker[v].pc # "idle" => worker[v].scan \in Scan
    BY DEF WorkersPlaced, WorkerPlaced, TypeOK, WorkerState
  <2>2. WorkersPlaced'
    BY <2>1 DEF WorkersPlaced, WorkerPlaced, Executing, Exists, Dwindles
  <2> QED
    BY <2>2 DEF WorkersApart
<1>8. TasksPlaced'
  BY <1>3, <1>4 DEF TasksPlaced
<1>9. TasksAgree'
  BY <1>3, <1>4 DEF TasksAgree, StepAgrees
<1>10. RunsAgree'
  BY <1>2 DEF RunsAgree, StepAgrees, Exists, HasStatus
<1>11. RoundsAgree'
  <2> SUFFICES ASSUME NEW v \in Worker, NEW p \in Run PROVE RoundAgrees(v, p)'
    BY DEF RoundsAgree
  <2>1. RoundAgrees(v, p)
    BY DEF RoundsAgree
  <2>2. run[p] \in Over => run'[p] \in Over
    BY DEF StaysFinal
  <2>3. CASE p = r
    BY <1>3, <1>4, <2>1, <2>2, <2>3 DEF RoundAgrees
  <2>4. CASE p # r
    BY <1>3, <2>1, <2>4 DEF RoundAgrees
  <2> QED
    BY <2>3, <2>4
<1>12. RoundsFollow'
  <2>1. \A p \in Run : task'[p] # "none" \/ calls'[p] > 0 => task[p] # "none" \/ calls[p] > 0
    BY <1>3, <1>4
  <2>2. \A p \in Run : run[p] \in Over => run'[p] \in Over
    BY DEF StaysFinal
  <2> QED
    BY <2>1, <2>2 DEF RoundsFollow
<1>13. CountsAgree'
  BY DEF CountsAgree, HasStatus, Exists
<1>14. RecoveryAgrees'
  BY RecoveryFrame DEF Exists
<1>15. RecoveryAlone'
  <2> SUFFICES ASSUME ~SlowWorkers
      PROVE /\ recovery.pc = "mark" =>
                 /\ \A v \in Worker : worker[v].scan # recovery.scan
                 /\ RunsIn(recovery.scan, "RUNNING")' = {}
            /\ \A p \in Run : task'[p] = "calling" \/ task'[p] \in Answered => run'[p] = "RUNNING"
            /\ EvidencedRunNotWrittenOff'
    BY DEF RecoveryAlone
  <2>1. recovery.pc = "mark" =>
          /\ \A v \in Worker : worker[v].scan # recovery.scan
          /\ RunsIn(recovery.scan, "RUNNING")' = {}
    BY <1>1 DEF RecoveryAlone, RunsIn, Runs
  <2>2. \A p \in Run : task'[p] = "calling" \/ task'[p] \in Answered => run'[p] = "RUNNING"
    BY <1>3 DEF RecoveryAlone, StepAgrees
  <2>3. EvidencedRunNotWrittenOff'
    BY DEF RecoveryAlone, EvidencedRunNotWrittenOff, StepAgrees
  <2> QED
    BY <2>1, <2>2, <2>3
<1>16. UsageIsEvidence'
  BY DEF UsageIsEvidence, StepAgrees, Over
<1>17. TerminalScanAccurate'
  BY AccurateFrame DEF HasStatus, Exists
<1>18. TerminalScanReleased'
  BY DEF TerminalScanReleased, HasStatus, Exists, Dwindles
<1> QED
  BY <1>5, <1>6, <1>7, <1>8, <1>9, <1>10, <1>11, <1>12, <1>13, <1>14, <1>15, <1>16, <1>17, <1>18

LEMMA TaskOnlyKeeps ==
    ASSUME IInv, StaysFinal, NEW r \in Run,
           NEW from \in {"scheduled", "answered_ok", "answered_billed_failure", "answered_failure"},
           NEW to \in {"done", "fatal"},
           Move(r, from, to),
           to = "done" => run[r] \in Over,
           UNCHANGED <<rows, quota, messages, request, worker, recovery, ghost>>,
           crashes' \in 0..MaxCrashes
    PROVE  IInv'
<1> USE DEF IInv
<1>1. from \in Started /\ to \in Started
  BY DEF Started, Answered, Evidenced
<1>2. StepAgrees(r, to)
  BY DEF StepAgrees, RunsAgree, TasksAgree, UsageIsEvidence, RecoveryAlone,
         EvidencedRunNotWrittenOff, Move, Answered, Evidenced, Over, rows, ghost, quota
<1>3. TaskMoves(r, to)
  BY <1>1, <1>2, QuotaSame DEF TaskMoves, Move, TypeOK, rows, ghost, quota
<1> QED
  BY <1>3, TaskMovesKeeps

LEMMA StartRunKeeps ==
    ASSUME IInv, StaysFinal, NEW r \in Run, StartRun(r)
    PROVE  IInv'
<1> USE DEF IInv
<1>1. /\ run[r] = "PENDING" /\ task[r] = "scheduled" /\ Waiting(r)
      /\ calls[r] = 0 /\ r \notin evidenced /\ usage[r] = NoRow
  BY DEF StartRun, Move, RunsAgree, UsageIsEvidence
<1>2. UNCHANGED <<scan, quota, billed, evidenced, messages, request, worker, recovery, crashes>>
  BY DEF StartRun, TaskOnly
<1>3. CASE /\ task' = [task EXCEPT ![r] = "calling"]
           /\ run' = [run EXCEPT ![r] = "RUNNING"]
           /\ calls' = [calls EXCEPT ![r] = @ + 1]
  <2>1. run'[r] = "RUNNING" /\ calls'[r] = 1 /\ usage' = usage /\ evidenced' = evidenced
    BY <1>1, <1>2, <1>3 DEF TypeOK, quota
  <2>2. StepAgrees(r, "calling")
    BY <1>1, <2>1 DEF StepAgrees, Over
  <2>3. TaskMoves(r, "calling")
    BY <1>1, <1>2, <1>3, <2>2, QuotaSame DEF TaskMoves, TypeOK, RunStatus, Started, quota
  <2> QED
    BY <2>3, TaskMovesKeeps
<1>4. CASE /\ task' = [task EXCEPT ![r] = "done"]
           /\ run' = [run EXCEPT ![r] = "FAILED"]
           /\ calls' = calls
  <2>1. run'[r] = "FAILED" /\ calls'[r] = 0 /\ usage' = usage /\ evidenced' = evidenced
    BY <1>1, <1>2, <1>4 DEF TypeOK, quota
  <2>2. StepAgrees(r, "done")
    BY <1>1, <2>1 DEF StepAgrees, Over, Answered, Evidenced
  <2>3. TaskMoves(r, "done")
    BY <1>1, <1>2, <1>4, <2>2, QuotaSame DEF TaskMoves, TypeOK, RunStatus, Started, quota
  <2> QED
    BY <2>3, TaskMovesKeeps
<1> QED
  BY <1>3, <1>4 DEF StartRun, Move

LEMMA ProviderAnswersKeeps ==
    ASSUME IInv, StaysFinal, NEW r \in Run, ProviderAnswers(r)
    PROVE  IInv'
<1> USE DEF IInv
<1>1. /\ task[r] = "calling" /\ Waiting(r)
      /\ UNCHANGED <<rows, quota, calls, messages, request, worker, recovery, crashes>>
  BY DEF ProviderAnswers, Move, TaskOnly
<1>2. PICK a \in Answered :
        /\ task' = [task EXCEPT ![r] = a]
        /\ evidenced' = IF a \in Evidenced THEN evidenced \cup {r} ELSE evidenced
        /\ billed' = billed \cup {r} \/ (billed' = billed /\ a \notin Evidenced)
  <2>1. CASE /\ \E a \in Answered :
                  /\ Move(r, "calling", a)
                  /\ evidenced' = IF a \in Evidenced THEN evidenced \cup {r} ELSE evidenced
             /\ billed' = billed \cup {r}
    BY <2>1 DEF Move
  <2>2. CASE Move(r, "calling", "answered_failure") /\ UNCHANGED <<billed, evidenced>>
    <3>1. "answered_failure" \in Answered /\ "answered_failure" \notin Evidenced
      BY DEF Answered, Evidenced
    <3> QED
      BY <2>2, <3>1 DEF Move
  <2> QED
    BY <2>1, <2>2 DEF ProviderAnswers
<1>3. /\ run[r] \in {"RUNNING", "FAILED"} /\ r \notin evidenced /\ usage[r] = NoRow
      /\ ~SlowWorkers => run[r] = "RUNNING"
      /\ calls[r] = 1
  <2>1. calls[r] \in Nat /\ calls[r] <= 1
    BY DEF RunsAgree, TypeOK
  <2>2. task[r] # "none" /\ r \notin evidenced /\ usage[r] = NoRow
    BY <1>1 DEF TasksAgree, UsageIsEvidence
  <2> QED
    BY <1>1, <2>1, <2>2 DEF TasksAgree, RecoveryAlone
<1>4. StepAgrees(r, a)
  BY <1>1, <1>2, <1>3 DEF StepAgrees, Over, Answered, Evidenced, rows, quota
<1>5. TaskMoves(r, a)
  BY <1>1, <1>2, <1>4, QuotaSame DEF TaskMoves, TypeOK, Started, rows, quota
<1> QED
  BY <1>5, TaskMovesKeeps

LEMMA RecordEvidenceKeeps ==
    ASSUME IInv, StaysFinal, NEW r \in Run, RecordEvidence(r)
    PROVE  IInv'
<1> USE LifecycleAssumption DEF IInv
<1> DEFINE e == [key |-> ScanOf[r], checks |-> 1]
<1>1. /\ task[r] \in {"answered_ok", "answered_billed_failure"} /\ Waiting(r)
      /\ task' = [task EXCEPT ![r] = "done"]
      /\ UNCHANGED <<scan, ghost, messages, request, worker, recovery, crashes>>
  BY DEF RecordEvidence, Move, TaskOnly
<1>2. PICK x \in Over : run' = [run EXCEPT ![r] = x]
  BY DEF RecordEvidence, Over
<1>3. /\ Quota!TypeOK' /\ Dwindles
      /\ usage' = [usage EXCEPT ![r] = e]
  BY CommitRows DEF RecordEvidence
<1>4. e \in Quota!UsageEvent /\ e # NoRow /\ e.key = ScanOf[r] /\ e.checks = 1
  BY RowAssumption DEF Quota!UsageEvent
<1> HIDE DEF e
<1>5. /\ usage'[r] = e
      /\ \A p \in Run \ {r} : usage'[p] = usage[p]
  BY <1>3 DEF TypeOK, Quota!TypeOK
<1>6. run'[r] = x /\ \A p \in Run \ {r} : run'[p] = run[p]
  BY <1>2 DEF TypeOK
<1>7. r \in evidenced /\ calls[r] <= 1 /\ calls[r] > 0 /\ evidenced' = evidenced /\ calls' = calls
  BY <1>1 DEF TasksAgree, RunsAgree, ghost
<1>8. StepAgrees(r, "done")
  BY <1>4, <1>5, <1>6, <1>7 DEF StepAgrees, Over, Answered, Evidenced
<1>9. TaskMoves(r, "done")
  BY <1>1, <1>2, <1>3, <1>5, <1>6, <1>7, <1>8
     DEF TaskMoves, TypeOK, RunStatus, Started, Answered, Evidenced, Over, ghost
<1> QED
  BY <1>9, TaskMovesKeeps

LEMMA RecordFailureKeeps ==
    ASSUME IInv, StaysFinal, NEW r \in Run, RecordFailure(r)
    PROVE  IInv'
<1> USE DEF IInv
<1>1. /\ task[r] = "answered_failure" /\ Waiting(r)
      /\ task' = [task EXCEPT ![r] = "done"]
      /\ run' = [run EXCEPT ![r] = IF run[r] = "RUNNING" THEN "FAILED" ELSE run[r]]
      /\ UNCHANGED <<scan, quota, ghost, messages, request, worker, recovery, crashes>>
  BY DEF RecordFailure, Move, TaskOnly
<1>2. run[r] \in {"RUNNING", "FAILED"} /\ r \notin evidenced /\ usage[r] = NoRow /\ calls[r] <= 1
  BY <1>1 DEF TasksAgree, RunsAgree, UsageIsEvidence, Answered, Evidenced
<1>3. run'[r] = "FAILED" /\ \A p \in Run \ {r} : run'[p] = run[p]
  BY <1>1, <1>2 DEF TypeOK
<1>4. StepAgrees(r, "done")
  BY <1>1, <1>2, <1>3 DEF StepAgrees, Over, Answered, Evidenced, ghost, quota
<1>5. TaskMoves(r, "done")
  BY <1>1, <1>3, <1>4, QuotaSame
     DEF TaskMoves, TypeOK, RunStatus, Started, Answered, Evidenced, ghost, quota
<1> QED
  BY <1>5, TaskMovesKeeps

(* Every step of a task. *)
LEMMA RunKeeps ==
    ASSUME IInv, StaysFinal, NEW r \in Run, RunStep(r) \/ DatabaseFails(r)
    PROVE  IInv'
<1> USE LifecycleAssumption DEF IInv
<1>1. CASE SkipRun(r)
  <2>1. Move(r, "scheduled", "done") /\ run[r] # "PENDING"
    BY <1>1 DEF SkipRun
  <2>2. run[r] \in Over
    BY <2>1 DEF Move, TasksAgree, Over
  <2> QED
    BY <1>1, <2>1, <2>2, TaskOnlyKeeps DEF SkipRun, TaskOnly, TypeOK
<1>2. CASE RecordRaises(r)
  BY <1>2, TaskOnlyKeeps DEF RecordRaises, TaskOnly, TypeOK
<1>3. CASE DatabaseFails(r)
  BY <1>3, TaskOnlyKeeps DEF DatabaseFails, TypeOK
<1> QED
  BY <1>1, <1>2, <1>3, StartRunKeeps, ProviderAnswersKeeps, RecordEvidenceKeeps,
     RecordFailureKeeps DEF RunStep

-----------------------------------------------------------------------------
(* Finalization and recovery *)

(* What finalizing, or failing to, does to the rows. *)
LEMMA FinalizeRows ==
    ASSUME IInv, StaysFinal, NEW s \in Scan, Exists(s), FinalizeScan(s) \/ FinalizeRefused(s)
    PROVE  /\ scan' \in [Scan -> ScanRow \cup {NoRow}]
           /\ \A k \in Scan \ {s} : scan'[k] = scan[k]
           /\ Exists(s)' /\ scan'[s].attached = scan[s].attached
           /\ \/ scan'[s].status = scan[s].status /\ scan'[s].ok = scan[s].ok
              \/ scan'[s].status \in Terminal
           /\ Quota!TypeOK' /\ Dwindles /\ usage' = usage
           /\ TerminalScanAccurate' /\ TerminalScanReleased'
<1> USE LifecycleAssumption DEF IInv
<1>1. run' = run
  BY DEF FinalizeScan, FinalizeRefused, rows
<1>2. CASE FinalizeRefused(s)
  <2>1. scan' = scan /\ quota' = quota
    BY <1>2 DEF FinalizeRefused, rows
  <2>2. TerminalScanAccurate'
    BY <2>1, AccurateFrame DEF HasStatus, Exists
  <2>3. TerminalScanReleased'
    BY <2>1 DEF TerminalScanReleased, HasStatus, Exists, quota, Quota!Active, Quota!Reserved
  <2> QED
    BY <2>1, <2>2, <2>3, QuotaSame DEF TypeOK, Exists
<1>3. CASE FinalizeScan(s)
  <2>1. ReleaseUnused(s)
    BY <1>3 DEF FinalizeScan
  <2>2. Quota!TypeOK' /\ Dwindles /\ usage' = usage
    BY <2>1, ReleaseRows, QuotaSame DEF ReleaseUnused
  <2>3. scan[s].attached => s \notin Quota!Active'
    <3>1. CASE scan[s].attached /\ s \in Quota!Active
      BY <2>1, <3>1, ReleaseRows DEF ReleaseUnused
    <3>2. CASE scan[s].attached /\ s \notin Quota!Active
      BY <2>2, <3>2 DEF Dwindles
    <3> QED
      BY <3>1, <3>2
  <2>4. /\ scan' \in [Scan -> ScanRow \cup {NoRow}]
        /\ \A k \in Scan \ {s} : scan'[k] = scan[k]
        /\ Exists(s)' /\ scan'[s].attached = scan[s].attached
        /\ scan'[s].status \in Terminal
        /\ HasStatus(s, Terminal) \/ AccurateAt(s)'
    <3>1. CASE scan[s].status \in Terminal /\ scan' = scan
      BY <3>1 DEF TypeOK, Exists, HasStatus
    <3>2. CASE SetScan(s, Classify(s)) /\ Unresolved(s) = {}
      <4>1. /\ scan' \in [Scan -> ScanRow \cup {NoRow}]
            /\ \A k \in Scan \ {s} : scan'[k] = scan[k]
            /\ Exists(s)' /\ scan'[s] = Classify(s)
        BY <3>2, SetScanRows, ClassifyRow
      <4>2. /\ Unresolved(s)' = {} /\ Planned(s)' = Planned(s)
            /\ RunsIn(s, "SUCCEEDED")' = RunsIn(s, "SUCCEEDED")
            /\ RunsIn(s, "FAILED")' = RunsIn(s, "FAILED")
        BY <1>1, <3>2 DEF Unresolved, Planned, RunsIn, Runs
      <4>3. Cardinality(RunsIn(s, "SUCCEEDED")) \in Nat
        <5>1. IsFiniteSet(RunsIn(s, "SUCCEEDED"))
          BY FS_Subset DEF RunsIn, Runs
        <5> QED
          BY <5>1, FS_CardinalityType
      <4>4. Planned(s) \in Nat \ {0}
        OBVIOUS
      <4>5. AccurateAt(s)'
        BY <4>1, <4>2, <4>3, <4>4, ClassifyRow DEF AccurateAt
      <4> QED
        BY <4>1, <4>5, ClassifyRow DEF Terminal
    <3> QED
      BY <1>3, <3>1, <3>2 DEF FinalizeScan
  <2>5. TerminalScanAccurate'
    <3>1. \A k \in Scan : HasStatus(k, Terminal)' => HasStatus(k, Terminal) \/ k = s
      BY <2>4 DEF HasStatus, Exists
    <3> QED
      BY <2>4, <3>1, AccurateKept DEF TerminalScanAccurate, AccurateAt
  <2>6. TerminalScanReleased'
    BY <2>2, <2>3, <2>4 DEF TerminalScanReleased, Dwindles, HasStatus, Exists
  <2> QED
    BY <2>2, <2>4, <2>5, <2>6
<1> QED
  BY <1>2, <1>3

(* Finalizing, by a worker that leaves the scan then or by recovery. *)
LEMMA FinalizeKeeps ==
    ASSUME IInv, StaysFinal, NEW s \in Scan, Exists(s),
           FinalizeScan(s) \/ FinalizeRefused(s),
           \A q \in Request : Target[q] = s => request[q].pc \notin Creating,
           worker' \in [Worker -> WorkerState],
           \A w \in Worker :
             \/ worker'[w] = worker[w]
             \/ worker[w].pc = "finalize" /\ worker'[w] = NoWorker,
           recovery' = recovery \/ recovery' = NoRecovery
    PROVE  IInv'
<1> USE LifecycleAssumption DEF IInv
<1>1. UNCHANGED <<run, messages, request, task, ghost, crashes>>
  BY DEF FinalizeScan, FinalizeRefused, rows
<1>2. /\ scan' \in [Scan -> ScanRow \cup {NoRow}]
      /\ \A k \in Scan \ {s} : scan'[k] = scan[k]
      /\ Exists(s)' /\ scan'[s].attached = scan[s].attached
      /\ \/ scan'[s].status = scan[s].status /\ scan'[s].ok = scan[s].ok
         \/ scan'[s].status \in Terminal
      /\ Quota!TypeOK' /\ Dwindles /\ usage' = usage
      /\ TerminalScanAccurate' /\ TerminalScanReleased'
  BY FinalizeRows
<1>3. \A k \in Scan :
        /\ Exists(k)' <=> Exists(k)
        /\ scan'[k].attached = scan[k].attached
        /\ scan'[k].status = "PENDING" => scan[k].status = "PENDING"
        /\ scan'[k].status \in {"PENDING", "RUNNING"} =>
             scan'[k].status = scan[k].status /\ scan'[k].ok = scan[k].ok
  BY <1>2 DEF Exists, Terminal
<1>4. TypeOK'
  BY <1>1, <1>2 DEF TypeOK, ghost, NoRecovery
<1>5. CreationAgrees' /\ OneCreator' /\ MessagesAgree'
  <2>1. \A q \in Request : request[q].pc \in Creating =>
          /\ scan'[Target[q]] = scan[Target[q]]
          /\ \A r \in Runs(Target[q]) : run'[r] = run[r]
    BY <1>1, <1>2
  <2> QED
    BY <1>1, <1>3, <2>1, RequestFrame
<1>6. WorkersPlaced'
  <2> SUFFICES ASSUME NEW w \in Worker PROVE WorkerPlaced(w)'
    BY DEF WorkersPlaced
  <2>1. CASE worker'[w] = NoWorker
    BY <2>1 DEF WorkerPlaced, NoWorker, Executing
  <2>2. CASE worker'[w] = worker[w]
    <3>1. WorkerPlaced(w) /\ (worker[w].pc # "idle" => worker[w].scan \in Scan)
      BY DEF WorkersPlaced, WorkerPlaced, TypeOK, WorkerState
    <3> QED
      BY <1>2, <1>3, <2>2, <3>1 DEF WorkerPlaced, Executing, Dwindles
  <2> QED
    BY <2>1, <2>2
<1>7. WorkersApart'
  BY DEF WorkersApart, WorkersPlaced, WorkerPlaced, NoWorker
<1>8. TasksPlaced'
  <2> SUFFICES ASSUME NEW r \in Run, task'[r] # "none"
      PROVE \E w \in Worker : worker'[w].pc \in {"fill", "wait"} /\ worker'[w].scan = ScanOf[r]
    BY DEF TasksPlaced
  <2>1. PICK w \in Worker : worker[w].pc \in {"fill", "wait"} /\ worker[w].scan = ScanOf[r]
    BY <1>1 DEF TasksPlaced
  <2> QED
    BY <2>1
<1>9. TasksAgree' /\ RoundsFollow' /\ UsageIsEvidence'
  BY <1>1, <1>2 DEF TasksAgree, RoundsFollow, UsageIsEvidence, ghost
<1>10. RunsAgree'
  BY <1>1, <1>3 DEF RunsAgree, HasStatus, ghost
<1>11. RoundsAgree'
  BY <1>1 DEF RoundsAgree, RoundAgrees, NoWorker, Executing, ghost
<1>12. CountsAgree'
  BY <1>3 DEF CountsAgree, HasStatus
<1>13. RecoveryAgrees'
  <2>1. CASE recovery' = recovery
    BY <1>1, <1>3, <2>1, RecoveryFrame
  <2>2. CASE recovery' = NoRecovery
    BY <2>2 DEF RecoveryAgrees, NoRecovery
  <2> QED
    BY <2>1, <2>2
<1>14. RecoveryAlone'
  <2>1. EvidencedRunNotWrittenOff => EvidencedRunNotWrittenOff'
    BY <1>1, <1>2 DEF EvidencedRunNotWrittenOff, ghost
  <2>2. \A r \in Run : task'[r] = task[r] /\ run'[r] = run[r]
    BY <1>1
  <2>3. recovery'.pc = "mark" =>
          /\ recovery' = recovery /\ recovery.scan \in Scan
          /\ RunsIn(recovery.scan, "RUNNING")' = RunsIn(recovery.scan, "RUNNING")
    BY <1>1 DEF NoRecovery, RecoveryAgrees, RunsIn, Runs
  <2>4. \A w \in Worker : worker'[w].scan \in {worker[w].scan, NoRow}
    BY DEF NoWorker
  <2> QED
    BY <2>1, <2>2, <2>3, <2>4, RowAssumption DEF RecoveryAlone
<1> QED
  BY <1>2, <1>4, <1>5, <1>6, <1>7, <1>8, <1>9, <1>10, <1>11, <1>12, <1>13, <1>14

LEMMA WorkerFinalizesKeeps ==
    ASSUME IInv, StaysFinal, NEW w \in Worker, WorkerFinalizes(w)
    PROVE  IInv'
<1> USE DEF IInv
<1>1. /\ worker[w].pc = "finalize"
      /\ worker' = [worker EXCEPT ![w] = NoWorker]
      /\ FinalizeScan(worker[w].scan) \/ FinalizeRefused(worker[w].scan)
      /\ recovery' = recovery
  BY DEF WorkerFinalizes
<1>2. /\ worker[w].scan \in Scan /\ Exists(worker[w].scan)
      /\ scan[worker[w].scan].attached
  BY <1>1 DEF WorkersPlaced, WorkerPlaced, TypeOK, WorkerState
<1>3. NoWorker \in WorkerState
  BY DEF NoWorker, WorkerState
<1>4. /\ worker' \in [Worker -> WorkerState]
      /\ \A v \in Worker :
           \/ worker'[v] = worker[v]
           \/ worker[v].pc = "finalize" /\ worker'[v] = NoWorker
  BY <1>1, <1>3 DEF TypeOK
<1> QED
  BY <1>1, <1>2, <1>4, AttachedNotCreating, FinalizeKeeps

(* Recovery looks at a scan, or gives up. *)
LEMMA RecoveryOnlyKeeps ==
    ASSUME IInv,
           recovery' = NoRecovery \/ \E s \in Scan : RecoveryChecks(s),
           crashes' \in 0..MaxCrashes,
           UNCHANGED <<rows, quota, messages, request, worker, task, ghost>>
    PROVE  IInv'
<1> USE LifecycleAssumption DEF IInv
<1>1. /\ recovery' \in [pc : {"idle", "mark", "finalize"}, scan : Scan \cup {NoRow}]
      /\ RecoveryAgrees' /\ RecoveryAlone'
  <2>1. EvidencedRunNotWrittenOff => EvidencedRunNotWrittenOff'
    BY DEF EvidencedRunNotWrittenOff, ghost, rows, quota
  <2>2. \A r \in Run : task'[r] = task[r] /\ run'[r] = run[r]
    BY DEF rows
  <2>3. CASE recovery' = NoRecovery
    BY <2>1, <2>2, <2>3 DEF NoRecovery, RecoveryAgrees, RecoveryAlone
  <2>4. ASSUME NEW s \in Scan, RecoveryChecks(s)
        PROVE  /\ recovery' = [pc |-> "mark", scan |-> s]
               /\ RecoveryAgrees' /\ RecoveryAlone'
    <3>1. /\ recovery' = [pc |-> "mark", scan |-> s]
          /\ Exists(s)
          /\ \A q \in Request : Target[q] = s => request[q].pc \notin Creating
          /\ ~SlowWorkers => \A w \in Worker : worker[w].scan # s
          /\ RunsIn(s, "RUNNING") = {}
      BY <2>4 DEF RecoveryChecks, Stale, HasStatus, Creating
    <3>2. recovery'.scan = s /\ RunsIn(s, "RUNNING")' = {} /\ Exists(s)'
      BY <3>1 DEF RunsIn, Runs, Exists, rows
    <3> QED
      BY <2>1, <2>2, <3>1, <3>2 DEF RecoveryAgrees, RecoveryAlone
  <2> QED
    BY <2>3, <2>4 DEF NoRecovery
<1>2. TypeOK'
  BY <1>1, QuotaSame DEF TypeOK, rows, ghost
<1>3. CreationAgrees' /\ OneCreator' /\ MessagesAgree'
  BY RequestFrame DEF rows, Exists
<1>4. /\ WorkersPlaced' /\ WorkersApart' /\ TasksPlaced' /\ TasksAgree'
      /\ RunsAgree' /\ RoundsAgree' /\ RoundsFollow' /\ CountsAgree'
      /\ UsageIsEvidence' /\ TerminalScanAccurate' /\ TerminalScanReleased'
  BY QuotaSame, WorkFrame DEF Dwindles, quota
<1> QED
  BY <1>1, <1>2, <1>3, <1>4

LEMMA RecoveryMarksKeeps ==
    ASSUME IInv, StaysFinal, RecoveryMarks
    PROVE  IInv'
<1> USE LifecycleAssumption DEF IInv
<1> DEFINE s == recovery.scan
<1>1. /\ recovery.pc = "mark"
      /\ recovery' = [recovery EXCEPT !.pc = "finalize"]
      /\ FailUnresolved(s)
      /\ UNCHANGED <<scan, quota, messages, request, worker, task, ghost, crashes>>
  BY DEF RecoveryMarks
<1>2. /\ s \in Scan /\ Exists(s)
      /\ \A q \in Request : Target[q] = s => request[q].pc \notin Creating
  BY <1>1 DEF RecoveryAgrees
<1>3. recovery'.pc = "finalize" /\ recovery'.scan = s
  BY <1>1 DEF TypeOK
<1>4. recovery' \in [pc : {"idle", "mark", "finalize"}, scan : Scan \cup {NoRow}]
  BY <1>1 DEF TypeOK
<1> HIDE DEF s
<1>5. /\ run' \in [Run -> RunStatus]
      /\ \A r \in Run : run'[r] = IF ScanOf[r] = s /\ run[r] \in {"PENDING", "RUNNING"}
                                  THEN "FAILED" ELSE run[r]
  BY <1>1, <1>2, FailUnresolvedRuns
<1>6. TypeOK'
  BY <1>1, <1>4, <1>5, QuotaSame DEF TypeOK, ghost
<1>7. CreationAgrees' /\ OneCreator' /\ MessagesAgree'
  <2>1. \A q \in Request : request[q].pc \in Creating =>
          /\ scan'[Target[q]] = scan[Target[q]]
          /\ \A r \in Runs(Target[q]) : run'[r] = run[r]
    BY <1>1, <1>2, <1>5 DEF Runs
  <2> QED
    BY <1>1, <2>1, RequestFrame DEF Exists
<1>8. WorkersPlaced' /\ WorkersApart' /\ TasksPlaced'
  BY <1>1 DEF WorkersPlaced, WorkerPlaced, WorkersApart, TasksPlaced, Exists, Usable, quota
<1>9. TasksAgree'
  BY <1>1, <1>5 DEF TasksAgree, Over, ghost
<1>10. RunsAgree'
  BY <1>1, <1>2, <1>5 DEF RunsAgree, HasStatus, Exists, ghost
<1>11. RoundsAgree'
  <2> SUFFICES ASSUME NEW w \in Worker, NEW r \in Run PROVE RoundAgrees(w, r)'
    BY DEF RoundsAgree
  <2>1. RoundAgrees(w, r)
    BY DEF RoundsAgree
  <2>2. run[r] \in Over => run'[r] \in Over
    BY DEF StaysFinal
  <2>3. run[r] \in {"PENDING", "FAILED"} => run'[r] \in {"PENDING", "FAILED"}
    BY <1>5
  <2> QED
    BY <1>1, <2>1, <2>2, <2>3 DEF RoundAgrees, ghost
<1>12. RoundsFollow'
  <2>1. \A p \in Run : run[p] \in Over => run'[p] \in Over
    BY DEF StaysFinal
  <2> QED
    BY <1>1, <2>1 DEF RoundsFollow, ghost
<1>13. CountsAgree'
  BY <1>1 DEF CountsAgree, HasStatus, Exists
<1>14. RecoveryAgrees'
  BY <1>1, <1>2, <1>3 DEF RecoveryAgrees, Exists
<1>15. RecoveryAlone'
  <2> SUFFICES ASSUME ~SlowWorkers
      PROVE /\ \A r \in Run : task'[r] = "calling" \/ task'[r] \in Answered => run'[r] = "RUNNING"
            /\ EvidencedRunNotWrittenOff'
    BY <1>3 DEF RecoveryAlone
  <2>1. /\ \A w \in Worker : worker[w].scan # s
        /\ RunsIn(s, "RUNNING") = {}
    BY <1>1 DEF RecoveryAlone, s
  <2>2. \A r \in Run : ScanOf[r] = s => task[r] = "none" /\ run[r] # "RUNNING"
    BY <2>1 DEF TasksPlaced, RunsIn, Runs
  <2>3. \A r \in Run : task'[r] = "calling" \/ task'[r] \in Answered => run'[r] = "RUNNING"
    BY <1>1, <1>5, <2>2 DEF RecoveryAlone, Answered, Evidenced
  <2>4. EvidencedRunNotWrittenOff'
    <3>1. \A r \in evidenced : run[r] # "PENDING"
      BY DEF RunsAgree, TypeOK
    <3> QED
      BY <1>1, <1>5, <2>2, <3>1 DEF RecoveryAlone, EvidencedRunNotWrittenOff, ghost, quota, TypeOK
  <2> QED
    BY <2>3, <2>4
<1>16. UsageIsEvidence'
  BY <1>1, <1>5 DEF UsageIsEvidence, ghost, quota
<1>17. TerminalScanAccurate'
  BY <1>1, AccurateFrame DEF HasStatus, Exists
<1>18. TerminalScanReleased'
  BY <1>1 DEF TerminalScanReleased, HasStatus, Exists, quota, Quota!Active, Quota!Reserved
<1> QED
  BY <1>6, <1>7, <1>8, <1>9, <1>10, <1>11, <1>12, <1>13, <1>14, <1>15, <1>16, <1>17, <1>18

(* Every step of recovery. *)
LEMMA RecoveryKeeps ==
    ASSUME IInv, StaysFinal, Recovery \/ RecoveryDies
    PROVE  IInv'
<1> USE LifecycleAssumption DEF IInv
<1>1. CASE RecoveryFinalizes
  <2>1. /\ recovery.scan \in Scan /\ Exists(recovery.scan)
        /\ \A q \in Request : Target[q] = recovery.scan => request[q].pc \notin Creating
        /\ FinalizeScan(recovery.scan) \/ FinalizeRefused(recovery.scan)
        /\ recovery' = NoRecovery /\ worker' = worker
    BY <1>1 DEF RecoveryFinalizes, RecoveryAgrees
  <2>2. worker' \in [Worker -> WorkerState]
    BY <2>1 DEF TypeOK
  <2> QED
    BY <2>1, <2>2, FinalizeKeeps
<1>2. CASE RecoveryDies
  BY <1>2, RecoveryOnlyKeeps DEF RecoveryDies, TypeOK
<1>3. CASE \E s \in Scan : RecoveryChecks(s)
  <2>1. /\ crashes' \in 0..MaxCrashes
        /\ UNCHANGED <<rows, quota, messages, request, worker, task, ghost>>
    BY <1>3 DEF RecoveryChecks, TypeOK
  <2> QED
    BY <1>3, <2>1, RecoveryOnlyKeeps
<1> QED
  BY <1>1, <1>2, <1>3, RecoveryMarksKeeps DEF Recovery

-----------------------------------------------------------------------------
(* The invariant holds *)

LEMMA IInvInit == Init => IInv
<1> SUFFICES ASSUME Init PROVE IInv
  OBVIOUS
<1> USE LifecycleAssumption DEF Init
<1>1. NoWorker \in WorkerState
  BY DEF NoWorker, WorkerState
<1>2. Quota!TypeOK
  BY DEF Quota!Init, Quota!TypeOK, Quota!Counters
<1>3. TypeOK
  BY <1>1, <1>2 DEF TypeOK, RunStatus, RequestState, Failure, TaskState, NoRecovery
<1>4. \A s \in Scan : ~Exists(s)
  BY DEF Exists
<1>5. CreationAgrees /\ OneCreator /\ MessagesAgree
  BY DEF CreationAgrees, OneCreator, MessagesAgree, Creating, Publishing
<1>6. WorkersPlaced /\ WorkersApart /\ TasksPlaced
  BY DEF WorkersPlaced, WorkerPlaced, WorkersApart, TasksPlaced, NoWorker, Executing
<1>7. TasksAgree /\ RoundsFollow
  BY DEF TasksAgree, RoundsFollow, Answered, Evidenced
<1>8. RunsAgree
  BY <1>4 DEF RunsAgree, HasStatus
<1>9. RoundsAgree
  BY DEF RoundsAgree, RoundAgrees, NoWorker, Executing
<1>10. CountsAgree /\ TerminalScanAccurate /\ TerminalScanReleased
  BY <1>4 DEF CountsAgree, TerminalScanAccurate, TerminalScanReleased, HasStatus
<1>11. RecoveryAgrees
  BY DEF RecoveryAgrees, NoRecovery
<1>12. RecoveryAlone
  BY DEF RecoveryAlone, NoRecovery, Answered, Evidenced, EvidencedRunNotWrittenOff
<1>13. UsageIsEvidence
  BY DEF UsageIsEvidence, Quota!Init
<1> QED
  BY <1>3, <1>5, <1>6, <1>7, <1>8, <1>9, <1>10, <1>11, <1>12, <1>13 DEF IInv

LEMMA IInvStep == IInv /\ [Next]_vars => IInv'
<1> SUFFICES ASSUME IInv, [Next]_vars PROVE IInv'
  OBVIOUS
<1>1. StaysFinal
  BY FinalStep
<1>2. ASSUME NEW q \in Request, RequestStep(q) \/ RequestDies(q) PROVE IInv'
  BY <1>1, <1>2, RequestKeeps
<1>3. ASSUME NEW s \in Scan, LoseMessage(s) PROVE IInv'
  <2>1. crashes' \in 0..MaxCrashes
    BY <1>3, LifecycleAssumption DEF LoseMessage, IInv, TypeOK
  <2> QED
    BY <1>3, <2>1, MessageTakenKeeps DEF LoseMessage
<1>4. ASSUME NEW s \in Scan, ExpireReservation(s) PROVE IInv'
  BY <1>4, ExpireReservationKeeps
<1>5. ASSUME NEW w \in Worker, WorkerStep(w) \/ WorkerDies(w) PROVE IInv'
  BY <1>1, <1>5, NextRoundKeeps, FillKeeps, CollectKeeps, WorkerFinalizesKeeps, WorkerDiesKeeps
     DEF WorkerStep
<1>6. ASSUME NEW w \in Worker, NEW s \in Scan, Deliver(w, s) PROVE IInv'
  BY <1>1, <1>6, DeliverKeeps
<1>7. ASSUME NEW r \in Run, RunStep(r) \/ DatabaseFails(r) PROVE IInv'
  BY <1>1, <1>7, RunKeeps
<1>8. CASE Recovery \/ RecoveryDies
  BY <1>1, <1>8, RecoveryKeeps
<1>9. CASE UNCHANGED vars
  <2>1. UNCHANGED <<rows, quota, messages, request, worker, task, recovery, ghost, crashes>>
    BY <1>9 DEF vars, procs
  <2>2. TypeOK'
    BY <2>1, QuotaSame DEF IInv, TypeOK, rows, ghost
  <2>3. CreationAgrees' /\ OneCreator' /\ MessagesAgree'
    BY <2>1, RequestFrame DEF rows, Exists
  <2>4. RecoveryAgrees' /\ RecoveryAlone'
    BY <2>1, RecoveryFrame, AloneFrame DEF rows, ghost, quota, Exists
  <2>5. /\ WorkersPlaced' /\ WorkersApart' /\ TasksPlaced' /\ TasksAgree'
        /\ RunsAgree' /\ RoundsAgree' /\ RoundsFollow' /\ CountsAgree'
        /\ UsageIsEvidence' /\ TerminalScanAccurate' /\ TerminalScanReleased'
    BY <2>1, QuotaSame, WorkFrame DEF IInv, Dwindles, quota
  <2> QED
    BY <2>2, <2>3, <2>4, <2>5 DEF IInv
<1> QED
  BY <1>2, <1>3, <1>4, <1>5, <1>6, <1>7, <1>8, <1>9 DEF Next

(* The inductive invariant holds in every reachable state. *)
THEOREM Invariant == Spec => []IInv
BY IInvInit, IInvStep, PTL DEF Spec

-----------------------------------------------------------------------------
(* What follows from it *)

(* Every variable keeps its type: every row, counter and process state of  *)
(* a scan's life is one the tables and the code know.                      *)
THEOREM TypeCorrect == Spec => []TypeOK
<1>1. IInv => TypeOK
  BY DEF IInv
<1> QED
  BY <1>1, Invariant, PTL

(* No PromptRun is sent to a provider twice, however often its scan is     *)
(* delivered, recovered or retried.                                        *)
THEOREM CalledAtMostOnce == Spec => []CallAtMostOnce
<1>1. IInv => CallAtMostOnce
  BY DEF IInv, RunsAgree, CallAtMostOnce
<1> QED
  BY <1>1, Invariant, PTL

(* A SUCCEEDED run has its usage event, and an event is the evidence of a  *)
(* call, billed and proven, of a run that is over.                         *)
THEOREM UsageProven == Spec => []UsageIsEvidence
<1>1. IInv => UsageIsEvidence
  BY DEF IInv
<1> QED
  BY <1>1, Invariant, PTL

(* The status and the counts of a terminal scan are those of its runs,     *)
(* whichever of its request, its workers and recovery finished it.         *)
THEOREM TerminalAccurate == Spec => []TerminalScanAccurate
<1>1. IInv => TerminalScanAccurate
  BY DEF IInv
<1> QED
  BY <1>1, Invariant, PTL

(* A terminal scan holds no active reservation it knows of. *)
THEOREM TerminalReleased == Spec => []TerminalScanReleased
<1>1. IInv => TerminalScanReleased
  BY DEF IInv
<1> QED
  BY <1>1, Invariant, PTL

(* No call of a later round before every run of the earlier ones is over. *)
THEOREM RoundsOrdered == Spec => []RoundsInOrder
<1>1. IInv => RoundsInOrder
  BY DEF IInv, RoundsFollow, RoundsInOrder, Over
<1> QED
  BY <1>1, Invariant, PTL

(* Unless a worker outlives the staleness limit, no run whose answer came  *)
(* with its evidence is written off, by recovery or by the worker.         *)
THEOREM EvidencedRunKept == ASSUME ~SlowWorkers PROVE Spec => []EvidencedRunNotWrittenOff
<1>1. IInv => EvidencedRunNotWrittenOff
  BY DEF IInv, RecoveryAlone
<1> QED
  BY <1>1, Invariant, PTL

(* Scans and runs that are terminal stay so, with their counts. *)
THEOREM TerminalForGood == Spec => TerminalIsFinal
<1>1. IInv /\ [Next]_vars =>
        [/\ \A s \in Scan :
              HasStatus(s, Terminal) =>
                /\ scan'[s].status = scan[s].status
                /\ scan'[s].ok = scan[s].ok
                /\ scan'[s].failed = scan[s].failed
         /\ \A r \in Run : run[r] \in {"SUCCEEDED", "FAILED"} => run'[r] = run[r]]_vars
  BY FinalStep DEF StaysFinal, Over
<1> QED
  BY <1>1, Invariant, PTL DEF Spec, TerminalIsFinal

(* A step starts no task of a scan whose worker has seen a fatal error. *)
LEMMA StopStep ==
    ASSUME IInv, [Next]_vars, NEW w \in Worker, NEW r \in Run,
           worker[w].stop, ScanOf[r] = worker[w].scan, task[r] \in {"none", "queued"}
    PROVE  task'[r] \in {"none", "queued"}
<1> USE DEF IInv
<1>1. worker[w].pc = "wait"
  BY DEF WorkersPlaced, WorkerPlaced
<1>2. \A v \in Worker \ {w} : worker[v].scan # ScanOf[r]
  BY <1>1, ExecutesAlone DEF Executing
<1>3. ASSUME NEW v \in Worker, WorkerStep(v) \/ WorkerDies(v) PROVE task'[r] \in {"none", "queued"}
  <2>1. CASE NextRound(v)
    BY <2>1 DEF NextRound, TypeOK
  <2>2. CASE Fill(v)
    <3>1. v # w /\ worker[v].scan # ScanOf[r]
      BY <1>1, <1>2, <2>2 DEF Fill
    <3>2. r \notin TasksIn(worker[v].scan, {"queued"})
      BY <3>1 DEF TasksIn, Runs
    <3>3. task'[r] = task[r]
      BY <2>2, <3>2 DEF Fill
    <3> QED
      BY <3>3
  <2>3. CASE Collect(v)
    BY <2>3 DEF Collect
  <2>4. CASE WorkerFinalizes(v)
    BY <2>4 DEF WorkerFinalizes, FinalizeScan, FinalizeRefused
  <2>5. CASE WorkerDies(v)
    BY <2>5 DEF WorkerDies
  <2> QED
    BY <1>3, <2>1, <2>2, <2>3, <2>4, <2>5 DEF WorkerStep
<1>4. ASSUME NEW p \in Run, RunStep(p) \/ DatabaseFails(p) PROVE task'[r] \in {"none", "queued"}
  <2>1. \E x : /\ task[p] \notin {"none", "queued"}
               /\ task' = [task EXCEPT ![p] = x]
    BY <1>4 DEF RunStep, DatabaseFails, StartRun, SkipRun, ProviderAnswers, RecordEvidence,
                RecordRaises, RecordFailure, Move
  <2> QED
    BY <2>1 DEF TypeOK
<1>5. ASSUME NEW q \in Request, RequestStep(q) \/ RequestDies(q) PROVE task' = task
  BY <1>5 DEF RequestStep, CreateScan, ReuseScan, ReserveQuota, QuotaExceeded, MarkQuotaFailed,
              AttachReservation, Dispatch, DispatchRaises, Publish, RecordDispatch,
              RecordDispatchFailure, RequestDies
<1>6. ASSUME NEW s \in Scan, LoseMessage(s) \/ ExpireReservation(s) PROVE task' = task
  BY <1>6 DEF LoseMessage, ExpireReservation, procs
<1>7. ASSUME NEW v \in Worker, NEW s \in Scan, Deliver(v, s) PROVE task' = task
  BY <1>7 DEF Deliver, ClaimRefused, ClaimRejected, ClaimScan
<1>8. CASE Recovery \/ RecoveryDies \/ UNCHANGED vars
  BY <1>8 DEF Recovery, RecoveryChecks, RecoveryMarks, RecoveryFinalizes, FinalizeScan,
              FinalizeRefused, RecoveryDies, vars, procs
<1> QED
  BY <1>3, <1>4, <1>5, <1>6, <1>7, <1>8 DEF Next

(* After a fatal error the loop creates no task. *)
THEOREM NothingAfterStop == Spec => NoTaskAfterStop
<1>1. IInv /\ [Next]_vars =>
        [\A w \in Worker, r \in Run :
           worker[w].stop /\ ScanOf[r] = worker[w].scan /\ task[r] \in {"none", "queued"}
              => task'[r] \in {"none", "queued"}]_vars
  BY StopStep
<1> QED
  BY <1>1, Invariant, PTL DEF Spec, NoTaskAfterStop

-----------------------------------------------------------------------------
(* What a step does to the quota tables *)

(* A scan reserves what it planned, and its runs commit one check each.    *)
QuotaMoves ==
    \/ quota' = quota
    \/ \E s \in Scan, p \in Quota!Period : Quota!Reserve(s, p, Planned(s))
    \/ \E r \in Run : Quota!Commit(ScanOf[r], 1, r)
    \/ \E s \in Scan : Quota!Release(s)
    \/ \E s \in Scan : Quota!Expire({s}, [p \in Quota!Period |-> s])

LEMMA QuotaStep == ASSUME IInv, [Next]_vars PROVE QuotaMoves
<1> USE LifecycleAssumption DEF IInv, QuotaMoves
<1>1. ASSUME NEW s \in Scan, ReleaseUnused(s) PROVE QuotaMoves
  BY <1>1 DEF ReleaseUnused
<1>2. ASSUME NEW q \in Request, RequestStep(q) \/ RequestDies(q) PROVE QuotaMoves
  <2>1. CASE ReserveQuota(q)
    <3>1. Target[q] \in Scan
      OBVIOUS
    <3> QED
      BY <2>1, <3>1 DEF ReserveQuota
  <2> QED
    BY <1>2, <2>1 DEF RequestStep, CreateScan, ReuseScan, QuotaExceeded, MarkQuotaFailed,
       AttachReservation, Dispatch, DispatchRaises, Publish, RecordDispatch,
       RecordDispatchFailure, RequestDies
<1>3. ASSUME NEW s \in Scan, LoseMessage(s) \/ ExpireReservation(s) PROVE QuotaMoves
  BY <1>3 DEF LoseMessage, ExpireReservation
<1>4. ASSUME NEW w \in Worker, WorkerStep(w) \/ WorkerDies(w) PROVE QuotaMoves
  <2>1. CASE WorkerFinalizes(w)
    <3>1. worker[w].scan \in Scan
      BY <2>1 DEF WorkerFinalizes, WorkersPlaced, WorkerPlaced, TypeOK, WorkerState
    <3>2. ReleaseUnused(worker[w].scan) \/ quota' = quota
      BY <2>1 DEF WorkerFinalizes, FinalizeScan, FinalizeRefused
    <3> QED
      BY <1>1, <3>1, <3>2
  <2> QED
    BY <1>4, <2>1 DEF WorkerStep, NextRound, Fill, Collect, WorkerOnly, WorkerDies
<1>5. ASSUME NEW w \in Worker, NEW s \in Scan, Deliver(w, s) PROVE quota' = quota
  BY <1>5 DEF Deliver, ClaimRefused, ClaimRejected, ClaimScan, Take
<1>6. ASSUME NEW r \in Run, RunStep(r) \/ DatabaseFails(r) PROVE QuotaMoves
  <2>1. CASE RecordEvidence(r)
    BY <2>1 DEF RecordEvidence
  <2> QED
    BY <1>6, <2>1 DEF RunStep, DatabaseFails, StartRun, SkipRun, ProviderAnswers, RecordRaises,
       RecordFailure
<1>7. CASE Recovery \/ RecoveryDies
  <2>1. CASE RecoveryFinalizes
    <3>1. recovery.scan \in Scan
      BY <2>1 DEF RecoveryFinalizes, RecoveryAgrees
    <3>2. ReleaseUnused(recovery.scan) \/ quota' = quota
      BY <2>1 DEF RecoveryFinalizes, FinalizeScan, FinalizeRefused
    <3> QED
      BY <1>1, <3>1, <3>2
  <2> QED
    BY <1>7, <2>1 DEF Recovery, RecoveryChecks, RecoveryMarks, RecoveryDies
<1>8. CASE UNCHANGED vars
  BY <1>8 DEF vars
<1> QED
  BY <1>2, <1>3, <1>4, <1>5, <1>6, <1>7, <1>8 DEF Next

(* All of them are operations of the ledger. *)
LEMMA LedgerStep == IInv /\ [Next]_vars => [Quota!Next]_(Quota!vars)
<1> SUFFICES ASSUME QuotaMoves PROVE Quota!Next \/ quota' = quota
  BY QuotaStep DEF quota, Quota!vars
<1> USE LifecycleAssumption
<1>1. ASSUME NEW s \in Scan, NEW p \in Quota!Period, Quota!Reserve(s, p, Planned(s))
      PROVE  Quota!Next
  BY <1>1 DEF Quota!Next, Quota!AppNext
<1>2. ASSUME NEW r \in Run, Quota!Commit(ScanOf[r], 1, r) PROVE Quota!Next
  <2>1. ScanOf[r] \in Scan /\ 1 \in 1..MaxChecks
    OBVIOUS
  <2> QED
    BY <1>2, <2>1 DEF Quota!Next, Quota!AppNext
<1>3. ASSUME NEW s \in Scan, Quota!Release(s) PROVE Quota!Next
  BY <1>3 DEF Quota!Next, Quota!AppNext
<1>4. ASSUME NEW s \in Scan, Quota!Expire({s}, [p \in Quota!Period |-> s]) PROVE Quota!Next
  <2>1. {s} \in SUBSET Scan /\ [p \in Quota!Period |-> s] \in [Quota!Period -> Scan]
    OBVIOUS
  <2> QED
    BY <1>4, <2>1 DEF Quota!Next
<1> QED
  BY <1>1, <1>2, <1>3, <1>4 DEF QuotaMoves

(* The reservation of a scan holds a check for each of its runs. *)
ReservedAsPlanned ==
    \A s \in Scan : resv[s] # NoRow => resv[s].reserved = Planned(s)

LEMMA ReservedStep == IInv /\ ReservedAsPlanned /\ [Next]_vars => ReservedAsPlanned'
<1> SUFFICES ASSUME IInv, ReservedAsPlanned, QuotaMoves PROVE ReservedAsPlanned'
  BY QuotaStep
<1>1. resv \in [Scan -> Quota!Reservation \cup {NoRow}]
  BY DEF IInv, TypeOK, Quota!TypeOK
<1>2. CASE quota' = quota
  BY <1>2 DEF ReservedAsPlanned, quota
<1>3. ASSUME NEW s \in Scan, NEW p \in Quota!Period, Quota!Reserve(s, p, Planned(s))
      PROVE  ReservedAsPlanned'
  BY <1>1, <1>3 DEF ReservedAsPlanned, Quota!Reserve, Quota!NewReservation
<1>4. ASSUME NEW r \in Run, Quota!Commit(ScanOf[r], 1, r) PROVE ReservedAsPlanned'
  BY <1>1, <1>4, LifecycleAssumption
     DEF ReservedAsPlanned, Quota!Commit, Quota!Settle, Quota!Consume, Quota!Reservation
<1>5. ASSUME NEW s \in Scan, Quota!Release(s) PROVE ReservedAsPlanned'
  BY <1>1, <1>5 DEF ReservedAsPlanned, Quota!Release, Quota!Refund, Quota!GiveBack,
                    Quota!Active, Quota!Reserved, Quota!Reservation
<1>6. ASSUME NEW s \in Scan, Quota!Expire({s}, [p \in Quota!Period |-> s])
      PROVE  ReservedAsPlanned'
  BY <1>1, <1>6 DEF ReservedAsPlanned, Quota!Expire, Quota!Lapse, Quota!Active,
                    Quota!Reserved, Quota!Reservation
<1> QED
  BY <1>2, <1>3, <1>4, <1>5, <1>6 DEF QuotaMoves

(* Each scan has a run, so there are finitely many. *)
LEMMA ScansFinite == IsFiniteSet(Scan)
<1> DEFINE f == [r \in Run |-> ScanOf[r]]
<1>1. f \in [Run -> Scan]
  BY LifecycleAssumption
<1>2. \A s \in Scan : \E r \in Run : f[r] = s
  <2> SUFFICES ASSUME NEW s \in Scan, \A r \in Run : ScanOf[r] # s PROVE FALSE
    OBVIOUS
  <2>1. Runs(s) = {}
    BY DEF Runs
  <2>2. Planned(s) = 0
    BY <2>1, FS_EmptySet DEF Planned
  <2> QED
    BY <2>2, LifecycleAssumption
<1>3. f \in Surjection(Run, Scan)
  BY <1>1, <1>2, Zenon DEF Surjection
<1> QED
  BY <1>3, LifecycleAssumption, FS_Surjection

-----------------------------------------------------------------------------
(* What the ledger guarantees, the scans do *)

QuotaP == INSTANCE QuotaLedgerProofs WITH Key <- Scan, UsageKey <- Run

(* What was proved of QuotaLedger was proved of the ledger the scans use.  *)
LEMMA QuotaIsProved ==
    /\ QuotaP!LedgerAssumption /\ QuotaP!NoRowAssumption
    /\ QuotaP!Init = Quota!Init
    /\ QuotaP!Next = Quota!Next
    /\ QuotaP!NoOversell = Quota!NoOversell
    /\ QuotaP!UsedExact = Quota!UsedExact
    /\ QuotaP!HeldCovered = Quota!HeldCovered
    /\ QuotaP!EventsMatch = Quota!EventsMatch
    /\ QuotaP!StatusMatchesChecks = Quota!StatusMatchesChecks
<1> USE DEF QuotaP!Period, Quota!Period, QuotaP!Status, Quota!Status,
       QuotaP!Counters, Quota!Counters, QuotaP!Reservation, Quota!Reservation,
       QuotaP!UsageEvent, Quota!UsageEvent, QuotaP!Remaining, Quota!Remaining,
       QuotaP!Reserved, Quota!Reserved, QuotaP!Active, Quota!Active,
       QuotaP!NewReservation, Quota!NewReservation, QuotaP!Consume, Quota!Consume,
       QuotaP!GiveBack, Quota!GiveBack, QuotaP!Debit, Quota!Debit,
       QuotaP!Transfer, Quota!Transfer, QuotaP!Credit, Quota!Credit,
       QuotaP!GrantPlan, Quota!GrantPlan, QuotaP!Reserve, Quota!Reserve,
       QuotaP!Settle, Quota!Settle, QuotaP!Commit, Quota!Commit,
       QuotaP!Refund, Quota!Refund, QuotaP!Release, Quota!Release,
       QuotaP!Periods, Quota!Periods, QuotaP!Lapse, Quota!Lapse,
       QuotaP!Expire, Quota!Expire, QuotaP!AppNext, Quota!AppNext,
       QuotaP!CommittedChecks, Quota!CommittedChecks,
       QuotaP!HeldChecks, Quota!HeldChecks, QuotaP!EventChecks, Quota!EventChecks,
       QuotaP!Cardinality, Quota!Cardinality, QuotaP!IsFiniteSet, Quota!IsFiniteSet
<1>1. QuotaP!LedgerAssumption /\ QuotaP!NoRowAssumption
  <2>1. QuotaP!LedgerAssumption
    BY ScansFinite, LifecycleAssumption DEF QuotaP!LedgerAssumption, IsFiniteSet
  <2>2. QuotaP!NoRowAssumption
    BY RowAssumption DEF QuotaP!NoRowAssumption
  <2> QED
    BY <2>1, <2>2
<1>2. QuotaP!Init = Quota!Init
  BY DEF QuotaP!Init, Quota!Init
<1>3. QuotaP!Next = Quota!Next
  BY DEF QuotaP!Next, Quota!Next
<1>4. /\ QuotaP!NoOversell = Quota!NoOversell
      /\ QuotaP!UsedExact = Quota!UsedExact
      /\ QuotaP!HeldCovered = Quota!HeldCovered
      /\ QuotaP!EventsMatch = Quota!EventsMatch
      /\ QuotaP!StatusMatchesChecks = Quota!StatusMatchesChecks
  BY DEF QuotaP!NoOversell, Quota!NoOversell, QuotaP!UsedExact, Quota!UsedExact,
         QuotaP!HeldCovered, Quota!HeldCovered, QuotaP!EventsMatch, Quota!EventsMatch,
         QuotaP!StatusMatchesChecks, Quota!StatusMatchesChecks
<1> QED
  BY <1>1, <1>2, <1>3, <1>4

(* Whatever happens to requests, workers, messages and recovery, the scans *)
(* take no more of a period than its plan had, a period's used checks are  *)
(* those its scans committed, what they still hold is held back, and each  *)
(* used check has the usage event of a run.                                *)
THEOREM ScansKeepBooks ==
    Spec => []/\ Quota!NoOversell
              /\ Quota!UsedExact
              /\ Quota!HeldCovered
              /\ Quota!EventsMatch
              /\ Quota!StatusMatchesChecks
<1>1. Init => QuotaP!Init
  BY QuotaIsProved DEF Init
<1>2. IInv /\ [Next]_vars => [QuotaP!Next]_(QuotaP!vars)
  BY QuotaIsProved, LedgerStep DEF QuotaP!vars, Quota!vars
<1>3. /\ QuotaP!NoOversell /\ QuotaP!UsedExact
      /\ QuotaP!HeldCovered /\ QuotaP!EventsMatch /\ QuotaP!StatusMatchesChecks
      => /\ Quota!NoOversell /\ Quota!UsedExact
         /\ Quota!HeldCovered /\ Quota!EventsMatch /\ Quota!StatusMatchesChecks
  BY QuotaIsProved
<1>4. QuotaP!LedgerAssumption /\ QuotaP!NoRowAssumption
  BY QuotaIsProved
<1>5. QuotaP!Spec => []QuotaP!NoOversell
  BY <1>4, QuotaP!NothingOversold, PTL
<1>6. QuotaP!Spec => []QuotaP!UsedExact
  BY <1>4, QuotaP!UsedIsExact, PTL
<1>7. QuotaP!Spec => []QuotaP!HeldCovered
  BY <1>4, QuotaP!HeldIsCovered, PTL
<1>8. QuotaP!Spec => []QuotaP!EventsMatch
  BY <1>4, QuotaP!EventsAddUp, PTL
<1>9. QuotaP!Spec => []QuotaP!StatusMatchesChecks
  BY <1>4, QuotaP!StatusCorrect, PTL
<1> QED
  BY Invariant, <1>1, <1>2, <1>3, <1>5, <1>6, <1>7, <1>8, <1>9, PTL DEF Spec, QuotaP!Spec

(* An event is one check: there are as many of a scan as recorded runs.    *)
LEMMA RecordedEvents ==
    ASSUME TypeOK, UsageIsEvidence, NEW s \in Scan
    PROVE  Cardinality(Quota!EventChecks(s)) = Cardinality(Recorded(s))
<1> USE LifecycleAssumption
<1>1. Quota!EventChecks(s) = Recorded(s) \X {1}
  <2>1. \A r \in Run : usage[r] # NoRow => usage[r].key = ScanOf[r] /\ usage[r].checks = 1
    BY DEF UsageIsEvidence
  <2>2. \A n \in 1..MaxChecks : n <= 1 <=> n = 1
    OBVIOUS
  <2>3. 1 \in 1..MaxChecks
    OBVIOUS
  <2>4. \A c \in Run \X (1..MaxChecks) :
          c \in Quota!EventChecks(s) <=> usage[c[1]] # NoRow /\ ScanOf[c[1]] = s /\ c[2] = 1
    BY <2>1, <2>2 DEF Quota!EventChecks
  <2> QED
    BY <2>3, <2>4 DEF Quota!EventChecks, Recorded, Runs
<1>2. IsFiniteSet(Recorded(s)) /\ Cardinality(Recorded(s)) \in Nat
  BY FS_Subset, FS_CardinalityType DEF Recorded, Runs
<1>3. IsFiniteSet({1}) /\ Cardinality({1}) = 1
  BY FS_Singleton
<1>4. Cardinality(Recorded(s) \X {1}) = Cardinality(Recorded(s)) * 1
  BY <1>2, <1>3, FS_Product
<1> QED
  BY <1>1, <1>2, <1>4

(* The checks a scan is charged are its recorded answers, which cover its  *)
(* successes; a COMPLETED scan has used its reservation up.                *)
LEMMA ChargesFollow ==
    ASSUME IInv, ReservedAsPlanned, Quota!EventsMatch, Quota!StatusMatchesChecks
    PROVE  ChargeMatchesRuns
<1> USE LifecycleAssumption DEF IInv
<1> SUFFICES ASSUME NEW s \in Scan
             PROVE  /\ Cardinality(Recorded(s)) = IF resv[s] = NoRow THEN 0 ELSE resv[s].committed
                    /\ HasStatus(s, Terminal) => scan[s].ok <= Cardinality(Recorded(s))
                    /\ HasStatus(s, {"COMPLETED"}) =>
                         resv[s] # NoRow /\ resv[s].status = "COMMITTED"
  BY DEF ChargeMatchesRuns
<1>1. Cardinality(Recorded(s)) = IF resv[s] = NoRow THEN 0 ELSE resv[s].committed
  BY RecordedEvents DEF Quota!EventsMatch, Quota!Cardinality, Cardinality
<1>2. RunsIn(s, "SUCCEEDED") \subseteq Recorded(s) /\ Recorded(s) \subseteq Runs(s)
  BY DEF RunsIn, Recorded, UsageIsEvidence, Runs
<1>3. IsFiniteSet(Runs(s)) /\ IsFiniteSet(Recorded(s))
  BY FS_Subset DEF Recorded, Runs
<1>4. /\ Cardinality(RunsIn(s, "SUCCEEDED")) <= Cardinality(Recorded(s))
      /\ Cardinality(Recorded(s)) <= Planned(s)
  BY <1>2, <1>3, FS_Subset DEF Planned
<1>5. HasStatus(s, Terminal) => scan[s].ok <= Cardinality(Recorded(s))
  BY <1>4 DEF TerminalScanAccurate
<1>6. ASSUME HasStatus(s, {"COMPLETED"}) PROVE resv[s] # NoRow /\ resv[s].status = "COMMITTED"
  <2>1. Cardinality(RunsIn(s, "SUCCEEDED")) = Planned(s)
    BY <1>6 DEF TerminalScanAccurate, HasStatus, Terminal
  <2>2. Cardinality(Recorded(s)) = Planned(s) /\ Planned(s) \in Nat \ {0}
    BY <1>3, <1>4, <2>1, FS_CardinalityType
  <2>3. resv[s] # NoRow /\ resv[s].committed = resv[s].reserved
    BY <1>1, <2>2 DEF ReservedAsPlanned
  <2>4. resv[s] \in Quota!Reservation
    BY <2>3 DEF TypeOK, Quota!TypeOK
  <2>5. Quota!Remaining(resv[s]) = 0
    BY <2>3, <2>4 DEF Quota!Remaining, Quota!Reservation
  <2> QED
    BY <2>3, <2>5 DEF Quota!StatusMatchesChecks, Quota!Reserved
<1> QED
  BY <1>1, <1>5, <1>6

(* What the customer of a scan is charged is what its runs show. *)
THEOREM ChargesMatch == Spec => []ChargeMatchesRuns
<1>1. Init => ReservedAsPlanned
  BY DEF Init, Quota!Init, ReservedAsPlanned
<1>2. Spec => []ReservedAsPlanned
  BY <1>1, ReservedStep, Invariant, PTL DEF Spec
<1>3. IInv /\ ReservedAsPlanned /\ Quota!EventsMatch /\ Quota!StatusMatchesChecks
      => ChargeMatchesRuns
  BY ChargesFollow
<1> QED
  BY Invariant, ScansKeepBooks, <1>2, <1>3, PTL
=============================================================================
