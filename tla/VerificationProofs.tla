------------------------- MODULE VerificationProofs -------------------------
(***************************************************************************)
(* Proofs about Verification, for any number of opportunities, keys,       *)
(* requests and evaluations.                                               *)
(*                                                                         *)
(* A running scan keeps its verification PENDING, and the unique index     *)
(* keeps one PENDING verification per opportunity and baseline.  A request *)
(* writes only to verifications whose scan FAILED; an evaluation holds the *)
(* row it decides about, and what it decided follows from the analysis,    *)
(* which is final once it is a verdict.                                    *)
(***************************************************************************)
EXTENDS Verification, FiniteSetTheorems, TLAPS

Ended(k) == scan[k] \in {"collected", "FAILED"}

(* What the tables say of a verification, its scan and its analysis. *)
RowsAgree ==
    \A k \in Key :
        /\ ver[k] = None <=> scan[k] = "none"
        /\ ScanActive(k) => Pending(k)
        /\ analysis[k] \in Verdict => scan[k] = "collected"
        /\ Measured(k) => analysis[k] \in Verdict /\ ver[k].outcome = analysis[k]

(* The partial unique index. *)
OnePending ==
    \A k1, k2 \in Key :
        /\ Pending(k1) /\ Pending(k2)
        /\ ver[k1].o = ver[k2].o /\ ver[k1].baseline = ver[k2].baseline
        => k1 = k2

Creates(q) == q.pc \in {"reserve", "quota"}

(* What a request may rely on at each point of its way. *)
Sound(q) ==
    /\ q.pc # "idle" => q.k \in Key /\ q.o \in Opp
    /\ q.pc \in {"check", "terminalize", "insert"} => q.baseline # 0
    /\ q.pc = "terminalize" =>
          q.old \in Key /\ ver[q.old] # None /\ scan[q.old] = "FAILED"
    /\ Creates(q) => ver[q.k] # None
    /\ q.pc = "reserve" => scan[q.k] = "planned"
    /\ q.pc = "quota" => scan[q.k] = "FAILED"

RequestsAgree == \A r \in Requester : Sound(req[r])

OneCreator ==
    \A r1, r2 \in Requester :
        Creates(req[r1]) /\ Creates(req[r2]) /\ req[r1].k = req[r2].k => r1 = r2

(* The hook of a scan runs after the scan ended, and analyses what was     *)
(* collected.                                                              *)
HooksAgree ==
    \A k \in Key :
        /\ judge[k].pc # "idle" => judge[k].k = k /\ Ended(k) /\ ver[k] # None
        /\ judge[k].pc \in {"post", "insert"} => scan[k] = "collected"

(* An evaluation that decided holds the row it decided about, and its      *)
(* decision is the verdict of the analysis, or there was none.             *)
Justified(j, k) ==
    /\ k \in Key /\ verLock[k] = j /\ Ended(k) /\ ver[k] # None
    /\ \/ /\ judge[j].why = None /\ scan[k] = "collected"
          /\ analysis[k] \in Verdict /\ judge[j].outcome = analysis[k]
       \/ judge[j].why # None /\ judge[j].outcome = "INCONCLUSIVE" /\ ~Measured(k)

DecisionsAgree ==
    \A j \in Judge : judge[j].pc = "decide" => Justified(j, judge[j].k)

IInv ==
    /\ TypeOK /\ RowsAgree /\ OnePending /\ RequestsAgree /\ OneCreator
    /\ HooksAgree /\ DecisionsAgree

-----------------------------------------------------------------------------
(* Rows, requests and evaluations as records *)

(* A verdict is an outcome, and not one of the markers of an analysis. *)
LEMMA Verdicts ==
    ASSUME VerificationAssumption
    PROVE  /\ Verdict \subseteq Outcome
           /\ "PENDING" \notin Verdict /\ "FAILED" \notin Verdict /\ "none" \notin Verdict
           /\ None \notin Verdict /\ None # "INCONCLUSIVE" /\ None # "PENDING"
BY DEF VerificationAssumption, Outcome

(* The states of a request are of its type. *)
LEMMA NoRequestType == VerificationAssumption => NoRequest \in Request
BY DEF VerificationAssumption, Request, RequestPc, NoRequest

LEMMA RequestTypes ==
    ASSUME NEW q \in Request, NEW pc \in RequestPc, NEW k \in Key, NEW o \in Opp
    PROVE  /\ [q EXCEPT !.pc = pc] \in Request
           /\ [q EXCEPT !.pc = pc, !.old = k] \in Request
           /\ [q EXCEPT !.pc = pc, !.k = k, !.o = o] \in Request
BY DEF Request

(* So are those of an evaluation. *)
LEMMA JudgingTypes ==
    ASSUME VerificationAssumption, NEW e \in Judging, NEW pc \in JudgePc, NEW k \in Key
    PROVE  /\ Idle \in Judging
           /\ [Idle EXCEPT !.pc = pc, !.k = k] \in Judging
           /\ [e EXCEPT !.pc = pc] \in Judging
           /\ [e EXCEPT !.seen = "PENDING", !.pc = pc] \in Judging
BY DEF VerificationAssumption, Judging, JudgePc, Idle, Reason, Answer

(* Releasing what p holds leaves the other locks alone. *)
LEMMA UnlockTypes ==
    ASSUME NEW D, NEW P, NEW lock \in [D -> P \cup {None}], NEW p
    PROVE  /\ Unlock(lock, p) \in [D -> P \cup {None}]
           /\ \A x \in D : lock[x] # p => Unlock(lock, p)[x] = lock[x]
BY DEF Unlock

(* Writing an outcome and its reason to the row of k. *)
Settled(k, outcome, why) == [ver EXCEPT ![k].outcome = outcome, ![k].reason = why]

LEMMA SettledRow ==
    ASSUME TypeOK, VerificationAssumption, NEW k \in Key, ver[k] # None,
           NEW outcome \in Outcome, NEW why \in Reason
    PROVE  LET new == Settled(k, outcome, why) IN
           /\ new \in [Key -> VerificationRow \cup {None}]
           /\ \A i \in Key : i # k => new[i] = ver[i]
           /\ new[k] # None /\ new[k].o = ver[k].o /\ new[k].baseline = ver[k].baseline
           /\ new[k].outcome = outcome /\ new[k].reason = why
<1>1. ver[k] \in VerificationRow
  BY DEF TypeOK
<1> DEFINE row == [ver[k] EXCEPT !.outcome = outcome, !.reason = why]
<1>2. row \in VerificationRow /\ row.o = ver[k].o /\ row.baseline = ver[k].baseline
      /\ row.outcome = outcome /\ row.reason = why
  BY <1>1 DEF VerificationRow
<1>3. Settled(k, outcome, why) = [ver EXCEPT ![k] = row]
  BY DEF Settled, TypeOK
<1> HIDE DEF row
<1> QED
  BY <1>2, <1>3 DEF TypeOK, VerificationAssumption

(* An outcome that agrees with the scan and the analysis keeps the tables  *)
(* in agreement.                                                           *)
LEMMA SettleKeepsRows ==
    ASSUME VerificationAssumption, IInv, NEW k \in Key, ver[k] # None, Ended(k),
           NEW outcome \in Outcome \ {"PENDING"}, NEW why \in Reason,
           why = None => analysis[k] \in Verdict /\ outcome = analysis[k],
           ver' = Settled(k, outcome, why), UNCHANGED <<scan, analysis>>
    PROVE  RowsAgree' /\ OnePending'
<1>1. /\ \A i \in Key : i # k => ver'[i] = ver[i]
      /\ ver'[k] # None /\ ver'[k].outcome = outcome /\ ver'[k].reason = why
  BY SettledRow DEF IInv
<1> USE DEF IInv, Pending, Measured, ScanActive, Ended
<1>2. RowsAgree'
  BY <1>1 DEF RowsAgree
<1>3. OnePending'
  BY <1>1 DEF OnePending
<1> QED
  BY <1>2, <1>3

(* What a settled row does not disturb: the requests, and the other rows.  *)
LEMMA SettleKeepsOthers ==
    ASSUME VerificationAssumption, IInv, NEW k \in Key, ver[k] # None, Ended(k),
           NEW outcome \in Outcome \ {"PENDING"}, NEW why \in Reason,
           ver' = Settled(k, outcome, why), UNCHANGED <<scan, analysis>>
    PROVE  /\ UNCHANGED req => RequestsAgree' /\ OneCreator'
           /\ \A i \in Key : (ver'[i] = None) <=> (ver[i] = None)
           /\ \A i \in Key : i # k => (Measured(i)' <=> Measured(i))
<1>1. /\ \A i \in Key : i # k => ver'[i] = ver[i]
      /\ ver'[k] # None
  BY SettledRow DEF IInv
<1> USE DEF IInv
<1>2. \A i \in Key : i # k => (Measured(i)' <=> Measured(i))
  BY <1>1 DEF Measured
<1>3. UNCHANGED req => RequestsAgree' /\ OneCreator'
  BY <1>1 DEF RequestsAgree, OneCreator, Sound, Creates
<1> QED
  BY <1>1, <1>2, <1>3

(* A row that is settled unlocked is not one somebody decides about. *)
LEMMA SettleKeepsJudges ==
    ASSUME VerificationAssumption, IInv, NEW k \in Key, ver[k] # None, Ended(k),
           verLock[k] = None,
           NEW outcome \in Outcome \ {"PENDING"}, NEW why \in Reason,
           ver' = Settled(k, outcome, why), UNCHANGED <<scan, analysis, verLock>>,
           NEW busy \in SUBSET Judge, \A j \in busy : judge'[j] = judge[j],
           \A j \in Judge \ busy : judge'[j].pc = "idle"
    PROVE  HooksAgree' /\ DecisionsAgree'
<1>1. /\ \A i \in Key : (ver'[i] = None) <=> (ver[i] = None)
      /\ \A i \in Key : i # k => (Measured(i)' <=> Measured(i))
  BY SettleKeepsOthers
<1>2. HooksAgree'
  BY <1>1 DEF IInv, HooksAgree, Ended, Judge
<1>3. ASSUME NEW j \in Judge, judge'[j].pc = "decide" PROVE Justified(j, judge[j].k)'
  <2>1. judge'[j] = judge[j]
    BY <1>3
  <2>2. Justified(j, judge[j].k) /\ judge[j].k # k
    BY <1>3, <2>1 DEF IInv, DecisionsAgree, Justified, VerificationAssumption, Judge
  <2> QED
    BY <1>1, <2>1, <2>2 DEF Justified, Ended
<1> QED
  BY <1>2, <1>3 DEF DecisionsAgree

-----------------------------------------------------------------------------
(* Frames *)

(* Who leaves verifications, scans and analyses alone. *)
LEMMA RowsFrame ==
    ASSUME IInv, UNCHANGED <<ver, scan, analysis>>
    PROVE  RowsAgree' /\ OnePending'
BY DEF IInv, RowsAgree, OnePending, ScanActive, Pending, Measured

(* Who leaves the evaluations and the locks they hold alone, too. *)
LEMMA JudgesFrame ==
    ASSUME IInv, UNCHANGED <<ver, scan, analysis, verLock, judge>>
    PROVE  HooksAgree' /\ DecisionsAgree'
BY DEF IInv, HooksAgree, DecisionsAgree, Justified, Ended, Measured

(* Who does not touch requests, verifications and scans. *)
LEMMA RequestsFrame ==
    ASSUME IInv, UNCHANGED <<ver, scan, req>>
    PROVE  RequestsAgree' /\ OneCreator'
BY DEF IInv, RequestsAgree, OneCreator, Sound, Creates

(* A request that goes on, sound in its next state, and does not begin to  *)
(* create, leaves the others sound if no verification vanishes and their   *)
(* scans stay as they are.                                                 *)
LEMMA RequestGoesOn ==
    ASSUME IInv, NEW r \in Requester, NEW q \in Request,
           req' = [req EXCEPT ![r] = q],
           Sound(q)', Creates(q) => Creates(req[r]) /\ req[r].k = q.k,
           \A i \in Key : ver[i] # None => ver'[i] # None,
           \A s \in Requester, i \in Key :
               /\ s # r /\ req[s].pc = "reserve" /\ req[s].k = i /\ scan[i] = "planned"
               => scan'[i] = "planned",
           \A i \in Key : scan[i] = "FAILED" => scan'[i] = "FAILED"
    PROVE  RequestsAgree' /\ OneCreator'
<1> USE DEF IInv, TypeOK
<1>1. req'[r] = q /\ \A s \in Requester : s # r => req'[s] = req[s]
  OBVIOUS
<1>2. RequestsAgree'
  <2> SUFFICES ASSUME NEW s \in Requester PROVE Sound(req[s])'
    BY DEF RequestsAgree
  <2>1. CASE s = r
    BY <1>1, <2>1 DEF Sound, Creates
  <2>2. CASE s # r
    <3>1. req'[s] = req[s] /\ Sound(req[s])
      BY <1>1, <2>2 DEF RequestsAgree
    <3> QED
      BY <2>2, <3>1 DEF Sound, Creates
  <2> QED
    BY <2>1, <2>2
<1>3. OneCreator'
  BY <1>1 DEF OneCreator, Creates
<1> QED
  BY <1>2, <1>3

(* A step of a request that touches no row but the lock it holds. *)
LEMMA RequestOnlyKeeps ==
    ASSUME VerificationAssumption, IInv, NEW r \in Requester,
           UNCHANGED <<opp, occ, ver, scan, analysis, verLock, judge>>,
           oppLock' \in [Opp -> Requester \cup {None}],
           NEW q \in Request, req' = [req EXCEPT ![r] = q], Sound(q), ~Creates(q)
    PROVE  IInv'
<1>1. TypeOK'
  BY DEF IInv, TypeOK
<1>2. Sound(q)'
  BY DEF Sound, Creates
<1>3. RequestsAgree' /\ OneCreator'
  BY <1>2, RequestGoesOn
<1> QED
  BY <1>1, <1>3, RowsFrame, JudgesFrame DEF IInv

-----------------------------------------------------------------------------
(* The workflow of an opportunity *)

(* A transition writes the opportunity only. *)
LEMMA TransitionKeeps ==
    ASSUME VerificationAssumption, IInv, NEW o \in Opp, NEW new \in OppStatus,
           Transition(o, new)
    PROVE  IInv'
<1> USE DEF IInv, Transition
<1>1. Baseline(o, new) \in 0 .. MaxOcc
  BY DEF Baseline, TypeOK, OppState, VerificationAssumption
<1>2. TypeOK'
  BY <1>1 DEF TypeOK, OppState
<1> QED
  BY <1>2, RowsFrame, RequestsFrame, JudgesFrame

(* A detection adds an occurrence. *)
LEMMA DetectAgainKeeps ==
    ASSUME VerificationAssumption, IInv, NEW o \in Opp, DetectAgain(o)
    PROVE  IInv'
<1> USE DEF IInv, DetectAgain
<1>1. TypeOK'
  BY DEF TypeOK, VerificationAssumption
<1> QED
  BY <1>1, RowsFrame, RequestsFrame, JudgesFrame

-----------------------------------------------------------------------------
(* Requests *)

(* What a request finds by its key. *)
LEMMA Found ==
    ASSUME VerificationAssumption, NEW r, NEW k \in Key, NEW o \in Opp
    PROVE  LET q == FoundByKey(r, k, o) IN q \in Request /\ Sound(q) /\ ~Creates(q)
<1>1. NoRequest \in Request
  BY NoRequestType
<1> DEFINE q == [NoRequest EXCEPT !.pc = "dispatch", !.k = k, !.o = o]
<1>2. q \in Request /\ Sound(q) /\ ~Creates(q)
  BY <1>1 DEF Request, RequestPc, Sound, Creates
<1>3. Sound(NoRequest) /\ ~Creates(NoRequest)
  BY DEF NoRequest, Sound, Creates
<1> QED
  BY <1>1, <1>2, <1>3 DEF FoundByKey

LEMMA FindExistingKeeps ==
    ASSUME VerificationAssumption, IInv, NEW r \in Requester, NEW k \in Key, NEW o \in Opp,
           FindExisting(r, k, o)
    PROVE  IInv'
<1> DEFINE new == [NoRequest EXCEPT !.pc = "lock", !.k = k, !.o = o]
<1>1. NoRequest \in Request
  BY NoRequestType
<1>2. new \in Request /\ Sound(new) /\ ~Creates(new)
  BY <1>1 DEF Request, RequestPc, Sound, Creates
<1>3. \E q \in Request : req' = [req EXCEPT ![r] = q] /\ Sound(q) /\ ~Creates(q)
  <2>1. CASE ver[k] = None
    BY <1>2, <2>1 DEF FindExisting, Continue
  <2>2. CASE ver[k] # None
    <3> FoundByKey(r, k, o) \in Request
      BY Found
    <3> QED
      BY <2>2, Found DEF FindExisting, Continue
  <2> QED
    BY <2>1, <2>2
<1>4. /\ UNCHANGED <<opp, occ, ver, scan, analysis, verLock, judge>>
      /\ oppLock' \in [Opp -> Requester \cup {None}]
  BY DEF FindExisting, Apart, IInv, TypeOK
<1> QED
  BY <1>3, <1>4, RequestOnlyKeeps

(* A request that ends gives its lock back. *)
LEMMA EndKeeps ==
    ASSUME VerificationAssumption, IInv, NEW r \in Requester, EndRequest(r),
           UNCHANGED <<opp, occ, ver, scan, analysis, verLock, judge>>
    PROVE  IInv'
<1>1. NoRequest \in Request /\ Sound(NoRequest) /\ ~Creates(NoRequest)
  BY NoRequestType DEF NoRequest, Sound, Creates
<1>2. req' = [req EXCEPT ![r] = NoRequest] /\ oppLock' = Unlock(oppLock, r)
  BY DEF EndRequest, Continue
<1>3. oppLock' \in [Opp -> Requester \cup {None}]
  BY <1>2, UnlockTypes DEF IInv, TypeOK
<1> QED
  BY <1>1, <1>2, <1>3, RequestOnlyKeeps

LEMMA LockOpportunityKeeps ==
    ASSUME VerificationAssumption, IInv, NEW r \in Requester, LockOpportunity(r)
    PROVE  IInv'
<1> DEFINE o == req[r].o
<1>1. req[r] \in Request /\ req[r].pc = "lock" /\ req[r].k \in Key /\ o \in Opp
  BY DEF LockOpportunity, IInv, TypeOK, RequestsAgree, Sound
<1>2. UNCHANGED <<opp, occ, ver, scan, analysis, verLock, judge>>
  BY DEF LockOpportunity, Apart
<1>3. CASE ~(opp[o].status = "IMPLEMENTED" /\ opp[o].baseline # 0)
  BY <1>2, <1>3, EndKeeps DEF LockOpportunity
<1>4. CASE opp[o].status = "IMPLEMENTED" /\ opp[o].baseline # 0
  <2> DEFINE q == [req[r] EXCEPT !.pc = "check", !.baseline = opp[o].baseline]
  <2>1. opp[o].baseline \in 0 .. MaxOcc
    BY <1>1 DEF IInv, TypeOK, OppState
  <2>2. q \in Request /\ Sound(q) /\ ~Creates(q)
    BY <1>1, <1>4, <2>1 DEF Request, RequestPc, Sound, Creates
  <2>3. req' = [req EXCEPT ![r] = q] /\ oppLock' = [oppLock EXCEPT ![o] = r]
    BY <1>4 DEF LockOpportunity, Continue
  <2>4. oppLock' \in [Opp -> Requester \cup {None}]
    BY <1>1, <2>3 DEF IInv, TypeOK
  <2> QED
    BY <1>2, <2>2, <2>3, <2>4, RequestOnlyKeeps
<1> QED
  BY <1>3, <1>4

(* The check leaves with a verification whose scan FAILED, or with none. *)
LEMMA CheckPendingKeeps ==
    ASSUME VerificationAssumption, IInv, NEW r \in Requester, CheckPending(r)
    PROVE  IInv'
<1>1. req[r] \in Request /\ req[r].k \in Key /\ req[r].o \in Opp /\ req[r].baseline # 0
  BY DEF CheckPending, IInv, TypeOK, RequestsAgree, Sound
<1>2. UNCHANGED <<opp, occ, ver, scan, analysis, verLock, judge>>
  BY DEF CheckPending, Apart
<1>3. CASE \E k \in PendingInCycle(r) : scan[k] # "FAILED"
  BY <1>2, <1>3, EndKeeps DEF CheckPending
<1>4. CASE ~ \E k \in PendingInCycle(r) : scan[k] # "FAILED"
  <2>1. AfterCheck(r) /\ UNCHANGED oppLock
    BY <1>4 DEF CheckPending
  <2>2. \E q \in Request : req' = [req EXCEPT ![r] = q] /\ Sound(q) /\ ~Creates(q)
    <3>1. CASE Continue(r, [req[r] EXCEPT !.pc = "insert"])
      <4> DEFINE q == [req[r] EXCEPT !.pc = "insert"]
      <4>1. q \in Request /\ Sound(q) /\ ~Creates(q)
        BY <1>1 DEF Request, RequestPc, Sound, Creates
      <4> QED
        BY <3>1, <4>1 DEF Continue
    <3>2. ASSUME NEW k \in PendingInCycle(r),
                 Continue(r, [req[r] EXCEPT !.pc = "terminalize", !.old = k])
          PROVE  \E q \in Request : req' = [req EXCEPT ![r] = q] /\ Sound(q) /\ ~Creates(q)
      <4> DEFINE q == [req[r] EXCEPT !.pc = "terminalize", !.old = k]
      <4>1. k \in Key /\ ver[k] # None /\ scan[k] = "FAILED"
        BY <1>4 DEF PendingInCycle, OfCycle
      <4>2. q \in Request /\ Sound(q) /\ ~Creates(q)
        BY <1>1, <4>1 DEF Request, RequestPc, Sound, Creates
      <4> QED
        BY <3>2, <4>2 DEF Continue
    <3> QED
      BY <2>1, <3>1, <3>2 DEF AfterCheck
  <2> QED
    BY <1>2, <2>1, <2>2, RequestOnlyKeeps DEF IInv, TypeOK
<1> QED
  BY <1>3, <1>4

LEMMA PreflightFailsKeeps ==
    ASSUME VerificationAssumption, IInv, NEW r \in Requester, PreflightFails(r)
    PROVE  IInv'
BY EndKeeps DEF PreflightFails, Apart

LEMMA RequestDiesKeeps ==
    ASSUME VerificationAssumption, IInv, NEW r \in Requester, RequestDies(r)
    PROVE  IInv'
BY EndKeeps DEF RequestDies, Apart

(* A scan that goes on or ends, and nothing else of its row. *)
LEMMA ScanMoves ==
    ASSUME IInv, NEW k \in Key, ScanActive(k),
           NEW stage \in {"reserved", "dispatched", "collected", "FAILED"},
           scan' = [scan EXCEPT ![k] = stage], UNCHANGED <<ver, analysis>>
    PROVE  /\ RowsAgree' /\ OnePending' /\ scan' \in [Key -> ScanStage]
           /\ \A i \in Key : Ended(i) => Ended(i)' /\ scan'[i] = scan[i]
           /\ UNCHANGED <<verLock, judge>> => HooksAgree' /\ DecisionsAgree'
<1>1. /\ scan' \in [Key -> ScanStage] /\ scan'[k] = stage /\ Pending(k)
      /\ \A i \in Key : i # k => scan'[i] = scan[i]
  BY DEF IInv, TypeOK, ScanStage, RowsAgree
<1>2. \A i \in Key : Ended(i) => Ended(i)' /\ scan'[i] = scan[i]
  BY <1>1 DEF Ended, ScanActive
<1>3. RowsAgree'
  BY <1>1 DEF IInv, RowsAgree, ScanActive, Pending, Measured
<1>4. OnePending'
  BY DEF IInv, OnePending, Pending
<1>5. UNCHANGED <<verLock, judge>> => HooksAgree' /\ DecisionsAgree'
  BY <1>1, <1>2 DEF IInv, HooksAgree, DecisionsAgree, Justified, Measured
<1> QED
  BY <1>1, <1>2, <1>3, <1>4, <1>5

(* The reservation of a verification's checks ... *)
LEMMA ReserveKeeps ==
    ASSUME VerificationAssumption, IInv, NEW r \in Requester, Reserve(r)
    PROVE  IInv'
<1> DEFINE k == req[r].k
           q == [req[r] EXCEPT !.pc = "dispatch"]
<1>1. /\ req[r] \in Request /\ k \in Key /\ req[r].o \in Opp
      /\ scan[k] = "planned" /\ Creates(req[r])
  BY DEF Reserve, IInv, TypeOK, RequestsAgree, Sound, Creates
<1>2. /\ req' = [req EXCEPT ![r] = q] /\ scan' = [scan EXCEPT ![k] = "reserved"]
      /\ UNCHANGED <<opp, occ, ver, analysis, oppLock, verLock, judge>>
  BY DEF Reserve, Continue, Apart
<1>3. /\ RowsAgree' /\ OnePending' /\ scan' \in [Key -> ScanStage]
      /\ HooksAgree' /\ DecisionsAgree'
  BY <1>1, <1>2, ScanMoves DEF ScanActive
<1>4. PICK p \in Request : p = q /\ ~Creates(p) /\ p.pc = "dispatch" /\ p.k \in Key /\ p.o \in Opp
  <2>1. q \in Request /\ ~Creates(q) /\ q.pc = "dispatch" /\ q.k \in Key /\ q.o \in Opp
    BY <1>1 DEF Request, RequestPc, Creates
  <2> QED
    BY <2>1
<1>5. TypeOK'
  BY <1>2, <1>3, <1>4 DEF IInv, TypeOK
<1>6. \A s \in Requester, i \in Key :
          s # r /\ req[s].pc = "reserve" /\ req[s].k = i /\ scan[i] = "planned"
          => scan'[i] = "planned"
  BY <1>1, <1>2 DEF IInv, TypeOK, OneCreator, Creates
<1>7. \A i \in Key : scan[i] = "FAILED" => scan'[i] = "FAILED"
  BY <1>1, <1>2 DEF IInv, TypeOK
<1>8. Sound(p)'
  BY <1>4 DEF Sound, Creates
<1>9. RequestsAgree' /\ OneCreator'
  BY <1>2, <1>4, <1>6, <1>7, <1>8, RequestGoesOn
<1> QED
  BY <1>3, <1>5, <1>9 DEF IInv

(* ... may be refused, which ends the scan and is written to the           *)
(* verification in a transaction of its own.                               *)
LEMMA QuotaExceededKeeps ==
    ASSUME VerificationAssumption, IInv, NEW r \in Requester, QuotaExceeded(r)
    PROVE  IInv'
<1> DEFINE k == req[r].k
           q == [req[r] EXCEPT !.pc = "quota"]
<1>1. /\ req[r] \in Request /\ k \in Key /\ req[r].o \in Opp /\ ver[k] # None
      /\ scan[k] = "planned" /\ Creates(req[r])
  BY DEF QuotaExceeded, IInv, TypeOK, RequestsAgree, Sound, Creates
<1>2. /\ req' = [req EXCEPT ![r] = q] /\ scan' = [scan EXCEPT ![k] = "FAILED"]
      /\ UNCHANGED <<opp, occ, ver, analysis, oppLock, verLock, judge>>
  BY DEF QuotaExceeded, Continue, Apart
<1>3. /\ RowsAgree' /\ OnePending' /\ scan' \in [Key -> ScanStage]
      /\ HooksAgree' /\ DecisionsAgree'
  BY <1>1, <1>2, ScanMoves DEF ScanActive
<1>4. PICK p \in Request : p = q /\ p.pc = "quota" /\ p.k = k /\ p.o \in Opp
  <2>1. q \in Request /\ q.pc = "quota" /\ q.k = k /\ q.o \in Opp
    BY <1>1 DEF Request, RequestPc
  <2> QED
    BY <2>1
<1>5. TypeOK'
  BY <1>2, <1>3, <1>4 DEF IInv, TypeOK
<1>6. \A s \in Requester, i \in Key :
          s # r /\ req[s].pc = "reserve" /\ req[s].k = i /\ scan[i] = "planned"
          => scan'[i] = "planned"
  BY <1>1, <1>2 DEF IInv, TypeOK, OneCreator, Creates
<1>7. \A i \in Key : scan[i] = "FAILED" => scan'[i] = "FAILED"
  BY <1>1, <1>2 DEF IInv, TypeOK
<1>8. Sound(p)'
  <2>1. p.k \in Key /\ ver'[p.k] # None /\ scan'[p.k] = "FAILED"
    BY <1>1, <1>2, <1>4 DEF IInv, TypeOK
  <2> QED
    BY <1>4, <2>1 DEF Sound, Creates
<1>9. RequestsAgree' /\ OneCreator'
  BY <1>1, <1>2, <1>4, <1>6, <1>7, <1>8, RequestGoesOn
<1> QED
  BY <1>3, <1>5, <1>9 DEF IInv

(* A dispatch moves a scan that holds its reservation. *)
LEMMA DispatchKeeps ==
    ASSUME VerificationAssumption, IInv, NEW r \in Requester, Dispatch(r)
    PROVE  IInv'
<1> DEFINE k == req[r].k
<1>1. k \in Key /\ NoRequest \in Request /\ ~Creates(NoRequest)
  BY NoRequestType DEF Dispatch, IInv, RequestsAgree, Sound, Creates, NoRequest
<1>2. /\ req' = [req EXCEPT ![r] = NoRequest]
      /\ UNCHANGED <<opp, occ, ver, analysis, oppLock, verLock, judge>>
  BY DEF Dispatch, Continue, Apart
<1>3. CASE UNCHANGED scan
  BY <1>1, <1>2, <1>3, RequestOnlyKeeps DEF Sound, NoRequest, Creates, IInv, TypeOK
<1>4. CASE scan[k] = "reserved" /\ scan' = [scan EXCEPT ![k] = "dispatched"]
  <2>1. /\ RowsAgree' /\ OnePending' /\ scan' \in [Key -> ScanStage]
        /\ HooksAgree' /\ DecisionsAgree'
    BY <1>1, <1>2, <1>4, ScanMoves DEF ScanActive
  <2>2. TypeOK'
    BY <1>1, <1>2, <2>1 DEF IInv, TypeOK
  <2>3. \A i \in Key : scan[i] \in {"FAILED", "planned"} => scan'[i] = scan[i]
    BY <1>1, <1>4 DEF IInv, TypeOK
  <2>4. Sound(NoRequest)'
    BY DEF Sound, NoRequest, Creates
  <2>5. RequestsAgree' /\ OneCreator'
    BY <1>1, <1>2, <2>3, <2>4, RequestGoesOn
  <2> QED
    BY <2>1, <2>2, <2>5 DEF IInv
<1>5. \/ UNCHANGED scan
      \/ scan[k] = "reserved" /\ scan' = [scan EXCEPT ![k] = "dispatched"]
  <2> DEFINE stage == IF scan[k] = "reserved" THEN "dispatched" ELSE scan[k]
  <2>1. UNCHANGED scan \/ scan' = [scan EXCEPT ![k] = stage]
    BY DEF Dispatch
  <2>2. \/ scan[k] = "reserved" /\ stage = "dispatched"
        \/ stage = scan[k]
    OBVIOUS
  <2>3. [scan EXCEPT ![k] = scan[k]] = scan
    BY DEF IInv, TypeOK
  <2> HIDE DEF stage
  <2> QED
    BY <2>1, <2>2, <2>3
<1> QED
  BY <1>3, <1>4, <1>5

(* What is settled before a creation had a scan that FAILED. *)
LEMMA TerminalizeFirstKeeps ==
    ASSUME VerificationAssumption, IInv, NEW r \in Requester, TerminalizeFirst(r)
    PROVE  IInv'
<1> DEFINE k == req[r].old
           q == [req[r] EXCEPT !.pc = "insert"]
           why == "VERIFICATION_SCAN_FAILED"
<1>1. /\ req[r] \in Request /\ req[r].k \in Key /\ req[r].o \in Opp /\ req[r].baseline # 0
      /\ k \in Key /\ ver[k] # None /\ scan[k] = "FAILED" /\ verLock[k] = None
  BY DEF TerminalizeFirst, IInv, TypeOK, RequestsAgree, Sound
<1>2. /\ ver' = Settled(k, "INCONCLUSIVE", why) /\ req' = [req EXCEPT ![r] = q]
      /\ oppLock' = Unlock(oppLock, r) /\ UNCHANGED <<opp, occ, scan, analysis, verLock, judge>>
  BY DEF TerminalizeFirst, Settled, Continue, Apart
<1>3. /\ "INCONCLUSIVE" \in Outcome \ {"PENDING"} /\ why \in Reason /\ why # None
      /\ Ended(k) /\ ver' \in [Key -> VerificationRow \cup {None}]
  BY <1>1, <1>2, SettledRow DEF Outcome, Reason, VerificationAssumption, Ended, IInv
<1>4. RowsAgree' /\ OnePending'
  BY <1>1, <1>2, <1>3, SettleKeepsRows
<1>5. /\ \A i \in Key : (ver'[i] = None) <=> (ver[i] = None)
      /\ \A i \in Key : i # k => (Measured(i)' <=> Measured(i))
  BY <1>1, <1>2, <1>3, SettleKeepsOthers
<1>6. HooksAgree' /\ DecisionsAgree'
  BY <1>1, <1>2, <1>3, SettleKeepsJudges
<1>7. PICK p \in Request : p = q /\ Sound(p) /\ ~Creates(p)
  <2>1. q \in Request /\ Sound(q) /\ ~Creates(q)
    BY <1>1 DEF Request, RequestPc, Sound, Creates
  <2> QED
    BY <2>1
<1>8. Sound(p)'
  BY <1>2, <1>5, <1>7 DEF Sound, Creates
<1>9. RequestsAgree' /\ OneCreator'
  BY <1>2, <1>5, <1>7, <1>8, RequestGoesOn
<1>10. oppLock' \in [Opp -> Requester \cup {None}]
  BY <1>2, UnlockTypes DEF IInv, TypeOK
<1>11. TypeOK'
  BY <1>2, <1>3, <1>7, <1>10 DEF IInv, TypeOK
<1> QED
  BY <1>4, <1>6, <1>9, <1>11 DEF IInv

LEMMA QuotaFailedKeeps ==
    ASSUME VerificationAssumption, IInv, NEW r \in Requester, QuotaFailed(r)
    PROVE  IInv'
<1> DEFINE k == req[r].k
           why == "VERIFICATION_SCAN_FAILED"
<1>1. k \in Key /\ ver[k] # None /\ scan[k] = "FAILED" /\ verLock[k] = None
  BY DEF QuotaFailed, IInv, TypeOK, RequestsAgree, Sound, Creates
<1>2. /\ ver' = Settled(k, "INCONCLUSIVE", why) /\ req' = [req EXCEPT ![r] = NoRequest]
      /\ UNCHANGED <<opp, occ, scan, analysis, oppLock, verLock, judge>>
  BY DEF QuotaFailed, Settled, Continue, Apart
<1>3. /\ "INCONCLUSIVE" \in Outcome \ {"PENDING"} /\ why \in Reason /\ why # None
      /\ Ended(k) /\ ver' \in [Key -> VerificationRow \cup {None}]
  BY <1>1, <1>2, SettledRow DEF Outcome, Reason, VerificationAssumption, Ended, IInv
<1>4. RowsAgree' /\ OnePending'
  BY <1>1, <1>2, <1>3, SettleKeepsRows
<1>5. /\ \A i \in Key : (ver'[i] = None) <=> (ver[i] = None)
      /\ \A i \in Key : i # k => (Measured(i)' <=> Measured(i))
  BY <1>1, <1>2, <1>3, SettleKeepsOthers
<1>6. HooksAgree' /\ DecisionsAgree'
  BY <1>1, <1>2, <1>3, SettleKeepsJudges
<1>7. NoRequest \in Request /\ Sound(NoRequest)' /\ ~Creates(NoRequest)
  BY NoRequestType DEF NoRequest, Sound, Creates
<1>8. RequestsAgree' /\ OneCreator'
  BY <1>2, <1>5, <1>7, RequestGoesOn
<1>9. TypeOK'
  BY <1>2, <1>3, <1>7 DEF IInv, TypeOK
<1> QED
  BY <1>4, <1>6, <1>8, <1>9 DEF IInv

(* A new verification, and its scan, under the two unique indexes. *)
LEMMA NewRowKeeps ==
    ASSUME VerificationAssumption, IInv, NEW k \in Key, NEW row \in VerificationRow,
           ver[k] = None, row.outcome = "PENDING", row.reason = None,
           \A i \in Key : Pending(i) => ~ (ver[i].o = row.o /\ ver[i].baseline = row.baseline),
           ver' = [ver EXCEPT ![k] = row], scan' = [scan EXCEPT ![k] = "planned"],
           UNCHANGED <<analysis, verLock, judge>>
    PROVE  /\ RowsAgree' /\ OnePending' /\ HooksAgree' /\ DecisionsAgree'
           /\ ver'[k] # None /\ scan'[k] = "planned" /\ scan[k] = "none"
           /\ \A i \in Key : i # k => ver'[i] = ver[i] /\ scan'[i] = scan[i]
<1>1. /\ ver'[k] = row /\ row # None /\ scan'[k] = "planned"
      /\ \A i \in Key : i # k => ver'[i] = ver[i] /\ scan'[i] = scan[i]
  BY DEF IInv, TypeOK, VerificationAssumption
<1>2. scan[k] = "none" /\ analysis[k] \notin Verdict /\ judge[k].pc = "idle"
  BY DEF IInv, RowsAgree, HooksAgree
<1>3. RowsAgree'
  BY <1>1, <1>2 DEF IInv, RowsAgree, ScanActive, Pending, Measured
<1>4. OnePending'
  BY <1>1 DEF IInv, OnePending, Pending
<1>5. HooksAgree'
  BY <1>1, <1>2 DEF IInv, HooksAgree, Ended
<1>6. DecisionsAgree'
  BY <1>1 DEF IInv, DecisionsAgree, Justified, Ended, Measured
<1> QED
  BY <1>1, <1>2, <1>3, <1>4, <1>5, <1>6

LEMMA InsertKeeps ==
    ASSUME VerificationAssumption, IInv, NEW r \in Requester, Insert(r)
    PROVE  IInv'
<1> DEFINE k == req[r].k
<1>1. /\ req[r] \in Request /\ k \in Key /\ req[r].o \in Opp /\ req[r].baseline # 0
      /\ req[r].pc = "insert"
  BY DEF Insert, IInv, TypeOK, RequestsAgree, Sound
<1>2. UNCHANGED <<opp, occ, analysis, verLock, judge>> /\ oppLock' = Unlock(oppLock, r)
  BY DEF Insert, Apart
<1>3. oppLock' \in [Opp -> Requester \cup {None}]
  BY <1>2, UnlockTypes DEF IInv, TypeOK
<1>4. CASE ver[k] = None /\ PendingInCycle(r) = {}
  <2> DEFINE row == [o |-> req[r].o, baseline |-> req[r].baseline,
                     outcome |-> "PENDING", reason |-> None]
             q == [req[r] EXCEPT !.pc = "reserve"]
  <2>1. /\ ver' = [ver EXCEPT ![k] = row] /\ scan' = [scan EXCEPT ![k] = "planned"]
        /\ req' = [req EXCEPT ![r] = q]
    BY <1>4 DEF Insert, Continue
  <2>2. req[r].baseline \in 1 .. MaxOcc
    BY <1>1 DEF Request, VerificationAssumption
  <2>3. row \in VerificationRow /\ row.outcome = "PENDING" /\ row.reason = None
        /\ row.o = req[r].o /\ row.baseline = req[r].baseline
    BY <1>1, <2>2 DEF VerificationRow, Outcome, Reason
  <2>4. \A i \in Key : Pending(i) => ~ (ver[i].o = row.o /\ ver[i].baseline = row.baseline)
    BY <1>4, <2>3 DEF PendingInCycle, OfCycle, Pending
  <2> HIDE DEF row
  <2>5. /\ RowsAgree' /\ OnePending' /\ HooksAgree' /\ DecisionsAgree'
        /\ ver'[k] # None /\ scan'[k] = "planned" /\ scan[k] = "none"
        /\ \A i \in Key : i # k => ver'[i] = ver[i] /\ scan'[i] = scan[i]
    BY <1>1, <1>2, <1>4, <2>1, <2>3, <2>4, NewRowKeeps
  <2>6. PICK p \in Request : p = q /\ p.pc = "reserve" /\ p.k = k /\ p.o \in Opp
    <3>1. q \in Request /\ q.pc = "reserve" /\ q.k = k /\ q.o \in Opp
      BY <1>1 DEF Request, RequestPc
    <3> QED
      BY <3>1
  <2>7. TypeOK'
    BY <1>1, <1>2, <1>3, <2>1, <2>3, <2>6 DEF IInv, TypeOK, ScanStage
  <2>8. RequestsAgree'
    <3>1. Sound(p)'
      BY <1>1, <2>5, <2>6 DEF Sound, Creates
    <3>2. ASSUME NEW s \in Requester, s # r PROVE Sound(req[s])'
      <4>1. Sound(req[s]) /\ req'[s] = req[s]
        BY <2>1, <3>2 DEF IInv, TypeOK, RequestsAgree
      <4> QED
        BY <1>4, <2>5, <4>1 DEF Sound, Creates
    <3>3. req'[r] = p
      BY <2>1, <2>6 DEF IInv, TypeOK
    <3> QED
      BY <3>1, <3>2, <3>3 DEF RequestsAgree, Sound, Creates
  <2>9. OneCreator'
    <3>1. \A s \in Requester : s # r => req'[s] = req[s] /\ (Creates(req[s]) => req[s].k # k)
      BY <1>4, <2>1 DEF IInv, TypeOK, RequestsAgree, Sound
    <3>2. req'[r].k = k
      BY <2>1, <2>6 DEF IInv, TypeOK
    <3> QED
      BY <3>1, <3>2 DEF IInv, OneCreator, Creates
  <2> QED
    BY <2>5, <2>7, <2>8, <2>9 DEF IInv
<1>5. CASE ~ (ver[k] = None /\ PendingInCycle(r) = {})
  <2>1. NoRequest \in Request /\ Sound(NoRequest) /\ ~Creates(NoRequest)
    BY NoRequestType DEF NoRequest, Sound, Creates
  <2>2. /\ FoundByKey(r, k, req[r].o) \in Request /\ Sound(FoundByKey(r, k, req[r].o))
        /\ ~Creates(FoundByKey(r, k, req[r].o))
    BY <1>1, Found
  <2>3. UNCHANGED <<ver, scan>>
    BY <1>5 DEF Insert
  <2>4. CASE ver[k] = None
    <3>1. req' = [req EXCEPT ![r] = NoRequest]
      BY <1>5, <2>4 DEF Insert, Continue
    <3> QED
      BY <1>2, <1>3, <2>1, <2>3, <3>1, RequestOnlyKeeps
  <2>5. CASE ver[k] # None
    <3>1. req' = [req EXCEPT ![r] = FoundByKey(r, k, req[r].o)]
      BY <1>5, <2>5 DEF Insert, Continue
    <3> QED
      BY <1>2, <1>3, <2>2, <2>3, <3>1, RequestOnlyKeeps
  <2> QED
    BY <2>4, <2>5
<1> QED
  BY <1>4, <1>5

-----------------------------------------------------------------------------
(* The end of a scan, its hook, and evaluations *)

LEMMA ScanEndsKeeps ==
    ASSUME VerificationAssumption, IInv, NEW k \in Key, ScanEnds(k)
    PROVE  IInv'
<1>1. /\ UNCHANGED <<opp, occ, ver, analysis, oppLock, verLock, req>>
      /\ judge' = [judge EXCEPT ![k] =
                       [Idle EXCEPT !.pc = IF scan'[k] = "FAILED" THEN "load" ELSE "post",
                                    !.k = k]]
      /\ ScanActive(k) /\ ver[k] # None
  BY DEF ScanEnds, Apart, ScanActive, IInv, RowsAgree, Pending
<1>3. PICK stage \in {"collected", "FAILED"} : scan' = [scan EXCEPT ![k] = stage]
  BY DEF ScanEnds
<1>9. scan'[k] = stage
  BY <1>3 DEF IInv, TypeOK
<1>2. PICK e \in Judging : /\ judge' = [judge EXCEPT ![k] = e] /\ e.k = k
                           /\ e.pc = IF stage = "FAILED" THEN "load" ELSE "post"
  <2> DEFINE pc == IF stage = "FAILED" THEN "load" ELSE "post"
  <2>1. Idle \in Judging /\ pc \in JudgePc
    BY DEF VerificationAssumption, Judging, JudgePc, Idle, Reason, Answer
  <2>2. [Idle EXCEPT !.pc = pc, !.k = k] \in Judging
    BY <2>1, JudgingTypes
  <2>3. [Idle EXCEPT !.pc = pc, !.k = k].k = k /\ [Idle EXCEPT !.pc = pc, !.k = k].pc = pc
    BY <2>1 DEF Judging
  <2>4. judge' = [judge EXCEPT ![k] = [Idle EXCEPT !.pc = pc, !.k = k]]
    BY <1>1, <1>9
  <2> QED
    BY <2>2, <2>3, <2>4
<1>4. /\ RowsAgree' /\ OnePending' /\ scan' \in [Key -> ScanStage]
      /\ \A i \in Key : Ended(i) => Ended(i)' /\ scan'[i] = scan[i]
  BY <1>1, <1>3, ScanMoves
<1>5. TypeOK'
  BY <1>1, <1>2, <1>4 DEF IInv, TypeOK, Judge
<1>6. RequestsAgree' /\ OneCreator'
  <2>1. \A r \in Requester : req[r].pc = "reserve" => req[r].k # k
    BY DEF ScanEnds, Created, IInv, RequestsAgree, Sound
  <2>2. \A i \in Key : (scan[i] = "FAILED" \/ i # k) => scan'[i] = scan[i]
    BY <1>3, <1>4 DEF IInv, TypeOK, Ended
  <2>3. RequestsAgree'
    BY <1>1, <2>1, <2>2 DEF IInv, RequestsAgree, Sound, Creates
  <2> QED
    BY <1>1, <2>3 DEF IInv, OneCreator
<1>7. HooksAgree'
  <2>1. Ended(k)'
    BY <1>3 DEF IInv, TypeOK, Ended
  <2>2. \A i \in Key : scan[i] = "collected" => scan'[i] = "collected"
    BY <1>4 DEF Ended
  <2>3. judge'[k] = e /\ \A i \in Key : i # k => judge'[i] = judge[i]
    BY <1>2 DEF IInv, TypeOK, Judge
  <2>4. e.pc # "idle" => e.k = k /\ Ended(k)' /\ ver'[k] # None
    BY <1>1, <1>2, <2>1
  <2>5. e.pc \in {"post", "insert"} => scan'[k] = "collected"
    BY <1>2, <1>3, <1>9
  <2>6. ASSUME NEW i \in Key, i # k
        PROVE  /\ judge'[i].pc # "idle" => judge'[i].k = i /\ Ended(i)' /\ ver'[i] # None
               /\ judge'[i].pc \in {"post", "insert"} => scan'[i] = "collected"
    BY <1>1, <1>4, <2>2, <2>3, <2>6 DEF IInv, HooksAgree
  <2> QED
    BY <2>3, <2>4, <2>5, <2>6 DEF HooksAgree
<1>8. DecisionsAgree'
  BY <1>1, <1>2, <1>4 DEF IInv, TypeOK, DecisionsAgree, Justified, Measured, Judge
<1> QED
  BY <1>4, <1>5, <1>6, <1>7, <1>8 DEF IInv

(* A new or repeated analysis. *)
LEMMA AnalysisKeeps ==
    ASSUME VerificationAssumption, IInv, NEW k \in Key, NEW a,
           analysis[k] \notin Verdict \/ a = analysis[k],
           a \in Verdict => scan[k] = "collected",
           analysis' = [analysis EXCEPT ![k] = a], UNCHANGED <<ver, scan>>
    PROVE  /\ RowsAgree' /\ OnePending'
           /\ \A i \in Key : analysis[i] \in Verdict => analysis'[i] = analysis[i]
           /\ \A i \in Key : Measured(i)' <=> Measured(i)
<1>1. /\ analysis'[k] = a /\ \A i \in Key : i # k => analysis'[i] = analysis[i]
  BY DEF IInv, TypeOK
<1>2. RowsAgree'
  BY <1>1 DEF IInv, RowsAgree, ScanActive, Pending, Measured
<1> QED
  BY <1>1, <1>2 DEF IInv, OnePending, Pending, Measured

(* The hook analyses what was collected, or is answered. *)
LEMMA AnalyseKeeps ==
    ASSUME VerificationAssumption, IInv, NEW k \in Key, judge[k].pc \in {"post", "insert"},
           UNCHANGED <<opp, occ, ver, scan, oppLock, verLock, req>>,
           NEW pc \in {"insert", "load"}, NEW got \in Answer,
           judge' = [judge EXCEPT ![k] = [@ EXCEPT !.pc = pc, !.got = got]],
           NEW a \in Verdict \cup {"none", "FAILED"},
           analysis' = [analysis EXCEPT ![k] = a], analysis[k] \notin Verdict \/ a = analysis[k]
    PROVE  IInv'
<1>1. /\ judge[k] \in Judging /\ judge[k].k = k /\ ver[k] # None
      /\ scan[k] = "collected" /\ Ended(k) /\ k \in Judge
  BY DEF IInv, TypeOK, HooksAgree, Judge
<1> DEFINE e == [judge[k] EXCEPT !.pc = pc, !.got = got]
<1>2. e \in Judging /\ e.pc = pc /\ e.k = k
  BY <1>1 DEF Judging, JudgePc
<1>3. judge' = [judge EXCEPT ![k] = e]
  OBVIOUS
<1> HIDE DEF e
<1>4. /\ RowsAgree' /\ OnePending'
      /\ \A i \in Key : analysis[i] \in Verdict => analysis'[i] = analysis[i]
      /\ \A i \in Key : Measured(i)' <=> Measured(i)
  BY <1>1, AnalysisKeeps
<1>5. TypeOK'
  BY <1>1, <1>2, <1>3 DEF IInv, TypeOK
<1>6. judge'[k] = e /\ \A j \in Judge : j # k => judge'[j] = judge[j]
  BY <1>3 DEF IInv, TypeOK, Judge
<1>7. HooksAgree'
  BY <1>1, <1>2, <1>6 DEF IInv, HooksAgree, Ended, Judge
<1>8. DecisionsAgree'
  BY <1>1, <1>2, <1>4, <1>6 DEF IInv, DecisionsAgree, Justified, Ended
<1> QED
  BY <1>1, <1>4, <1>5, <1>7, <1>8, RequestsFrame DEF IInv

LEMMA HookAnalyses ==
    ASSUME VerificationAssumption, IInv, NEW k \in Key, judge[k].pc \in {"post", "insert"},
           UNCHANGED <<opp, occ, ver, scan, oppLock, verLock, req>>,
           \/ Analyse(k) /\ analysis[k] \notin Verdict
           \/ \E got \in Answer : Answered(k, got)
           \/ judge' = [judge EXCEPT ![k].pc = "insert"] /\ UNCHANGED analysis
    PROVE  IInv'
<1>1. /\ k \in Judge /\ judge \in [Judge -> Judging] /\ judge[k] \in Judging
      /\ analysis \in [Key -> Verdict \cup {"none", "FAILED"}]
  BY DEF IInv, TypeOK, Judge
<1>2. CASE Analyse(k) /\ analysis[k] \notin Verdict
  <2>1. PICK a \in Verdict \cup {"FAILED"} :
          /\ analysis' = [analysis EXCEPT ![k] = a]
          /\ judge' = [judge EXCEPT ![k] = [judge[k] EXCEPT
                         !.pc = "load", !.got = IF a = "FAILED" THEN "raised" ELSE "COMPLETED"]]
    BY <1>2 DEF Analyse, Become
  <2>2. (IF a = "FAILED" THEN "raised" ELSE "COMPLETED") \in Answer
    BY DEF Answer
  <2> QED
    BY <1>2, <2>1, <2>2, AnalyseKeeps
<1>3. ASSUME NEW got \in Answer, Answered(k, got) PROVE IInv'
  <2>1. /\ judge' = [judge EXCEPT ![k] = [judge[k] EXCEPT !.pc = "load", !.got = got]]
        /\ analysis' = [analysis EXCEPT ![k] = analysis[k]]
        /\ analysis[k] \in Verdict \cup {"none", "FAILED"}
    BY <1>1, <1>3 DEF Answered, Become
  <2> QED
    BY <2>1, AnalyseKeeps
<1>4. CASE judge' = [judge EXCEPT ![k].pc = "insert"] /\ UNCHANGED analysis
  <2>1. judge[k].got \in Answer
    BY <1>1 DEF Judging
  <2>2. /\ judge' = [judge EXCEPT ![k] = [judge[k] EXCEPT !.pc = "insert", !.got = judge[k].got]]
        /\ analysis' = [analysis EXCEPT ![k] = analysis[k]]
        /\ analysis[k] \in Verdict \cup {"none", "FAILED"}
    BY <1>1, <1>4 DEF Judging
  <2> QED
    BY <2>1, <2>2, AnalyseKeeps
<1> QED
  BY <1>2, <1>3, <1>4

LEMMA PostFinalizeKeeps ==
    ASSUME VerificationAssumption, IInv, NEW k \in Key, PostFinalize(k)
    PROVE  IInv'
<1>1. /\ judge[k].pc \in {"post", "insert"}
      /\ UNCHANGED <<opp, occ, ver, scan, oppLock, verLock, req>>
  BY DEF PostFinalize, Apart
<1>2. \/ Analyse(k) /\ analysis[k] \notin Verdict
      \/ \E got \in Answer : Answered(k, got)
      \/ judge' = [judge EXCEPT ![k].pc = "insert"] /\ UNCHANGED analysis
  BY Verdicts DEF PostFinalize, Answer, Become
<1> QED
  BY <1>1, <1>2, HookAnalyses

LEMMA InsertAnalysisKeeps ==
    ASSUME VerificationAssumption, IInv, NEW k \in Key, InsertAnalysis(k)
    PROVE  IInv'
<1>1. /\ judge[k].pc \in {"post", "insert"}
      /\ UNCHANGED <<opp, occ, ver, scan, oppLock, verLock, req>>
  BY DEF InsertAnalysis, Apart
<1>2. \/ Analyse(k) /\ analysis[k] \notin Verdict
      \/ \E got \in Answer : Answered(k, got)
  BY Verdicts DEF InsertAnalysis, Answer
<1> QED
  BY <1>1, <1>2, HookAnalyses

LEMMA AnalyseByHandKeeps ==
    ASSUME VerificationAssumption, IInv, NEW k \in Key, AnalyseByHand(k)
    PROVE  IInv'
<1>1. UNCHANGED <<opp, occ, ver, scan, oppLock, verLock, req, judge>>
  BY DEF AnalyseByHand, Apart
<1>2. PICK a \in {"FAILED"} \cup IF scan[k] = "collected" THEN Verdict ELSE {} :
          analysis' = [analysis EXCEPT ![k] = a]
  BY DEF AnalyseByHand
<1>3. /\ analysis[k] \notin Verdict /\ (a \in Verdict => scan[k] = "collected")
      /\ a \in Verdict \cup {"none", "FAILED"}
  BY <1>2, Verdicts DEF AnalyseByHand
<1>4. /\ RowsAgree' /\ OnePending'
      /\ \A i \in Key : analysis[i] \in Verdict => analysis'[i] = analysis[i]
      /\ \A i \in Key : Measured(i)' <=> Measured(i)
  BY <1>1, <1>2, <1>3, AnalysisKeeps
<1>5. TypeOK'
  BY <1>1, <1>2, <1>3 DEF IInv, TypeOK
<1>6. HooksAgree'
  BY <1>1 DEF IInv, HooksAgree, Ended
<1>7. DecisionsAgree'
  BY <1>1, <1>4 DEF IInv, DecisionsAgree, Justified, Ended
<1> QED
  BY <1>1, <1>4, <1>5, <1>6, <1>7, RequestsFrame DEF IInv

(* A judge that goes on or gives up, with the rows as they are. *)
LEMMA JudgeOnlyKeeps ==
    ASSUME VerificationAssumption, IInv, NEW j \in Judge, NEW e \in Judging,
           judge' = [judge EXCEPT ![j] = e], e.pc \notin {"decide", "post", "insert"},
           j \in Key /\ e.pc # "idle" => e.k = j /\ judge[j].pc # "idle",
           UNCHANGED <<opp, occ, ver, scan, analysis, oppLock, req>>,
           verLock' \in [Key -> Judge \cup {None}],
           \A i \in Key : verLock[i] # j => verLock'[i] = verLock[i]
    PROVE  IInv'
<1>1. TypeOK'
  BY DEF IInv, TypeOK
<1>2. judge'[j] = e /\ \A i \in Judge : i # j => judge'[i] = judge[i]
  BY DEF IInv, TypeOK
<1>3. HooksAgree'
  BY <1>2 DEF IInv, HooksAgree, Ended, Judge
<1>4. DecisionsAgree'
  BY <1>2 DEF IInv, DecisionsAgree, Justified, Ended, Measured
<1> QED
  BY <1>1, <1>3, <1>4, RowsFrame, RequestsFrame DEF IInv

LEMMA LoadKeeps ==
    ASSUME VerificationAssumption, IInv, NEW k \in Key, Load(k)
    PROVE  IInv'
<1>1. /\ judge[k] \in Judging /\ judge[k].k = k /\ judge[k].pc = "load" /\ k \in Judge
      /\ UNCHANGED <<opp, occ, ver, scan, analysis, oppLock, verLock, req>>
  BY DEF Load, Apart, IInv, TypeOK, HooksAgree, Judge
<1>2. \E e \in Judging : /\ judge' = [judge EXCEPT ![k] = e]
                         /\ e.pc \notin {"decide", "post", "insert"}
                         /\ e.pc # "idle" => e.k = k
  <2> DEFINE repeated == judge[k].got = "raised" /\ analysis[k] # "FAILED"
  <2>1. CASE ~Pending(k) \/ repeated
    <3>1. judge' = [judge EXCEPT ![k] = Idle] /\ Idle \in Judging /\ Idle.pc = "idle"
      BY <2>1 DEF Load, Become, VerificationAssumption, Judging, JudgePc, Idle, Reason, Answer
    <3> QED
      BY <3>1
  <2>2. CASE ~(~Pending(k) \/ repeated)
    <3> DEFINE pc == IF scan[k] = "FAILED" \/ judge[k].got \in {"FAILED", "raised"}
                     THEN "terminalize" ELSE "lock"
               e == [judge[k] EXCEPT !.seen = "PENDING", !.pc = pc]
    <3>1. judge' = [judge EXCEPT ![k] = e]
      BY <2>2 DEF Load, Become
    <3>2. pc \in {"terminalize", "lock"}
      OBVIOUS
    <3> HIDE DEF pc
    <3>3. e \in Judging /\ e.pc \notin {"decide", "post", "insert"} /\ e.k = k
      BY <1>1, <3>2 DEF Judging, JudgePc
    <3> QED
      BY <3>1, <3>3
  <2> QED
    BY <2>1, <2>2
<1> QED
  BY <1>1, <1>2, JudgeOnlyKeeps DEF IInv, TypeOK

LEMMA JudgeFailsKeeps ==
    ASSUME VerificationAssumption, IInv, NEW j \in Judge, JudgeFails(j)
    PROVE  IInv'
<1>1. /\ judge' = [judge EXCEPT ![j] = Idle] /\ Idle \in Judging /\ Idle.pc = "idle"
      /\ verLock' = Unlock(verLock, j)
      /\ UNCHANGED <<opp, occ, ver, scan, analysis, oppLock, req>>
  BY DEF JudgeFails, Become, Apart, VerificationAssumption, Judging, JudgePc, Idle, Reason, Answer
<1>2. /\ verLock' \in [Key -> Judge \cup {None}]
      /\ \A i \in Key : verLock[i] # j => verLock'[i] = verLock[i]
  <2>1. verLock \in [Key -> Judge \cup {None}]
    BY DEF IInv, TypeOK
  <2> QED
    BY <1>1, <2>1, UnlockTypes
<1> QED
  BY <1>1, <1>2, JudgeOnlyKeeps

(* The lifecycle service writes when the scan or the analysis FAILED, or   *)
(* its session still holds a FAILED analysis.                              *)
LEMMA TerminalizeKeeps ==
    ASSUME VerificationAssumption, IInv, NEW k \in Key, Terminalize(k)
    PROVE  IInv'
<1> DEFINE why == IF scan[k] = "FAILED" THEN "VERIFICATION_SCAN_FAILED"
                  ELSE "ANALYSIS_NOT_COMPLETED"
<1>1. /\ judge' = [judge EXCEPT ![k] = Idle] /\ Idle \in Judging /\ Idle.pc = "idle"
      /\ UNCHANGED <<opp, occ, scan, analysis, oppLock, verLock, req>> /\ k \in Judge
      /\ verLock[k] = None /\ Ended(k) /\ ver[k] # None
  BY DEF Terminalize, Become, Apart, VerificationAssumption, Judging, JudgePc, Idle, Reason, Answer,
         Judge, IInv, HooksAgree
<1>2. CASE UNCHANGED ver
  BY <1>1, <1>2, JudgeOnlyKeeps DEF IInv, TypeOK
<1>3. CASE ver' = Settled(k, "INCONCLUSIVE", why)
  <2>1. /\ "INCONCLUSIVE" \in Outcome \ {"PENDING"} /\ why \in Reason /\ why # None
    BY DEF Outcome, Reason, VerificationAssumption
  <2> HIDE DEF why
  <2>2. ver' \in [Key -> VerificationRow \cup {None}]
    BY <1>1, <1>3, <2>1, SettledRow DEF IInv
  <2>3. RowsAgree' /\ OnePending'
    BY <1>1, <1>3, <2>1, SettleKeepsRows
  <2>4. RequestsAgree' /\ OneCreator'
    BY <1>1, <1>3, <2>1, SettleKeepsOthers
  <2>5. HooksAgree' /\ DecisionsAgree'
    <3>1. /\ \A j \in Judge \ {k} : judge'[j] = judge[j]
          /\ \A j \in Judge \ (Judge \ {k}) : judge'[j].pc = "idle"
      BY <1>1 DEF IInv, TypeOK
    <3> QED
      BY <1>1, <1>3, <2>1, <3>1, SettleKeepsJudges
  <2>6. TypeOK'
    BY <1>1, <2>2 DEF IInv, TypeOK
  <2> QED
    BY <2>3, <2>4, <2>5, <2>6 DEF IInv
<1> QED
  BY <1>2, <1>3 DEF Terminalize, Settled

(* What is decided with the lock: the verdict of a completed analysis of   *)
(* what was collected, or that there is none.                              *)
LEMMA DecisionIsJustified ==
    ASSUME VerificationAssumption, IInv, NEW k \in Key, Ended(k)
    PROVE  /\ Decision(k)[1] \in Outcome /\ Decision(k)[2] \in Reason
           /\ \/ /\ Decision(k)[2] = None /\ scan[k] = "collected"
                 /\ analysis[k] \in Verdict /\ Decision(k)[1] = analysis[k]
              \/ Decision(k)[2] # None /\ Decision(k)[1] = "INCONCLUSIVE" /\ ~Measured(k)
<1> USE DEF Outcome, Reason
<1>1. CASE scan[k] = "FAILED"
  <2>1. Decision(k) = <<"INCONCLUSIVE", "VERIFICATION_SCAN_FAILED">>
    BY <1>1 DEF Decision
  <2> QED
    BY <1>1, <2>1 DEF IInv, RowsAgree, VerificationAssumption
<1>2. CASE scan[k] # "FAILED" /\ analysis[k] \notin Verdict
  <2>1. Decision(k) = <<"INCONCLUSIVE", "ANALYSIS_NOT_COMPLETED">>
    BY <1>2 DEF Decision
  <2> QED
    BY <1>2, <2>1 DEF IInv, RowsAgree, VerificationAssumption
<1>3. CASE scan[k] # "FAILED" /\ analysis[k] \in Verdict
  <2>1. Decision(k) = <<analysis[k], None>>
    BY <1>3 DEF Decision
  <2> QED
    BY <1>3, <2>1 DEF Ended
<1> QED
  BY <1>1, <1>2, <1>3

LEMMA LockVerificationKeeps ==
    ASSUME VerificationAssumption, IInv, NEW j \in Judge, NEW k \in Key, ver[k] # None,
           j \in Key => j = k, LockVerification(j, k)
    PROVE  IInv'
<1> DEFINE seen == IF judge[j].seen # None THEN judge[j].seen ELSE ver[k].outcome
<1>1. UNCHANGED <<opp, occ, ver, scan, analysis, oppLock, req>> /\ verLock[k] = None
  BY DEF LockVerification, Apart
<1>2. Idle \in Judging /\ Idle.pc = "idle"
  BY DEF VerificationAssumption, Judging, JudgePc, Idle, Reason, Answer
<1>3. CASE seen # "PENDING" \/ ScanActive(k)
  <2>1. judge' = [judge EXCEPT ![j] = Idle] /\ UNCHANGED verLock
    BY <1>3 DEF LockVerification, Become
  <2> QED
    BY <1>1, <1>2, <2>1, JudgeOnlyKeeps DEF IInv, TypeOK
<1>4. CASE seen = "PENDING" /\ ~ScanActive(k)
  <2> DEFINE e == [pc |-> "decide", k |-> k, got |-> judge[j].got, seen |-> seen,
                   opp |-> opp[ver[k].o], outcome |-> Decision(k)[1], why |-> Decision(k)[2]]
  <2>1. judge' = [judge EXCEPT ![j] = e] /\ verLock' = [verLock EXCEPT ![k] = j]
    BY <1>4 DEF LockVerification, Become
  <2>2. Ended(k)
    BY <1>4 DEF IInv, TypeOK, ScanStage, RowsAgree, ScanActive, Ended
  <2>3. ver[k].o \in Opp
    BY DEF IInv, TypeOK, VerificationRow
  <2>4. opp[ver[k].o] \in OppState
    BY <2>3 DEF IInv, TypeOK
  <2>10. judge[j].got \in Answer
    BY DEF IInv, TypeOK, Judging
  <2>5. /\ e \in Judging /\ e.pc = "decide" /\ e.k = k
        /\ e.outcome = Decision(k)[1] /\ e.why = Decision(k)[2]
    BY <1>4, <2>2, <2>4, <2>10, DecisionIsJustified DEF Judging, JudgePc
  <2> HIDE DEF e
  <2>6. TypeOK'
    BY <1>1, <2>1, <2>5 DEF IInv, TypeOK
  <2>7. /\ judge'[j] = e /\ \A i \in Judge : i # j => judge'[i] = judge[i]
        /\ verLock'[k] = j /\ \A i \in Key : i # k => verLock'[i] = verLock[i]
    BY <2>1 DEF IInv, TypeOK
  <2>8. HooksAgree'
    BY <1>1, <2>2, <2>5, <2>7 DEF IInv, HooksAgree, Ended, Judge
  <2>9. DecisionsAgree'
    <3>1. Justified(j, judge[j].k)'
      BY <1>1, <2>2, <2>5, <2>7, DecisionIsJustified DEF Justified, Ended, Measured
    <3>2. ASSUME NEW i \in Judge, i # j, judge'[i].pc = "decide"
          PROVE  Justified(i, judge[i].k)'
      <4>1. Justified(i, judge[i].k) /\ judge'[i] = judge[i]
        BY <2>7, <3>2 DEF IInv, DecisionsAgree
      <4>2. judge[i].k # k
        BY <1>1, <4>1 DEF Justified, VerificationAssumption, Judge
      <4> QED
        BY <1>1, <2>7, <4>1, <4>2 DEF Justified, Ended, Measured
    <3> QED
      BY <3>1, <3>2 DEF DecisionsAgree
  <2> QED
    BY <1>1, <2>6, <2>8, <2>9, RowsFrame, RequestsFrame DEF IInv
<1> QED
  BY <1>3, <1>4

LEMMA EvaluateKeeps ==
    ASSUME VerificationAssumption, IInv, NEW j \in Evaluator, NEW k \in Key, Evaluate(j, k)
    PROVE  IInv'
BY LockVerificationKeeps DEF Evaluate, Judge, VerificationAssumption

LEMMA AutoEvaluateKeeps ==
    ASSUME VerificationAssumption, IInv, NEW k \in Key, AutoEvaluate(k)
    PROVE  IInv'
BY LockVerificationKeeps DEF AutoEvaluate, Judge, IInv, HooksAgree

(* Writing a decision: to the row that is held, for a scan that ended.     *)
LEMMA WrittenKeeps ==
    ASSUME VerificationAssumption, IInv, NEW j \in Judge, judge[j].pc = "decide",
           ver' = Written(j), verLock' = Unlock(verLock, j),
           judge' = [judge EXCEPT ![j] = Idle], UNCHANGED <<occ, scan, analysis, oppLock, req>>,
           opp' \in [Opp -> OppState]
    PROVE  IInv'
<1> DEFINE k == judge[j].k
           outcome == judge[j].outcome
           why == judge[j].why
<1>1. Justified(j, k) /\ judge[j] \in Judging
  BY DEF IInv, DecisionsAgree, TypeOK
<1>2. /\ k \in Key /\ verLock[k] = j /\ Ended(k) /\ ver[k] # None
      /\ why = None => analysis[k] \in Verdict /\ outcome = analysis[k]
      /\ outcome \in Outcome \ {"PENDING"} /\ why \in Reason
  <2>1. why \in Reason
    BY <1>1 DEF Judging
  <2> QED
    BY <1>1, <2>1, Verdicts DEF Justified, Outcome
<1>3. ver' = Settled(k, outcome, why)
  BY DEF Written, Settled
<1> HIDE DEF outcome, why
<1>4. ver' \in [Key -> VerificationRow \cup {None}]
  BY <1>2, <1>3, SettledRow DEF IInv
<1>5. RowsAgree' /\ OnePending'
  BY <1>2, <1>3, SettleKeepsRows
<1>6. /\ RequestsAgree' /\ OneCreator'
      /\ \A i \in Key : (ver'[i] = None) <=> (ver[i] = None)
      /\ \A i \in Key : i # k => (Measured(i)' <=> Measured(i))
  BY <1>2, <1>3, SettleKeepsOthers
<1>7. /\ verLock' \in [Key -> Judge \cup {None}]
      /\ \A i \in Key : verLock[i] # j => verLock'[i] = verLock[i]
  <2>1. verLock \in [Key -> Judge \cup {None}]
    BY DEF IInv, TypeOK
  <2>2. /\ Unlock(verLock, j) \in [Key -> Judge \cup {None}]
        /\ \A i \in Key : verLock[i] # j => Unlock(verLock, j)[i] = verLock[i]
    BY <2>1 DEF Unlock
  <2> QED
    BY <2>2
<1>8. /\ Idle \in Judging /\ judge'[j].pc = "idle"
      /\ \A i \in Judge : i # j => judge'[i] = judge[i]
  BY DEF VerificationAssumption, Judging, JudgePc, Idle, Reason, Answer, IInv, TypeOK
<1>9. TypeOK'
  BY <1>4, <1>7, <1>8 DEF IInv, TypeOK
<1>10. HooksAgree'
  BY <1>6, <1>8 DEF IInv, HooksAgree, Ended, Judge
<1>11. DecisionsAgree'
  <2>1. ASSUME NEW i \in Judge, judge'[i].pc = "decide" PROVE Justified(i, judge[i].k)'
    <3>1. i # j /\ judge'[i] = judge[i]
      BY <1>8, <2>1
    <3>2. Justified(i, judge[i].k) /\ judge[i].k # k
      BY <1>2, <2>1, <3>1 DEF IInv, DecisionsAgree, Justified
    <3> QED
      BY <1>6, <1>7, <3>1, <3>2 DEF Justified, Ended
  <2> QED
    BY <2>1 DEF DecisionsAgree
<1> QED
  BY <1>5, <1>6, <1>9, <1>10, <1>11 DEF IInv

LEMMA ConcludeKeeps ==
    ASSUME VerificationAssumption, IInv, NEW j \in Judge, Conclude(j)
    PROVE  IInv'
BY WrittenKeeps DEF Conclude, Become, Apart, IInv, TypeOK

LEMMA ResolveKeeps ==
    ASSUME VerificationAssumption, IInv, NEW j \in Judge, Resolve(j)
    PROVE  IInv'
<1> DEFINE o == ver[judge[j].k].o
<1>1. judge[j].k \in Key /\ ver[judge[j].k] # None
  BY DEF Resolve, IInv, DecisionsAgree, Justified
<1>2. o \in Opp
  BY <1>1 DEF IInv, TypeOK, VerificationRow
<1>3. PICK status \in OppStatus : opp' = [opp EXCEPT ![o].status = status]
  <2> DEFINE new == IF /\ judge[j].opp.baseline = ver[judge[j].k].baseline
                       /\ judge[j].opp.status = "IMPLEMENTED"
                    THEN "VERIFIED" ELSE opp[o].status
  <2>1. opp' = [opp EXCEPT ![o].status = new]
    BY DEF Resolve
  <2>2. opp[o].status \in OppStatus
    BY <1>2 DEF IInv, TypeOK, OppState
  <2>3. new \in OppStatus
    BY <2>2 DEF OppStatus
  <2> QED
    BY <2>1, <2>3
<1>4. opp' \in [Opp -> OppState]
  BY <1>2, <1>3 DEF IInv, TypeOK, OppState
<1> QED
  BY <1>4, WrittenKeeps DEF Resolve, Become, Apart

-----------------------------------------------------------------------------
(* The theorems *)

(* The tables start empty. *)
LEMMA IInvInit == VerificationAssumption /\ Init => IInv
<1> SUFFICES ASSUME VerificationAssumption, Init PROVE IInv
  OBVIOUS
<1>1. NoRequest \in Request /\ Idle \in Judging
  BY NoRequestType DEF VerificationAssumption, Judging, JudgePc, Idle, Reason, Answer
<1>2. TypeOK
  BY <1>1 DEF Init, TypeOK, OppState, OppStatus, ScanStage, VerificationAssumption
<1>3. RowsAgree /\ OnePending
  BY Verdicts DEF Init, RowsAgree, OnePending, ScanActive, Pending, Measured
<1>4. RequestsAgree /\ OneCreator
  BY DEF Init, RequestsAgree, OneCreator, Sound, Creates, NoRequest
<1>5. HooksAgree /\ DecisionsAgree
  BY DEF Init, HooksAgree, DecisionsAgree, Idle, Judge
<1> QED
  BY <1>2, <1>3, <1>4, <1>5 DEF IInv

(* Every step keeps the invariant. *)
LEMMA IInvStep == VerificationAssumption /\ IInv /\ [Next]_vars => IInv'
<1> SUFFICES ASSUME VerificationAssumption, IInv, [Next]_vars PROVE IInv'
  OBVIOUS
<1>1. ASSUME NEW o \in Opp, NEW new \in OppStatus, Transition(o, new) PROVE IInv'
  BY <1>1, TransitionKeeps
<1>2. ASSUME NEW o \in Opp, DetectAgain(o) PROVE IInv'
  BY <1>2, DetectAgainKeeps
<1>3. ASSUME NEW o \in Opp, NEW r \in Requester, NEW k \in Key, FindExisting(r, k, o)
      PROVE  IInv'
  BY <1>3, FindExistingKeeps
<1>4. ASSUME NEW r \in Requester, RequestStep(r) PROVE IInv'
  BY <1>4, LockOpportunityKeeps, CheckPendingKeeps, TerminalizeFirstKeeps, PreflightFailsKeeps,
     InsertKeeps, ReserveKeeps, QuotaExceededKeeps, QuotaFailedKeeps, DispatchKeeps
     DEF RequestStep
<1>5. ASSUME NEW r \in Requester, RequestDies(r) PROVE IInv'
  BY <1>5, RequestDiesKeeps
<1>6. ASSUME NEW k \in Key, ScanEnds(k) \/ HookStep(k) \/ AnalyseByHand(k) PROVE IInv'
  BY <1>6, ScanEndsKeeps, PostFinalizeKeeps, InsertAnalysisKeeps, LoadKeeps, TerminalizeKeeps,
     AutoEvaluateKeeps, AnalyseByHandKeeps DEF HookStep
<1>7. ASSUME NEW k \in Key, NEW j \in Evaluator, Evaluate(j, k) PROVE IInv'
  BY <1>7, EvaluateKeeps
<1>8. ASSUME NEW j \in Judge, JudgeStep(j) \/ JudgeFails(j) PROVE IInv'
  BY <1>8, ConcludeKeeps, ResolveKeeps, JudgeFailsKeeps DEF JudgeStep
<1>9. CASE UNCHANGED vars
  <2>1. TypeOK'
    BY <1>9 DEF vars, IInv, TypeOK
  <2> QED
    BY <1>9, <2>1, RowsFrame, RequestsFrame, JudgesFrame DEF vars, IInv
<1> QED
  BY <1>1, <1>2, <1>3, <1>4, <1>5, <1>6, <1>7, <1>8, <1>9 DEF Next

LEMMA InvariantHolds == ASSUME VerificationAssumption PROVE Spec => []IInv
<1>1. Init => IInv
  BY IInvInit
<1>2. IInv /\ [Next]_vars => IInv'
  BY IInvStep
<1> QED
  BY <1>1, <1>2, PTL DEF Spec

(* The tables, the row locks and the program counters of the requests and  *)
(* evaluations of opportunity_workflow_service.py and the verification_*   *)
(* services keep their types.                                              *)
THEOREM TypeCorrect == ASSUME VerificationAssumption PROVE Spec => []TypeOK
<1>1. IInv => TypeOK
  BY DEF IInv
<1> QED
  BY <1>1, InvariantHolds, PTL

(* What IInv says of the pending verifications of one cycle. *)
LEMMA OnePerCycle == IInv => OneMeasurementPerCycle
<1> SUFFICES ASSUME IInv, NEW o \in Opp, NEW baseline \in 1 .. MaxOcc
             PROVE  Cardinality({k \in Key : OfCycle(k, o, baseline)
                                             /\ (ScanActive(k) \/ Pending(k))}) <= 1
  BY DEF OneMeasurementPerCycle
<1> DEFINE S == {k \in Key : OfCycle(k, o, baseline) /\ (ScanActive(k) \/ Pending(k))}
<1>1. \A k1, k2 \in S : k1 = k2
  BY DEF IInv, RowsAgree, OnePending, OfCycle
<1>2. CASE S = {}
  BY <1>2, FS_EmptySet
<1>3. CASE S # {}
  <2>1. PICK k \in S : S = {k}
    BY <1>1, <1>3
  <2> HIDE DEF S
  <2>2. Cardinality(S) = 1
    BY <2>1, FS_Singleton
  <2> QED
    BY <2>2 DEF S
<1> QED
  BY <1>2, <1>3

(* verification_scan_creation_service.py: however many requests race,      *)
(* whatever is settled, refused or dies on the way, at most one            *)
(* verification of an opportunity and baseline is running or waits for its *)
(* evaluation.                                                             *)
THEOREM OneAtATime ==
    ASSUME VerificationAssumption PROVE Spec => []OneMeasurementPerCycle
BY OnePerCycle, InvariantHolds, PTL

(* What a request settles has a scan that FAILED, what is resolved one     *)
(* that was collected.                                                     *)
LEMMA NobodyWaits == IInv => NoWaitCycle
BY DEF IInv, RequestsAgree, Sound, DecisionsAgree, Justified, NoWaitCycle

(* verification_scan_creation_service.py:443 and verification_evaluation_  *)
(* service.py: a request that settles a verification, holding its          *)
(* opportunity, never waits for an evaluation that waits for that          *)
(* opportunity: who resolves has collected evidence, and what is settled   *)
(* had a scan that FAILED.                                                 *)
THEOREM LocksNeverMeet == ASSUME VerificationAssumption PROVE Spec => []NoWaitCycle
BY NobodyWaits, InvariantHolds, PTL

(* A row that is settled by a request or a hook was not measured, or its   *)
(* outcome is the one the analysis has anyway, or the hook holds the row   *)
(* of a failure that is past.                                              *)
LEMMA SettleKeepsMeasured ==
    ASSUME VerificationAssumption, IInv, NEW k \in Key, ver[k] # None,
           NEW outcome \in Outcome, NEW why \in Reason,
           Measured(k) /\ ~HoldsFailedRow(k) => outcome = ver[k].outcome,
           ver' = Settled(k, outcome, why)
    PROVE  KeepsMeasuredOutcomes
<1>1. /\ \A i \in Key : i # k => ver'[i] = ver[i]
      /\ ver'[k].outcome = outcome
  BY SettledRow DEF IInv
<1> QED
  BY <1>1 DEF KeepsMeasuredOutcomes, Measured

LEMMA StepKeepsMeasured ==
    VerificationAssumption /\ IInv /\ [Next]_vars => [KeepsMeasuredOutcomes]_vars
<1> SUFFICES ASSUME VerificationAssumption, IInv, Next PROVE KeepsMeasuredOutcomes
  OBVIOUS
<1> USE DEF Apart
<1>1. ASSUME UNCHANGED ver PROVE KeepsMeasuredOutcomes
  BY <1>1 DEF KeepsMeasuredOutcomes
<1>2. /\ "INCONCLUSIVE" \in Outcome /\ "VERIFICATION_SCAN_FAILED" \in Reason
      /\ "ANALYSIS_NOT_COMPLETED" \in Reason
  BY DEF Outcome, Reason
<1>3. ASSUME NEW r \in Requester, TerminalizeFirst(r) PROVE KeepsMeasuredOutcomes
  <2> DEFINE k == req[r].old
  <2>1. k \in Key /\ ver[k] # None /\ ~Measured(k)
    BY <1>3 DEF TerminalizeFirst, IInv, RequestsAgree, Sound, RowsAgree
  <2>2. ver' = Settled(k, "INCONCLUSIVE", "VERIFICATION_SCAN_FAILED")
    BY <1>3 DEF TerminalizeFirst, Settled
  <2> QED
    BY <1>2, <2>1, <2>2, SettleKeepsMeasured
<1>4. ASSUME NEW r \in Requester, QuotaFailed(r) PROVE KeepsMeasuredOutcomes
  <2> DEFINE k == req[r].k
  <2>1. k \in Key /\ ver[k] # None /\ ~Measured(k)
    BY <1>4 DEF QuotaFailed, IInv, RequestsAgree, Sound, Creates, RowsAgree
  <2>2. ver' = Settled(k, "INCONCLUSIVE", "VERIFICATION_SCAN_FAILED")
    BY <1>4 DEF QuotaFailed, Settled
  <2> QED
    BY <1>2, <2>1, <2>2, SettleKeepsMeasured
<1>5. ASSUME NEW r \in Requester, Insert(r) PROVE KeepsMeasuredOutcomes
  <2> DEFINE k == req[r].k
  <2>1. k \in Key
    BY <1>5 DEF Insert, IInv, RequestsAgree, Sound
  <2>2. CASE UNCHANGED ver
    BY <1>1, <2>2
  <2>3. CASE ver[k] = None /\ \A i \in Key : i # k => ver'[i] = ver[i]
    BY <2>1, <2>3 DEF KeepsMeasuredOutcomes, Measured
  <2>4. \/ UNCHANGED ver
        \/ ver[k] = None /\ \A i \in Key : i # k => ver'[i] = ver[i]
    BY <1>5, <2>1 DEF Insert, IInv, TypeOK
  <2> QED
    BY <2>2, <2>3, <2>4
<1>6. ASSUME NEW k \in Key, Terminalize(k) PROVE KeepsMeasuredOutcomes
  <2>1. ver[k] # None
    BY <1>6 DEF Terminalize, IInv, HooksAgree
  <2>2. CASE UNCHANGED ver
    BY <1>1, <2>2
  <2>3. CASE scan[k] = "FAILED" \/ judge[k].got = "FAILED" \/ analysis[k] = "FAILED"
    <3> DEFINE why == IF scan[k] = "FAILED" THEN "VERIFICATION_SCAN_FAILED"
                      ELSE "ANALYSIS_NOT_COMPLETED"
    <3>1. ~Measured(k) \/ HoldsFailedRow(k)
      BY <1>6, <2>3, Verdicts DEF IInv, RowsAgree, Terminalize, HoldsFailedRow
    <3>2. ver' = Settled(k, "INCONCLUSIVE", why)
      BY <1>6, <2>3 DEF Terminalize, Settled
    <3>3. why \in Reason
      BY <1>2
    <3> HIDE DEF why
    <3> QED
      BY <1>2, <2>1, <3>1, <3>2, <3>3, SettleKeepsMeasured
  <2> QED
    BY <1>6, <2>2, <2>3 DEF Terminalize
<1>7. ASSUME NEW j \in Judge, JudgeStep(j) PROVE KeepsMeasuredOutcomes
  <2> DEFINE k == judge[j].k
  <2>1. ver' = Settled(k, judge[j].outcome, judge[j].why) /\ judge[j].pc = "decide"
    BY <1>7 DEF JudgeStep, Conclude, Resolve, Written, Settled
  <2>2. Justified(j, k) /\ judge[j] \in Judging
    BY <2>1 DEF IInv, DecisionsAgree, TypeOK
  <2>3. /\ k \in Key /\ ver[k] # None
        /\ Measured(k) => judge[j].outcome = ver[k].outcome
    BY <2>2 DEF Justified, IInv, RowsAgree
  <2>4. judge[j].outcome \in Outcome /\ judge[j].why \in Reason
    BY <2>2, Verdicts DEF Justified, Judging, Outcome
  <2> QED
    BY <2>1, <2>3, <2>4, SettleKeepsMeasured
<1>8. ASSUME NEW o \in Opp, \/ \E new \in OppStatus : Transition(o, new)
                            \/ DetectAgain(o)
                            \/ \E r \in Requester, k \in Key : FindExisting(r, k, o)
      PROVE  UNCHANGED ver
  BY <1>8 DEF Transition, DetectAgain, FindExisting
<1>9. ASSUME NEW r \in Requester, RequestStep(r) \/ RequestDies(r) PROVE KeepsMeasuredOutcomes
  BY <1>1, <1>3, <1>4, <1>5, <1>9 DEF RequestStep, LockOpportunity, CheckPending,
     PreflightFails, Reserve, QuotaExceeded, Dispatch, RequestDies
<1>10. ASSUME NEW k \in Key, \/ ScanEnds(k) \/ HookStep(k) \/ AnalyseByHand(k)
                             \/ \E j \in Evaluator : Evaluate(j, k)
       PROVE  KeepsMeasuredOutcomes
  BY <1>1, <1>6, <1>10 DEF ScanEnds, HookStep, PostFinalize, InsertAnalysis, Load,
     AutoEvaluate, AnalyseByHand, Evaluate, LockVerification
<1>11. ASSUME NEW j \in Judge, JudgeFails(j) PROVE UNCHANGED ver
  BY <1>11 DEF JudgeFails
<1> QED
  BY <1>1, <1>7, <1>8, <1>9, <1>10, <1>11 DEF Next

(* verification_evaluation_service.py, verification_lifecycle_service.py:  *)
(* though sessions write from copies they read without a lock, an outcome  *)
(* that rests on a completed analysis is replaced by nobody but a hook     *)
(* that was given the FAILED row of another session (HoldsFailedRow).      *)
THEOREM MeasuredKept == ASSUME VerificationAssumption PROVE Spec => MeasuredOutcomeKept
<1>1. IInv /\ [Next]_vars => [KeepsMeasuredOutcomes]_vars
  BY StepKeepsMeasured
<1> QED
  BY <1>1, InvariantHolds, PTL DEF Spec, MeasuredOutcomeKept
=============================================================================
