---------------------------- MODULE Verification ----------------------------
(***************************************************************************)
(* An opportunity's workflow and the VERIFICATION scans that measure it    *)
(* again: opportunity_workflow_service.py, verification_scan_creation_     *)
(* service.py, verification_lifecycle_service.py, the transactions of      *)
(* verification_evaluation_service.py and the hook that runs after a scan  *)
(* was finalized (scan_finalization_service.py:158).                       *)
(*                                                                         *)
(* A request holds a row FOR UPDATE over several steps, so row locks are   *)
(* state.  SELECT ... FOR UPDATE does not refresh a row its session has    *)
(* loaded before: a session that loaded a row without a lock goes on with  *)
(* that copy.  What the evidence of a scan amounts to (GapRules) is an     *)
(* input: the verdict drawn when its analysis completes.                   *)
(***************************************************************************)
EXTENDS Integers, FiniteSets

CONSTANTS
    Opp,          \* opportunities
    Key,          \* verifications, and their scans, by idempotency key
    Requester,    \* requests that create a verification
    Evaluator,    \* requests that evaluate one
    Verdict,      \* the outcomes the evidence of a scan may support
    MaxOcc, MaxEdits, MaxCrashes,
    None

Outcome == Verdict \cup {"PENDING", "INCONCLUSIVE"}
Reason == {None, "VERIFICATION_SCAN_FAILED", "ANALYSIS_NOT_COMPLETED"}
VerificationRow == [o : Opp, baseline : 1 .. MaxOcc, outcome : Outcome, reason : Reason]

(* What the constants are; a module that instantiates this one assumes it.*)
VerificationAssumption ==
    /\ Verdict \subseteq {"RESOLVED", "IMPROVED", "NOT_IMPROVED", "REGRESSED", "INCONCLUSIVE"}
    /\ MaxOcc \in Nat \ {0}
    /\ Evaluator \cap Key = {}
    /\ None \notin Opp \cup Key \cup Requester \cup Evaluator
    /\ None \notin Outcome \cup {"VERIFICATION_SCAN_FAILED", "ANALYSIS_NOT_COMPLETED"}
    /\ None \notin VerificationRow

Judge == Evaluator \cup Key       \* the hook of scan k is judge k

VARIABLES
    opp,        \* opportunities: status and frozen baseline occurrence, 0 for none
    occ,        \* how many eligible occurrences an opportunity has, the last the latest
    ver,        \* opportunity_verifications, or None
    scan,       \* the verification's scan
    analysis,   \* its analysis: "none", "FAILED", or COMPLETED with this verdict
    oppLock, verLock,
    req, judge,
    edits, crashes,
    lost        \* history: keys whose creation or hook stopped short

vars == <<opp, occ, ver, scan, analysis, oppLock, verLock, req, judge, edits,
          crashes, lost>>

OppStatus == {"OPEN", "IN_PROGRESS", "IMPLEMENTED", "DISMISSED", "VERIFIED"}

(* planned: no reservation yet; collected: COMPLETED or PARTIAL. *)
ScanStage == {"none", "planned", "reserved", "dispatched", "collected", "FAILED"}
ScanActive(k) == scan[k] \in {"planned", "reserved", "dispatched"}

OppState == [status : OppStatus, baseline : 0 .. MaxOcc]

RequestPc ==
    {"idle", "lock", "check", "terminalize", "insert", "reserve", "quota", "dispatch"}

Request ==
    [pc : RequestPc, k : Key \cup {None}, o : Opp \cup {None},
     baseline : 0 .. MaxOcc, old : Key \cup {None}]

JudgePc == {"idle", "post", "insert", "load", "terminalize", "lock", "decide"}

(* What analyze() answered the hook: it returned a row, or it raised.      *)
Answer == {"none", "COMPLETED", "FAILED", "raised"}

Judging ==
    [pc : JudgePc, k : Key \cup {None}, got : Answer, seen : {"PENDING", None},
     opp : OppState \cup {None}, outcome : Outcome \cup {None}, why : Reason]

NoRequest == [pc |-> "idle", k |-> None, o |-> None, baseline |-> 0, old |-> None]
Idle == [pc |-> "idle", k |-> None, got |-> "none", seen |-> None, opp |-> None,
         outcome |-> None, why |-> None]

Init ==
    /\ opp = [o \in Opp |-> [status |-> "OPEN", baseline |-> 0]]
    /\ occ = [o \in Opp |-> 1]
    /\ ver = [k \in Key |-> None]
    /\ scan = [k \in Key |-> "none"]
    /\ analysis = [k \in Key |-> "none"]
    /\ oppLock = [o \in Opp |-> None]
    /\ verLock = [k \in Key |-> None]
    /\ req = [r \in Requester |-> NoRequest]
    /\ judge = [j \in Judge |-> Idle]
    /\ edits = 0
    /\ crashes = 0
    /\ lost = {}

Pending(k) == ver[k] # None /\ ver[k].outcome = "PENDING"

OfCycle(k, o, baseline) == ver[k] # None /\ ver[k].o = o /\ ver[k].baseline = baseline

Unlock(lock, p) == [x \in DOMAIN lock |-> IF lock[x] = p THEN None ELSE lock[x]]

-----------------------------------------------------------------------------
(* The workflow of an opportunity *)

Allowed == [OPEN |-> {"IN_PROGRESS", "DISMISSED"},
            IN_PROGRESS |-> {"OPEN", "IMPLEMENTED", "DISMISSED"},
            IMPLEMENTED |-> {"IN_PROGRESS", "DISMISSED"},
            DISMISSED |-> {"OPEN"},
            VERIFIED |-> {}]

(* The baseline after a transition.  It is cleared when an implementation  *)
(* is taken back, kept by a dismissal and what follows it, and frozen to   *)
(* the latest eligible occurrence only when there is none.                 *)
Baseline(o, new) ==
    CASE new = "IMPLEMENTED" /\ opp[o].baseline = 0 -> occ[o]
      [] new = "IN_PROGRESS" /\ opp[o].status = "IMPLEMENTED" -> 0
      [] OTHER -> opp[o].baseline

Transition(o, new) ==
    /\ edits < MaxEdits
    /\ oppLock[o] = None
    /\ new \in Allowed[opp[o].status]
    /\ new = "IMPLEMENTED" => Baseline(o, new) # 0
    /\ opp' = [opp EXCEPT ![o] = [status |-> new, baseline |-> Baseline(o, new)]]
    /\ edits' = edits + 1
    /\ UNCHANGED <<occ, ver, scan, analysis, oppLock, verLock, req, judge, crashes, lost>>

(* A later STANDARD scan detects the opportunity again. *)
DetectAgain(o) ==
    /\ occ[o] < MaxOcc
    /\ occ' = [occ EXCEPT ![o] = @ + 1]
    /\ UNCHANGED <<opp, ver, scan, analysis, oppLock, verLock, req, judge, edits,
                   crashes, lost>>

-----------------------------------------------------------------------------
(* create_verification_scan *)

Continue(r, next) == req' = [req EXCEPT ![r] = next]

EndRequest(r) ==
    /\ Continue(r, NoRequest)
    /\ oppLock' = Unlock(oppLock, r)

Apart == <<occ, edits>>

(* A key that is in the table resumes the dispatch it lacks, if its        *)
(* opportunity has not been given another baseline since.                  *)
FoundByKey(r, k, o) ==
    IF /\ ver[k].o = o
       /\ opp[o].baseline \in {0, ver[k].baseline}
       /\ scan[k] = "reserved"
    THEN [NoRequest EXCEPT !.pc = "dispatch", !.k = k, !.o = o]
    ELSE NoRequest

FindExisting(r, k, o) ==
    /\ req[r].pc = "idle"
    /\ Continue(r, IF ver[k] # None THEN FoundByKey(r, k, o)
                   ELSE [NoRequest EXCEPT !.pc = "lock", !.k = k, !.o = o])
    /\ UNCHANGED <<opp, ver, scan, analysis, oppLock, verLock, judge, crashes, lost, Apart>>

LockOpportunity(r) ==
    LET o == req[r].o IN
    /\ req[r].pc = "lock" /\ oppLock[o] = None
    /\ IF opp[o].status = "IMPLEMENTED" /\ opp[o].baseline # 0
       THEN /\ oppLock' = [oppLock EXCEPT ![o] = r]
            /\ Continue(r, [req[r] EXCEPT !.pc = "check", !.baseline = opp[o].baseline])
       ELSE EndRequest(r)
    /\ UNCHANGED <<opp, ver, scan, analysis, verLock, judge, crashes, lost, Apart>>

PendingInCycle(r) ==
    {k \in Key : OfCycle(k, req[r].o, req[r].baseline) /\ Pending(k)}

AfterCheck(r) ==
    \/ PendingInCycle(r) = {} /\ Continue(r, [req[r] EXCEPT !.pc = "insert"])
    \/ \E k \in PendingInCycle(r) :
          Continue(r, [req[r] EXCEPT !.pc = "terminalize", !.old = k])

(* Mutant: any verification whose scan ended gives way to a new one. *)
CheckPendingAnyEnded(r) ==
    /\ req[r].pc = "check"
    /\ IF \E k \in PendingInCycle(r) : ScanActive(k)
       THEN EndRequest(r)
       ELSE AfterCheck(r) /\ UNCHANGED oppLock
    /\ UNCHANGED <<opp, ver, scan, analysis, verLock, judge, crashes, lost, Apart>>

(* _check_no_pending_verification: a verification of this cycle whose scan *)
(* is active or not evaluated is a conflict; one whose scan FAILED is      *)
(* settled on the way.                                                     *)
CheckPending(r) ==
    /\ req[r].pc = "check"
    /\ IF \E k \in PendingInCycle(r) : scan[k] # "FAILED"
       THEN EndRequest(r)
       ELSE AfterCheck(r) /\ UNCHANGED oppLock
    /\ UNCHANGED <<opp, ver, scan, analysis, verLock, judge, crashes, lost, Apart>>

(* terminalize_failed_scan of the verification the check found, in the     *)
(* request's session: its copy is PENDING, so it writes whatever the row   *)
(* says by now.  It commits, and with that the lock of the opportunity is  *)
(* gone while the creation goes on.                                        *)
TerminalizeFirst(r) ==
    LET k == req[r].old IN
    /\ req[r].pc = "terminalize"
    /\ verLock[k] = None
    /\ ver' = [ver EXCEPT ![k].outcome = "INCONCLUSIVE",
                          ![k].reason = "VERIFICATION_SCAN_FAILED"]
    /\ Continue(r, [req[r] EXCEPT !.pc = "insert"])
    /\ oppLock' = Unlock(oppLock, r)
    /\ UNCHANGED <<opp, scan, analysis, verLock, judge, crashes, lost, Apart>>

(* The project, the plan, the scope's providers or their prices say no. *)
PreflightFails(r) ==
    /\ req[r].pc = "insert"
    /\ EndRequest(r)
    /\ UNCHANGED <<opp, ver, scan, analysis, verLock, judge, crashes, lost, Apart>>

(* Two unique indexes: one verification per key, and one PENDING one per   *)
(* opportunity and baseline.  On a conflict the request returns what has   *)
(* its key, or fails.                                                      *)
Insert(r) ==
    LET k == req[r].k IN
    /\ req[r].pc = "insert"
    /\ oppLock' = Unlock(oppLock, r)
    /\ IF ver[k] = None /\ PendingInCycle(r) = {}
       THEN /\ ver' = [ver EXCEPT ![k] = [o |-> req[r].o, baseline |-> req[r].baseline,
                                          outcome |-> "PENDING", reason |-> None]]
            /\ scan' = [scan EXCEPT ![k] = "planned"]
            /\ Continue(r, [req[r] EXCEPT !.pc = "reserve"])
       ELSE /\ Continue(r, IF ver[k] = None THEN NoRequest ELSE FoundByKey(r, k, req[r].o))
            /\ UNCHANGED <<ver, scan>>
    /\ UNCHANGED <<opp, analysis, verLock, judge, crashes, lost, Apart>>

Reserve(r) ==
    /\ req[r].pc = "reserve"
    /\ Continue(r, [req[r] EXCEPT !.pc = "dispatch"])
    /\ scan' = [scan EXCEPT ![req[r].k] = "reserved"]
    /\ UNCHANGED <<opp, ver, analysis, oppLock, verLock, judge, crashes, lost, Apart>>

(* _mark_quota_failed: the scan in one transaction ... *)
QuotaExceeded(r) ==
    /\ req[r].pc = "reserve"
    /\ Continue(r, [req[r] EXCEPT !.pc = "quota"])
    /\ scan' = [scan EXCEPT ![req[r].k] = "FAILED"]
    /\ UNCHANGED <<opp, ver, analysis, oppLock, verLock, judge, crashes, lost, Apart>>

(* ... and its verification, whatever it says by then, in the next.        *)
QuotaFailed(r) ==
    LET k == req[r].k IN
    /\ req[r].pc = "quota" /\ verLock[k] = None
    /\ ver' = [ver EXCEPT ![k].outcome = "INCONCLUSIVE",
                          ![k].reason = "VERIFICATION_SCAN_FAILED"]
    /\ Continue(r, NoRequest)
    /\ UNCHANGED <<opp, scan, analysis, oppLock, verLock, judge, crashes, lost, Apart>>

(* The broker may refuse the message; a later request with the key resumes.*)
Dispatch(r) ==
    /\ req[r].pc = "dispatch"
    /\ \/ scan' = [scan EXCEPT ![req[r].k] = IF @ = "reserved" THEN "dispatched" ELSE @]
       \/ UNCHANGED scan
    /\ Continue(r, NoRequest)
    /\ UNCHANGED <<opp, ver, analysis, oppLock, verLock, judge, crashes, lost, Apart>>

RequestDies(r) ==
    /\ req[r].pc # "idle" /\ crashes < MaxCrashes
    /\ crashes' = crashes + 1
    /\ lost' = IF req[r].pc = "quota" THEN lost \cup {req[r].k} ELSE lost
    /\ EndRequest(r)
    /\ UNCHANGED <<opp, ver, scan, analysis, verLock, judge, Apart>>

-----------------------------------------------------------------------------
(* The end of the scan, and the hook that runs after it *)

Created(k) == \A r \in Requester : req[r].k = k => req[r].pc \notin {"reserve", "quota"}

(* The scan is finalized by its worker, or by recovery when it never ran.  *)
(* A scan that collected nothing is FAILED, and is not analysed.           *)
ScanEnds(k) ==
    /\ \/ scan[k] = "dispatched" /\ \E end \in {"collected", "FAILED"} :
                                        scan' = [scan EXCEPT ![k] = end]
       \/ scan[k] \in {"planned", "reserved"} /\ Created(k)
          /\ scan' = [scan EXCEPT ![k] = "FAILED"]
    /\ judge' = [judge EXCEPT ![k] =
                    [Idle EXCEPT !.pc = IF scan'[k] = "FAILED" THEN "load" ELSE "post",
                                 !.k = k]]
    /\ UNCHANGED <<opp, ver, analysis, oppLock, verLock, req, crashes, lost, Apart>>

Become(j, next) == judge' = [judge EXCEPT ![j] = next]

(* The analysis runs under the lock of its row, and completes, or fails    *)
(* and raises once that is recorded.  (A row without snapshots would fail  *)
(* and be returned; a verification is created with them.)                  *)
Analyse(k) ==
    \E a \in Verdict \cup {"FAILED"} :
        /\ analysis' = [analysis EXCEPT ![k] = a]
        /\ Become(k, [judge[k] EXCEPT !.pc = "load",
                                      !.got = IF a = "FAILED" THEN "raised" ELSE "COMPLETED"])

Answered(k, got) ==
    /\ Become(k, [judge[k] EXCEPT !.pc = "load", !.got = got])
    /\ UNCHANGED analysis

(* _post_finalize_verification_lifecycle: a scan that collected something  *)
(* is analysed, if nobody completed that meanwhile; a FAILED analysis is   *)
(* repeated, and a missing one inserted, if it is missing then.            *)
PostFinalize(k) ==
    /\ judge[k].pc = "post"
    /\ \/ analysis[k] \in Verdict /\ Answered(k, "COMPLETED")
       \/ analysis[k] = "FAILED" /\ Analyse(k)
       \/ /\ analysis[k] = "none"
          /\ Become(k, [judge[k] EXCEPT !.pc = "insert"])
          /\ UNCHANGED analysis
    /\ UNCHANGED <<opp, ver, scan, oppLock, verLock, req, crashes, lost, Apart>>

(* The insert may lose to another session's, whose row is returned then,   *)
(* FAILED or COMPLETED.                                                    *)
InsertAnalysis(k) ==
    /\ judge[k].pc = "insert"
    /\ \/ analysis[k] = "none" /\ Analyse(k)
       \/ analysis[k] = "FAILED" /\ Answered(k, "FAILED")
       \/ analysis[k] \in Verdict /\ Answered(k, "COMPLETED")
    /\ UNCHANGED <<opp, ver, scan, oppLock, verLock, req, crashes, lost, Apart>>

(* Mutant: only what was analysed is taken further. *)
LoadAnalysed(k) ==
    /\ judge[k].pc = "load"
    /\ Become(k, IF ~Pending(k) \/ analysis[k] \notin Verdict THEN Idle
                 ELSE [judge[k] EXCEPT !.seen = "PENDING", !.pc = "lock"])
    /\ UNCHANGED <<opp, ver, scan, analysis, oppLock, verLock, req, crashes, lost, Apart>>

(* The verification is loaded without a lock, and this copy is kept.  Who  *)
(* saw analyze() raise looks for its FAILED row in a new session, and      *)
(* stops when the analysis was repeated meanwhile.                         *)
Load(k) ==
    LET repeated == judge[k].got = "raised" /\ analysis[k] # "FAILED" IN
    /\ judge[k].pc = "load"
    /\ Become(k, IF ~Pending(k) \/ repeated THEN Idle
                 ELSE [judge[k] EXCEPT !.seen = "PENDING",
                                       !.pc = IF \/ scan[k] = "FAILED"
                                                 \/ judge[k].got \in {"FAILED", "raised"}
                                              THEN "terminalize" ELSE "lock"])
    /\ lost' = IF repeated THEN lost \cup {k} ELSE lost
    /\ UNCHANGED <<opp, ver, scan, analysis, oppLock, verLock, req, crashes, Apart>>

(* Mutant: who saw analyze() raise does not look at the row again. *)
TerminalizeBlind(k) ==
    /\ judge[k].pc = "terminalize" /\ verLock[k] = None
    /\ ver' = [ver EXCEPT ![k].outcome = "INCONCLUSIVE",
                          ![k].reason = IF scan[k] = "FAILED" THEN "VERIFICATION_SCAN_FAILED"
                                        ELSE "ANALYSIS_NOT_COMPLETED"]
    /\ Become(k, Idle)
    /\ UNCHANGED <<opp, scan, analysis, oppLock, verLock, req, crashes, lost, Apart>>

(* The lifecycle service locks the verification, and checks the copy that  *)
(* its session holds: PENDING, whatever the row says by now.  It reads the *)
(* analysis again only when its session has not loaded it; the session     *)
(* that was given a FAILED row goes on with that row.  An analysis seen to *)
(* be repeated leaves the verification as it is.                           *)
Terminalize(k) ==
    LET failed == scan[k] = "FAILED" \/ judge[k].got = "FAILED" \/ analysis[k] = "FAILED" IN
    /\ judge[k].pc = "terminalize" /\ verLock[k] = None
    /\ ver' = IF failed
              THEN [ver EXCEPT ![k].outcome = "INCONCLUSIVE",
                               ![k].reason = IF scan[k] = "FAILED"
                                             THEN "VERIFICATION_SCAN_FAILED"
                                             ELSE "ANALYSIS_NOT_COMPLETED"]
              ELSE ver
    /\ lost' = IF failed THEN lost ELSE lost \cup {k}
    /\ Become(k, Idle)
    /\ UNCHANGED <<opp, scan, analysis, oppLock, verLock, req, crashes, Apart>>

(* A user asks for the analysis.  It fails when the code raises, and when  *)
(* the scan is not terminal, and that failure is kept as FAILED, too.      *)
AnalyseByHand(k) ==
    /\ scan[k] # "none" /\ analysis[k] \notin Verdict
    /\ analysis' \in {[analysis EXCEPT ![k] = a] :
                          a \in {"FAILED"} \cup IF scan[k] = "collected" THEN Verdict ELSE {}}
    /\ UNCHANGED <<opp, ver, scan, oppLock, verLock, req, judge, crashes, lost, Apart>>

-----------------------------------------------------------------------------
(* evaluate *)

(* What evaluate decides before any metric is compared, and why. *)
Decision(k) ==
    CASE scan[k] = "FAILED" -> <<"INCONCLUSIVE", "VERIFICATION_SCAN_FAILED">>
      [] scan[k] # "FAILED" /\ analysis[k] \notin Verdict ->
             <<"INCONCLUSIVE", "ANALYSIS_NOT_COMPLETED">>
      [] OTHER -> <<analysis[k], None>>

(* Mutant: a scan that still runs is taken for one without an analysis. *)
LockVerificationEarly(j, k) ==
    LET seen == IF judge[j].seen # None THEN judge[j].seen ELSE ver[k].outcome IN
    /\ verLock[k] = None
    /\ IF seen # "PENDING"
       THEN Become(j, Idle) /\ UNCHANGED verLock
       ELSE /\ verLock' = [verLock EXCEPT ![k] = j]
            /\ Become(j, [pc |-> "decide", k |-> k, got |-> judge[j].got, seen |-> seen,
                          opp |-> opp[ver[k].o], outcome |-> Decision(k)[1], why |-> Decision(k)[2]])
    /\ UNCHANGED <<opp, ver, scan, analysis, oppLock, req, crashes, lost, Apart>>

(* The verification is locked.  The hook's session has loaded it before    *)
(* and still sees it PENDING; the opportunity is read without a lock.      *)
LockVerification(j, k) ==
    LET seen == IF judge[j].seen # None THEN judge[j].seen ELSE ver[k].outcome IN
    /\ verLock[k] = None
    /\ IF seen # "PENDING" \/ ScanActive(k)
       THEN Become(j, Idle) /\ UNCHANGED verLock
       ELSE /\ verLock' = [verLock EXCEPT ![k] = j]
            /\ Become(j, [pc |-> "decide", k |-> k, got |-> judge[j].got, seen |-> seen,
                          opp |-> opp[ver[k].o], outcome |-> Decision(k)[1], why |-> Decision(k)[2]])
    /\ UNCHANGED <<opp, ver, scan, analysis, oppLock, req, crashes, lost, Apart>>

Evaluate(j, k) == judge[j].pc = "idle" /\ ver[k] # None /\ LockVerification(j, k)
AutoEvaluate(k) == judge[k].pc = "lock" /\ LockVerification(k, k)

Written(j) == [ver EXCEPT ![judge[j].k].outcome = judge[j].outcome,
                          ![judge[j].k].reason = judge[j].why]

Conclude(j) ==
    /\ judge[j].pc = "decide" /\ judge[j].outcome # "RESOLVED"
    /\ ver' = Written(j)
    /\ verLock' = Unlock(verLock, j)
    /\ Become(j, Idle)
    /\ UNCHANGED <<opp, scan, analysis, oppLock, req, crashes, lost, Apart>>

(* mark_verified_from_verification: it locks the opportunity and checks    *)
(* the copy the session holds; only the status is written.                 *)
Resolve(j) ==
    LET o == ver[judge[j].k].o  copy == judge[j].opp IN
    /\ judge[j].pc = "decide" /\ judge[j].outcome = "RESOLVED"
    /\ oppLock[o] = None
    /\ ver' = Written(j)
    /\ opp' = [opp EXCEPT ![o].status =
                  IF /\ copy.baseline = ver[judge[j].k].baseline
                     /\ copy.status = "IMPLEMENTED"
                  THEN "VERIFIED" ELSE @]
    /\ verLock' = Unlock(verLock, j)
    /\ Become(j, Idle)
    /\ UNCHANGED <<scan, analysis, oppLock, req, crashes, lost, Apart>>

(* The process dies, or computing the explanation raises. *)
JudgeFails(j) ==
    /\ judge[j].pc # "idle" /\ crashes < MaxCrashes
    /\ crashes' = crashes + 1
    /\ lost' = IF j \in Key THEN lost \cup {j} ELSE lost
    /\ verLock' = Unlock(verLock, j)
    /\ Become(j, Idle)
    /\ UNCHANGED <<opp, ver, scan, analysis, oppLock, req, Apart>>

-----------------------------------------------------------------------------
RequestStep(r) ==
    \/ LockOpportunity(r) \/ CheckPending(r) \/ TerminalizeFirst(r)
    \/ PreflightFails(r) \/ Insert(r) \/ Reserve(r) \/ QuotaExceeded(r)
    \/ QuotaFailed(r) \/ Dispatch(r)

HookStep(k) ==
    PostFinalize(k) \/ InsertAnalysis(k) \/ Load(k) \/ Terminalize(k) \/ AutoEvaluate(k)

JudgeStep(j) == Conclude(j) \/ Resolve(j)

Next ==
    \/ \E o \in Opp :
          \/ \E new \in OppStatus : Transition(o, new)
          \/ DetectAgain(o)
          \/ \E r \in Requester, k \in Key : FindExisting(r, k, o)
    \/ \E r \in Requester : RequestStep(r) \/ RequestDies(r)
    \/ \E k \in Key :
          \/ ScanEnds(k) \/ HookStep(k) \/ AnalyseByHand(k)
          \/ \E j \in Evaluator : Evaluate(j, k)
    \/ \E j \in Judge : JudgeStep(j) \/ JudgeFails(j)

(* A process that runs goes on; users, scans and faults act when they      *)
(* please.  PostgreSQL queues who waits for a row, so an evaluation gets   *)
(* its opportunity although other requests keep asking for it.             *)
Fairness ==
    /\ \A r \in Requester : WF_vars(RequestStep(r))
    /\ \A k \in Key : WF_vars(HookStep(k))
    /\ \A j \in Judge : SF_vars(JudgeStep(j))

Spec == Init /\ [][Next]_vars
FairSpec == Spec /\ Fairness

-----------------------------------------------------------------------------
(* Properties *)

TypeOK ==
    /\ opp \in [Opp -> OppState]
    /\ occ \in [Opp -> 0 .. MaxOcc]
    /\ ver \in [Key -> VerificationRow \cup {None}]
    /\ scan \in [Key -> ScanStage]
    /\ analysis \in [Key -> Verdict \cup {"none", "FAILED"}]
    /\ oppLock \in [Opp -> Requester \cup {None}]
    /\ verLock \in [Key -> Judge \cup {None}]
    /\ req \in [Requester -> Request]
    /\ judge \in [Judge -> Judging]

(* Measuring one implementation twice at the same time never happens: at   *)
(* most one verification of an opportunity and baseline spends checks or   *)
(* waits for its evaluation.                                               *)
OneMeasurementPerCycle ==
    \A o \in Opp, baseline \in 1 .. MaxOcc :
        Cardinality({k \in Key : OfCycle(k, o, baseline) /\ (ScanActive(k) \/ Pending(k))}) <= 1

(* The outcome of k rests on a completed analysis. *)
Measured(k) == ver[k] # None /\ ver[k].outcome # "PENDING" /\ ver[k].reason = None

(* The hook of k was given the FAILED row of another session, and is about *)
(* to settle the verification without reading that row again.              *)
HoldsFailedRow(k) == judge[k].pc = "terminalize" /\ judge[k].got = "FAILED"

(* An outcome that rests on a completed analysis is kept, whoever settles  *)
(* or evaluates it again, with whatever copy - but for such a hook.        *)
KeepsMeasuredOutcomes ==
    \A k \in Key : Measured(k) /\ ~HoldsFailedRow(k) => ver'[k].outcome = ver[k].outcome

MeasuredOutcomeKept == [][KeepsMeasuredOutcomes]_vars

(* What verification_lifecycle_service.py:104 says of terminalize_         *)
(* analysis_failure: "Terminalize a PENDING verification whose analysis    *)
(* definitively FAILED.  Returns [...] False if it was already terminal or *)
(* the analysis is not FAILED."                                            *)
MeasuredOutcomeIsFinal ==
    [][\A k \in Key : Measured(k) => ver'[k].outcome = ver[k].outcome]_vars

(* The two lock orders (opportunity then verification when a creation      *)
(* settles a failed one, verification then opportunity when an evaluation  *)
(* resolves) never meet.                                                   *)
NoWaitCycle ==
    \A r \in Requester, j \in Judge :
        LET k == judge[j].k IN
        ~ /\ judge[j].pc = "decide" /\ judge[j].outcome = "RESOLVED"
          /\ oppLock[ver[k].o] = r
          /\ req[r].pc = "terminalize" /\ req[r].old = k

(* What opportunity_workflow_service.py:110 says of mark_verified_from_    *)
(* verification: "System-only transition: IMPLEMENTED -> VERIFIED."        *)
VerifiedFromImplemented ==
    [][\A o \in Opp : opp'[o].status = "VERIFIED" /\ opp[o].status # "VERIFIED"
          => opp[o].status = "IMPLEMENTED"]_vars

(* A verification whose scan ended is settled without a user's help,       *)
(* unless the process that was to do it was cut short, or a user repeated  *)
(* the analysis under its hands.                                           *)
PendingSettles ==
    \A k \in Key : (Pending(k) /\ ~ScanActive(k)) ~> (~Pending(k) \/ k \in lost)
=============================================================================
