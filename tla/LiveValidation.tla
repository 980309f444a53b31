-------------------------- MODULE LiveValidation ---------------------------
(***************************************************************************)
(* The operator of one isolated, paid call (live_accounting_validation_    *)
(* operator.py, providers/evidence.py): invocations of one validation id   *)
(* race, die and are repeated, each with an evidence root of its own, and  *)
(* the sink writes what it can of the answer.                              *)
(***************************************************************************)
EXTENDS ProviderAnswers

CONSTANTS
    Operator,   \* invocations
    Root,       \* evidence directories an invocation may be given
    Tried       \* the answers of the provider that are tried

VARIABLES
    work,       \* Operator -> [at, root, error], error: what sink.last_error is
    bundle,     \* Root -> the run directory, or None
    row,        \* the scan, its run and its reservation, or None
    posts,      \* calls of the provider
    got,        \* the answer of the call, or None
    said        \* history: Operator -> the report and the bundle it was made on

vars == <<work, bundle, row, posts, got, said>>

Stage ==
    {"start", "prepare", "plan", "context", "reserve", "execute", "claim", "call", "capture",
     "record", "report", "done"}

OutcomeName ==
    {"PASS", "EVIDENCE_FAILURE", "UNKNOWN_ACTION", "SEARCH_NOT_OBSERVED", "BOUND_VIOLATION",
     "AMBIGUOUS", "NOT_USABLE"}

Artifact ==
    <<"response_transport.json", "request.json", "response.json", "web_actions.json",
      "manifest.json", "manifest.sha256">>

(* The rows of a run directory, of the scan with its run, and of a report. *)
Code ==
    {ErrorCode("openai", a) : a \in Tried} \cup {None, "ACCOUNTING_UNRESOLVED", "SCAN_RECOVERY"}

Counts == {Classify(a.actions) : a \in Tried} \cup {None}

Bundle ==
    [written: 0 .. Len(Artifact), correlated: BOOLEAN, intact: BOOLEAN,
     actions: {a.actions : a \in Tried} \cup {<<>>}]

Row ==
    [scan: {"PENDING", "RUNNING", "COMPLETED", "FAILED"}, reserved: BOOLEAN,
     run: [status: {"PENDING", "RUNNING", "SUCCEEDED", "FAILED"}, code: Code, counts: Counts]]

LiveAssumption ==
    /\ \A a \in Tried : a.actions \in Seq(STRING)
    /\ MaxToolCalls \in Nat
    /\ None \notin Tried \cup Bundle \cup Row
    /\ None \notin {Unanswered[f] : f \in DOMAIN Unanswered}
                  \cup {"SEARCH_ERROR", "PROVIDER_CONTRACT_VIOLATION"}
    /\ \A a \in Tried : a.actions # <<>> => Classify(a.actions) # None

Init ==
    /\ \E root \in [Operator -> Root] :
          work = [o \in Operator |-> [at |-> "start", root |-> root[o], error |-> FALSE]]
    /\ bundle = [d \in Root |-> None]
    /\ row = None
    /\ posts = 0
    /\ got = None
    /\ said = [o \in Operator |-> None]

Goes(o, at) == work' = [work EXCEPT ![o].at = at]

(* validate_evidence_bundle: every artifact, of this run, as it was        *)
(* written.  The count of no web action is null in the manifest.           *)
Valid(b) ==
    /\ b # None
    /\ b.written = Len(Artifact) /\ b.correlated /\ b.intact
    /\ Classify(b.actions) # None

(* _classify_outcome *)
Outcome(run, error) ==
    IF error THEN "EVIDENCE_FAILURE"
    ELSE IF run.status = "SUCCEEDED"
         THEN IF run.counts.unknown > 0 THEN "UNKNOWN_ACTION"
              ELSE IF run.counts.search = 0 THEN "SEARCH_NOT_OBSERVED" ELSE "PASS"
    ELSE IF run.code = "PROVIDER_CONTRACT_VIOLATION" THEN "BOUND_VIOLATION"
    ELSE IF run.code = "SEARCH_ERROR" THEN "SEARCH_NOT_OBSERVED"
    ELSE IF run.status = "RUNNING" THEN "AMBIGUOUS"
    ELSE "NOT_USABLE"

Says(o, error) ==
    said' = [said EXCEPT ![o] =
                [outcome |-> Outcome(row.run, error), on |-> bundle[work[o].root]]]

(* _find_existing reports what there is, unless it lacks its reservation   *)
(* or still runs.                                                          *)
Reuse(o) ==
    /\ work[o].at = "start" /\ row # None
    /\ IF row.reserved /\ row.scan # "RUNNING" /\ row.run.status # "RUNNING"
       THEN Says(o, ~Valid(bundle[work[o].root]))
       ELSE UNCHANGED said
    /\ Goes(o, "done")
    /\ UNCHANGED <<bundle, row, posts, got>>

(* _read_only_preflight lets it through, or not. *)
Begin(o) ==
    /\ work[o].at = "start" /\ row = None
    /\ \E at \in {"prepare", "done"} : Goes(o, at)
    /\ UNCHANGED <<bundle, row, posts, got, said>>

(* ensure_ready makes the run directory, which no other may have made. *)
Prepare(o) ==
    LET d == work[o].root IN
    /\ work[o].at = "prepare"
    /\ IF bundle[d] = None
       THEN /\ bundle' = [bundle EXCEPT ![d] =
                  [written |-> 0, correlated |-> FALSE, intact |-> TRUE, actions |-> <<>>]]
            /\ Goes(o, "plan")
       ELSE UNCHANGED bundle /\ Goes(o, "done")
    /\ UNCHANGED <<row, posts, got, said>>

NewRow ==
    [scan |-> "PENDING", reserved |-> FALSE,
     run |-> [status |-> "PENDING", code |-> None, counts |-> None]]

(* Mutant: the plan of another invocation is in the way of nobody. *)
PlanAgain(o) ==
    /\ work[o].at = "plan"
    /\ row' = NewRow
    /\ Goes(o, "context")
    /\ UNCHANGED <<bundle, posts, got, said>>

(* _create_durable_plan, under the lock of the workspace.  The insert of a *)
(* second scan with this key fails where it is flushed.                    *)
Plan(o) ==
    /\ work[o].at = "plan"
    /\ IF row = None
       THEN row' = NewRow /\ Goes(o, "context")
       ELSE UNCHANGED row /\ Goes(o, "done")
    /\ UNCHANGED <<bundle, posts, got, said>>

(* set_execution_context replaces the manifest; its failure is raised. *)
Context(o) ==
    /\ work[o].at = "context"
    /\ \/ /\ bundle' = [bundle EXCEPT ![work[o].root].correlated = TRUE]
          /\ Goes(o, "reserve")
       \/ UNCHANGED bundle /\ Goes(o, "done")
    /\ UNCHANGED <<row, posts, got, said>>

FailedRow(code) == [row EXCEPT !.scan = "FAILED", !.run.status = "FAILED", !.run.code = code]

(* _reserve_exactly_one, or _mark_planning_failure *)
Reserve(o) ==
    /\ work[o].at = "reserve"
    /\ \/ /\ row' = [row EXCEPT !.reserved = TRUE]
          /\ Goes(o, "execute")
       \/ row' = FailedRow(None) /\ Goes(o, "done")
    /\ UNCHANGED <<bundle, posts, got, said>>

(* execute_scan claims the scan, or does nothing; _claim_run the run. *)
Execute(o) ==
    /\ work[o].at = "execute"
    /\ IF row.scan = "PENDING"
       THEN row' = [row EXCEPT !.scan = "RUNNING"] /\ Goes(o, "claim")
       ELSE UNCHANGED row /\ Goes(o, "report")
    /\ UNCHANGED <<bundle, posts, got, said>>

ClaimRun(o) ==
    /\ work[o].at = "claim"
    /\ IF row.run.status = "PENDING"
       THEN row' = [row EXCEPT !.run.status = "RUNNING"] /\ Goes(o, "call")
       ELSE UNCHANGED row /\ Goes(o, "report")
    /\ UNCHANGED <<bundle, posts, got, said>>

Call(o) ==
    /\ work[o].at = "call"
    /\ posts' = posts + 1
    /\ \E a \in Tried :
          /\ got' = a
          /\ Goes(o, IF a.faults \cap {"timeout", "down"} = {} THEN "capture" ELSE "record")
    /\ UNCHANGED <<bundle, row, said>>

(* Mutant: a capture that broke off in the middle is no error. *)
CaptureQuietly(o) ==
    /\ work[o].at = "capture"
    /\ \E n \in 0 .. Len(Artifact) :
          /\ bundle' = [bundle EXCEPT ![work[o].root] =
                           [@ EXCEPT !.written = n, !.actions = got.actions]]
          /\ work' = [work EXCEPT ![o].at = "record", ![o].error = (n = 0)]
    /\ UNCHANGED <<row, posts, got, said>>

(* capture_transport and capture_response write one artifact after the     *)
(* other, the manifest's checksum last.  An error ends it, and is kept.    *)
Capture(o) ==
    /\ work[o].at = "capture"
    /\ \E n \in 0 .. Len(Artifact) :
          /\ bundle' = [bundle EXCEPT ![work[o].root] =
                           [@ EXCEPT !.written = n, !.actions = got.actions]]
          /\ work' = [work EXCEPT ![o].at = "record", ![o].error = n < Len(Artifact)]
    /\ UNCHANGED <<row, posts, got, said>>

(* The run and its scan end; or the recorder fails and the run is left     *)
(* RUNNING, ACCOUNTING_UNRESOLVED.                                         *)
Record(o) ==
    LET code == ErrorCode("openai", got)
        run == [status |-> IF code = None THEN "SUCCEEDED" ELSE "FAILED", code |-> code,
                counts |-> IF Answered(got) THEN Classify(got.actions) ELSE None]
    IN
    /\ work[o].at = "record"
    /\ \/ row' = [row EXCEPT !.run = run,
                             !.scan = IF code = None THEN "COMPLETED" ELSE "FAILED"]
       \/ /\ Billable("openai", got)
          /\ row' = [row EXCEPT !.run.code = "ACCOUNTING_UNRESOLVED", !.run.counts = run.counts]
    /\ Goes(o, "report")
    /\ UNCHANGED <<bundle, posts, got, said>>

(* _build_report, with the error of the sink *)
Report(o) ==
    /\ work[o].at = "report"
    /\ Says(o, work[o].error)
    /\ Goes(o, "done")
    /\ UNCHANGED <<bundle, row, posts, got>>

Crash(o) ==
    /\ work[o].at \notin {"start", "done"}
    /\ Goes(o, "done")
    /\ UNCHANGED <<bundle, row, posts, got, said>>

(* Recovery of stale scans whose run has not been claimed (ScanLifecycle). *)
Recover ==
    /\ row # None /\ row.scan \in {"PENDING", "RUNNING"} /\ row.run.status = "PENDING"
    /\ row' = FailedRow("SCAN_RECOVERY")
    /\ UNCHANGED <<work, bundle, posts, got, said>>

(* A bundle at rest is damaged by somebody. *)
Damage(d) ==
    /\ bundle[d] # None
    /\ \A o \in Operator : work[o].at \in {"start", "done"}
    /\ bundle' = [bundle EXCEPT ![d].intact = FALSE]
    /\ UNCHANGED <<work, row, posts, got, said>>

Next ==
    \/ \E o \in Operator :
          \/ Reuse(o) \/ Begin(o) \/ Prepare(o) \/ Plan(o) \/ Context(o) \/ Reserve(o)
          \/ Execute(o) \/ ClaimRun(o) \/ Call(o) \/ Capture(o) \/ Record(o) \/ Report(o) \/ Crash(o)
    \/ Recover
    \/ \E d \in Root : Damage(d)

Spec == Init /\ [][Next]_vars

-----------------------------------------------------------------------------
(* Properties *)

TypeOK ==
    /\ work \in [Operator -> [at: Stage, root: Root, error: BOOLEAN]]
    /\ bundle \in [Root -> Bundle \cup {None}]
    /\ row \in Row \cup {None}
    /\ posts \in Nat
    /\ got \in Tried \cup {None}
    /\ said \in [Operator -> [outcome: OutcomeName, on: Bundle \cup {None}] \cup {None}]

(* docs/LIVE_PROVIDER_VALIDATION.md: whatever invocations race, die or are *)
(* repeated, a validation id pays for one call.  And it passes only on the *)
(* strength of a bundle that validates and holds the actions that were     *)
(* counted and billed.                                                     *)
ProvenPass ==
    /\ posts <= 1
    /\ \A o \in Operator :
          (said[o] # None /\ said[o].outcome = "PASS") =>
              /\ posts = 1
              /\ Valid(said[o].on)
              /\ Classify(said[o].on.actions) = row.run.counts
              /\ Count(got.actions, ActionType) = Len(got.actions)
              /\ Len(got.actions) <= MaxToolCalls
=============================================================================
