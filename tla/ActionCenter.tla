---------------------------- MODULE ActionCenter ----------------------------
(***************************************************************************)
(* The Action Center of a project: STANDARD scans are refreshed into       *)
(* opportunities, and what one of them is about is measured again and      *)
(* evaluated against the evidence it was frozen on.  The refreshes of a    *)
(* project hold its row lock, so each is one step here; the workflow of an *)
(* opportunity and the races of evaluations are in Verification.           *)
(***************************************************************************)
EXTENDS GapRules

CONSTANTS
    Scan,           \* the project's STANDARD scans
    Plan,           \* the cells each of them runs
    Answers         \* the observations of a run that are tried

VARIABLES
    evidence,   \* scan -> its runs once it is analysed, or None
    opps,       \* fingerprint -> opportunity, for those that exist
    occ,        \* opportunity_occurrences: pairs of a fingerprint and a scan
    measured,   \* the runs of the last verification scan, or None
    verdict     \* its evaluation: of which occurrence, and the outcome, or None

vars == <<evidence, opps, occ, measured, verdict>>

(* A rate of four decimals tells one of two million answers from none, and *)
(* a month pays for far fewer; a metric that moved has moved.              *)
ActionAssumption ==
    /\ IsFiniteSet(Plan) /\ Cardinality(Plan) <= 2000000
    /\ \A cell \in Plan : None \notin {cell.provider, cell.prompt}
    /\ None \notin Int \cup {"WEB_GROUNDED", "INSUFFICIENT_COVERAGE",
                            "NO_SUCCESSFUL_OBSERVATIONS", "INSUFFICIENT_BASELINE_COVERAGE",
                            "INSUFFICIENT_CITATION_EVIDENCE"}
    /\ {Threshold.minDiscoveryGap, Threshold.minProviderGap, Threshold.minCitationGap,
        Threshold.minCoverage, Threshold.minCitationEligible} \subseteq Int
    /\ {Threshold.visibilityImprovement, Threshold.citationImprovement,
        Threshold.promptGapImprovement} \subseteq Nat \ {0}

Init ==
    /\ evidence = [s \in Scan |-> None]
    /\ opps = <<>>
    /\ occ = {}
    /\ measured = None
    /\ verdict = None

(* The scan ends with an answer in some cell, and is analysed. *)
Collect(s) ==
    /\ evidence[s] = None
    /\ \E runs \in [Plan -> Answers] :
          /\ \E cell \in Plan : runs[cell].ok
          /\ evidence' = [evidence EXCEPT ![s] = runs]
    /\ UNCHANGED <<opps, occ, measured, verdict>>

(* _upsert_opportunity: what the scan says replaces what the last refresh  *)
(* said, whichever of the two scans is older.                              *)
Upsert(s, found) ==
    LET o == found.fingerprint IN
    IF o \in DOMAIN opps
    THEN [opps[o] EXCEPT !.priority = found.priority, !.latest = s]
    ELSE [status |-> "OPEN", priority |-> found.priority, first |-> s, latest |-> s]

(* refresh_from_scan *)
Refresh(s) ==
    /\ evidence[s] # None
    /\ LET found == Detection(evidence[s])
           these == {d.fingerprint : d \in found}
       IN /\ opps' = [o \in these \cup DOMAIN opps |->
                          IF o \in these
                          THEN Upsert(s, CHOOSE d \in found : d.fingerprint = o)
                          ELSE opps[o]]
          /\ occ' = occ \cup (these \X {s})
    /\ UNCHANGED <<evidence, measured, verdict>>

(* A verification runs the cells of the opportunity's scope again, and     *)
(* their evidence is evaluated against the occurrence it was frozen on.    *)
(* Nothing of one evaluation enters the next: a behaviour has one.         *)
Measure(o, s) ==
    /\ <<o, s>> \in occ
    /\ measured = None
    /\ \E runs \in [Scope(o, evidence[s]) -> Answers] :
          /\ \E cell \in DOMAIN runs : runs[cell].ok
          /\ measured' = runs
          /\ LET e == Evaluation(o, evidence[s], runs) IN
             verdict' = [of |-> o, on |-> s, outcome |-> e.outcome, reason |-> e.reason]
    /\ UNCHANGED <<evidence, opps, occ>>

Next ==
    \/ \E s \in Scan : Collect(s) \/ Refresh(s)
    \/ \E x \in occ : Measure(x[1], x[2])

Spec == Init /\ [][Next]_vars

-----------------------------------------------------------------------------
(* Properties *)

Outcome == {"RESOLVED", "IMPROVED", "NOT_IMPROVED", "REGRESSED", "INCONCLUSIVE"}

TypeOK ==
    /\ DOMAIN evidence = Scan
    /\ \A s \in Scan : evidence[s] # None => evidence[s] \in [Plan -> Answers]
    /\ \A o \in DOMAIN opps :
          /\ opps[o].status = "OPEN"
          /\ opps[o].priority \in {"HIGH", "MEDIUM", "LOW"}
          /\ {opps[o].first, opps[o].latest} \subseteq Scan
    /\ occ \subseteq (DOMAIN opps) \X Scan
    /\ verdict # None => verdict.outcome \in Outcome

(* What core/verification_engine.py says of its thresholds: an opportunity *)
(* that is RESOLVED no longer meets the criterion that created it.  The    *)
(* rule does not find it in the new evidence, and it did not go away with  *)
(* the brand's own presence or citations.                                  *)
ResolvedIsGone ==
    (verdict # None /\ verdict.outcome = "RESOLVED") =>
        LET o == verdict.of
            found == DetectedFor(measured, o.competitor)
            base == Explanation(evidence[verdict.on], Filter(o), o.competitor)
            now  == Explanation(measured, Filter(o), o.competitor)
        IN /\ \A d \in found : d.fingerprint # o
           /\ \E cell \in DOMAIN measured :
                 "brand" \in measured[cell].mentions \cup measured[cell].cited
           /\ o.type \in {"DISCOVERY_VISIBILITY_GAP", "PROVIDER_VISIBILITY_GAP"}
                 => now.brand >= base.brand
           /\ o.type = "OWNED_CITATION_GAP" /\ base.eligible # 0
                 => now.brandCited >= base.brandCited

(* Measuring the same again settles nothing: the detection and the         *)
(* evaluation see one gap in the same evidence, through the breakdown of   *)
(* the one and the scope and the filters of the other.                     *)
SameEvidenceSameGap ==
    (/\ verdict # None
     /\ \A cell \in DOMAIN measured : measured[cell] = evidence[verdict.on][cell])
    => verdict.outcome \in {"NOT_IMPROVED", "INCONCLUSIVE"}
=============================================================================
