-------------------------- MODULE ComponentsProofs --------------------------
(***************************************************************************)
(* The theorems of the composition that MCComponents checks: a part that   *)
(* moves is a behaviour of its component, so the component's inductive     *)
(* invariant is one of the part.  Verification, EmailOutbox, Scheduled-    *)
(* Scans and LiveValidation have theirs in modules of their own; those of  *)
(* ScanAnalysis, ProviderBilling, ActionCenter, ProjectSetup and Metrics   *)
(* are here.                                                               *)
(***************************************************************************)
EXTENDS Components, Sequences, FiniteSetTheorems, WellFoundedInduction, TLAPS

-----------------------------------------------------------------------------
(* ScanAnalysis *)

(* Who runs a pass holds the row, so at most one analyst does. *)
RunnerHolds == \A a \in Analyst : an[a] = "run" => holder = a

(* Nobody works on a completed analysis. *)
CompletedIsFree == row = "COMPLETED" => holder = None

(* A completed analysis has the evidence of one pass. *)
CompletedHasEvidence == row = "COMPLETED" => \E a \in Analyst : evidence = {a}

(* The inductive invariant of ScanAnalysis.                                *)
AnalysisIInv ==
    /\ Analysis!TypeOK
    /\ RunnerHolds
    /\ CompletedIsFree
    /\ CompletedHasEvidence

(* The parts of AnalysisIInv hold initially. *)
LEMMA AnalysisInit == ASSUME Analysis!AnalysisAssumption PROVE Analysis!Init => AnalysisIInv
BY DEF Analysis!AnalysisAssumption, Analysis!Init, AnalysisIInv, Analysis!TypeOK,
   RunnerHolds, CompletedIsFree, CompletedHasEvidence

(* Every step of an analyst keeps AnalysisIInv: the row is taken only from *)
(* nobody, and let go with the pass.                                       *)
LEMMA AnalysisStep ==
    ASSUME Analysis!AnalysisAssumption
    PROVE  AnalysisIInv /\ [Analysis!Next]_(Analysis!vars) => AnalysisIInv'
<1> SUFFICES ASSUME AnalysisIInv, [Analysis!Next]_(Analysis!vars) PROVE AnalysisIInv'
  OBVIOUS
<1> USE DEF Analysis!AnalysisAssumption, AnalysisIInv, Analysis!TypeOK, RunnerHolds,
            CompletedIsFree,
            CompletedHasEvidence, Analysis!Go
<1>1. CASE Analysis!ScanEnds
  BY <1>1 DEF Analysis!ScanEnds
<1>2. ASSUME NEW a \in Analyst, Analysis!Analyze(a) PROVE AnalysisIInv'
  BY <1>2 DEF Analysis!Analyze
<1>3. ASSUME NEW a \in Analyst, Analysis!LockRow(a) PROVE AnalysisIInv'
  BY <1>3 DEF Analysis!LockRow
<1>4. ASSUME NEW a \in Analyst, Analysis!InsertRow(a) PROVE AnalysisIInv'
  BY <1>4 DEF Analysis!InsertRow
<1>5. ASSUME NEW a \in Analyst, Analysis!Complete(a) PROVE AnalysisIInv'
  BY <1>5 DEF Analysis!Complete
<1>6. ASSUME NEW a \in Analyst, Analysis!NoSnapshots(a) PROVE AnalysisIInv'
  BY <1>6 DEF Analysis!NoSnapshots
<1>7. ASSUME NEW a \in Analyst, Analysis!Raise(a) PROVE AnalysisIInv'
  BY <1>7 DEF Analysis!Raise
<1>8. ASSUME NEW a \in Analyst, Analysis!MarkFailed(a) PROVE AnalysisIInv'
  BY <1>8 DEF Analysis!MarkFailed
<1>9. ASSUME NEW a \in Analyst, Analysis!MarkInserts(a) PROVE AnalysisIInv'
  BY <1>9 DEF Analysis!MarkInserts
<1>10. ASSUME NEW a \in Analyst, Analysis!Die(a) PROVE AnalysisIInv'
  BY <1>10 DEF Analysis!Die
<1>11. CASE UNCHANGED Analysis!vars
  BY <1>11 DEF Analysis!vars
<1> QED
  BY <1>1, <1>2, <1>3, <1>4, <1>5, <1>6, <1>7, <1>8, <1>9, <1>10, <1>11 DEF Analysis!Next

(* Nobody runs a pass on a completed analysis, so no step touches it. *)
LEMMA StepKeepsCompleted ==
    ASSUME Analysis!AnalysisAssumption
    PROVE  AnalysisIInv /\ [Analysis!Next]_(Analysis!vars)
              => [Analysis!KeepsCompleted]_(Analysis!vars)
<1> SUFFICES ASSUME AnalysisIInv, Analysis!Next, row = "COMPLETED"
             PROVE  row' = "COMPLETED" /\ evidence' = evidence
  BY DEF Analysis!KeepsCompleted, AnalysisIInv, CompletedHasEvidence
<1>1. \A a \in Analyst : an[a] # "run"
  BY DEF AnalysisIInv, RunnerHolds, CompletedIsFree, Analysis!AnalysisAssumption
<1> QED
  BY <1>1 DEF Analysis!AnalysisAssumption, Analysis!Next, Analysis!ScanEnds,
     Analysis!Analyze, Analysis!LockRow, Analysis!InsertRow, Analysis!Complete,
              Analysis!NoSnapshots, Analysis!Raise, Analysis!MarkFailed,
              Analysis!MarkInserts, Analysis!Die, Analysis!Go

-----------------------------------------------------------------------------
(* ProviderBilling *)

(* Every component counts with the one Cardinality. *)
LEMMA BillingCounts ==
    \A S : /\ Billing!Cardinality(S) = Cardinality(S)
           /\ Billing!IsFiniteSet(S) <=> IsFiniteSet(S)
BY DEF Billing!Cardinality, Cardinality, Billing!IsFiniteSet, IsFiniteSet

(* What an exact bill adds up is what was served, class by class.          *)
LEMMA ExactTokens ==
    ASSUME Billing!BillingAssumption, NEW p \in Billing!Vendor, NEW a \in Served[p],
           NEW r \in Rates[p], Billing!Exact(p, a, r), NEW c \in Billing!TokenClass
    PROVE  LET t == Billing!Or0(Billing!Tokens(p, a)[c]) IN
           /\ t \in Nat
           /\ r.rates[c] # None => c \in Billing!Reads[p] /\ t = Billing!Reported(p, a, c)
           /\ r.rates[c] = None => t = 0
<1> DEFINE t == Billing!Tokens(p, a)[c]
<1>1. t = IF c \in Billing!Reads[p] \ a.omitted THEN Billing!Reported(p, a, c) ELSE None
  BY DEF Billing!Tokens
<1>2. Billing!Reported(p, a, c) \in Nat
  BY DEF Billing!Reported, Billing!BillingAssumption, Billing!TokenClass
<1>3. None \notin Nat
  BY DEF Billing!BillingAssumption
<1>4. Billing!Known(t, r.rates[c])
  BY DEF Billing!Exact
<1> QED
  BY <1>1, <1>2, <1>3, <1>4 DEF Billing!Known, Billing!Or0

(* Counts and rates of one class that an exact bill multiplies. *)
LEMMA ExactClass ==
    ASSUME Billing!BillingAssumption, NEW p \in Billing!Vendor, NEW a \in Served[p],
           NEW r \in Rates[p], Billing!Exact(p, a, r), NEW c \in Billing!TokenClass
    PROVE  /\ Billing!Or0(Billing!Tokens(p, a)[c]) \in Nat
           /\ a.served[c] \in Nat /\ Billing!Or0(r.rates[c]) \in Nat
           /\ r.rates[c] = None => Billing!Or0(r.rates[c]) = 0
<1>1. a.served[c] \in Nat
  BY DEF Billing!BillingAssumption
<1>2. r.rates[c] \in Nat \cup {None}
  BY DEF Billing!BillingAssumption, Billing!Tariff, Billing!Price
<1>3. Billing!Or0(Billing!Tokens(p, a)[c]) \in Nat
  BY ExactTokens
<1> QED
  BY <1>1, <1>2, <1>3 DEF Billing!Or0

(* A count that contains another, at the two rates: what is billed is what *)
(* was served, a class without a rate of its own at its container's.       *)
LEMMA Contained ==
    ASSUME NEW x \in Nat, NEW y \in Nat, NEW big \in Nat, NEW small \in Nat,
           NEW R, NEW Q, R = None \/ R \in Nat, Q = None \/ Q \in Nat, None \notin Nat,
           R # None => big = x + y, R = None => big = 0,
           Q # None => small = y, Q = None => small = 0,
           small <= big
    PROVE  (big - small) * Billing!Or0(R) + small * Billing!Or0(Q)
              = x * Billing!Or0(R) + y * (IF Q # None THEN Q ELSE Billing!Or0(R))
<1>1. CASE R # None /\ Q # None
  <2>1. big - small = x
    BY <1>1
  <2>2. small = y
    BY <1>1
  <2> QED
    BY <1>1, <2>1, <2>2 DEF Billing!Or0
<1>2. CASE R # None /\ Q = None
  <2>1. small = 0 /\ big - small = x + y
    BY <1>2
  <2>2. Billing!Or0(Q) = 0 /\ Billing!Or0(R) = R /\ R \in Nat
    BY <1>2 DEF Billing!Or0
  <2>3. (x + y) * R + 0 * 0 = x * R + y * R
    BY <2>2
  <2> QED
    BY <1>2, <2>1, <2>2, <2>3
<1>3. CASE R = None
  <2>1. big = 0 /\ small = 0 /\ Billing!Or0(R) = 0
    BY <1>3 DEF Billing!Or0
  <2>2. CASE Q = None
    BY <1>3, <2>1, <2>2 DEF Billing!Or0
  <2>3. CASE Q # None
    <3>1. y = 0 /\ Billing!Or0(Q) = Q /\ Q \in Nat
      BY <2>1, <2>3 DEF Billing!Or0
    <3>2. (0 - 0) * 0 + 0 * Q = x * 0 + 0 * Q
      BY <3>1
    <3> QED
      BY <2>1, <2>3, <3>1, <3>2
  <2> QED
    BY <2>2, <2>3
<1> QED
  BY <1>1, <1>2, <1>3

(* Two counts side by side. *)
LEMMA Apart ==
    ASSUME NEW y \in Nat, NEW t \in Nat, NEW Q, Q = None \/ Q \in Nat, None \notin Nat,
           Q # None => t = y, Q = None => t = 0
    PROVE  t * Billing!Or0(Q) = y * Billing!Or0(Q)
<1>1. CASE Q = None
  BY <1>1 DEF Billing!Or0
<1>2. CASE Q # None
  BY <1>2
<1> QED
  BY <1>1, <1>2

(* The input side of a bill is what the vendor charges: the tokens of each *)
(* class at the price of its class, the cached ones once.                  *)
LEMMA InputWorth ==
    ASSUME Billing!BillingAssumption, NEW p \in Billing!Vendor, NEW a \in Served[p],
           NEW r \in Rates[p], Billing!Exact(p, a, r)
    PROVE  LET t == [c \in Billing!TokenClass |-> Billing!Or0(Billing!Tokens(p, a)[c])]
               rate == [c \in Billing!TokenClass |-> Billing!Or0(r.rates[c])]
           IN (t.input - (IF r.includesCached THEN t.cached ELSE 0)) * rate.input
              + t.cached * rate.cached
              = a.served.input * Billing!Or0(r.rates.input)
                + a.served.cached * (IF r.rates.cached # None THEN r.rates.cached
                                     ELSE IF r.includesCached THEN Billing!Or0(r.rates.input) ELSE 0)
<1> DEFINE big == Billing!Or0(Billing!Tokens(p, a).input)
           small == Billing!Or0(Billing!Tokens(p, a).cached)
           x == a.served.input
           y == a.served.cached
           R == r.rates.input
           Q == r.rates.cached
<1>1. {"input", "cached"} \subseteq Billing!TokenClass
  BY DEF Billing!TokenClass
<1>2. x \in Nat /\ y \in Nat /\ big \in Nat /\ small \in Nat
  BY <1>1, ExactClass
<1>3. (R = None \/ R \in Nat) /\ (Q = None \/ Q \in Nat) /\ None \notin Nat
  BY <1>1 DEF Billing!BillingAssumption, Billing!Tariff, Billing!Price
<1>4. /\ R # None => big = x + (IF p \in {"openai", "google"} THEN y ELSE 0)
      /\ R = None => big = 0
  BY <1>1, ExactTokens DEF Billing!Reported
<1>5. Q # None => small = y
  BY <1>1, ExactTokens DEF Billing!Reported
<1>6. Q = None => small = 0
  BY <1>1, ExactTokens
<1>7. r.includesCached = (p \in {"openai", "google"})
  BY DEF Billing!BillingAssumption, Billing!Tariff
<1>8. r.includesCached => small <= big
  BY DEF Billing!Exact
<1> HIDE DEF big, small, x, y, R, Q
<1>9. CASE r.includesCached
  <2>1. R # None => big = x + y
    BY <1>4, <1>7, <1>9
  <2>2. (big - small) * Billing!Or0(R) + small * Billing!Or0(Q)
           = x * Billing!Or0(R) + y * (IF Q # None THEN Q ELSE Billing!Or0(R))
    BY <1>2, <1>3, <1>4, <1>5, <1>6, <1>8, <1>9, <2>1, Contained
  <2> QED
    BY <1>1, <1>9, <2>2 DEF big, small, x, y, R, Q
<1>10. CASE ~r.includesCached
  <2>0. p \notin {"openai", "google"}
    BY <1>7, <1>10, Zenon
  <2>1. R # None => big = x
    BY <1>2, <1>4, <2>0
  <2>2. big * Billing!Or0(R) = x * Billing!Or0(R)
    BY <1>2, <1>3, <1>4, <2>1, Apart
  <2>3. small * Billing!Or0(Q) = y * (IF Q # None THEN Q ELSE 0)
    BY <1>2, <1>3, <1>5, <1>6, Apart DEF Billing!Or0
  <2>4. big - 0 = big
    BY <1>2
  <2> QED
    BY <1>1, <1>10, <2>2, <2>3, <2>4 DEF big, small, x, y, R, Q
<1> QED
  BY <1>9, <1>10

(* The output side of a bill is what the vendor charges.                   *)
LEMMA OutputWorth ==
    ASSUME Billing!BillingAssumption, NEW p \in Billing!Vendor, NEW a \in Served[p],
           NEW r \in Rates[p], Billing!Exact(p, a, r)
    PROVE  LET t == [c \in Billing!TokenClass |-> Billing!Or0(Billing!Tokens(p, a)[c])]
               rate == [c \in Billing!TokenClass |-> Billing!Or0(r.rates[c])]
           IN (t.output - (IF r.includesReasoning /\ r.rates.reasoning # None
                           THEN t.reasoning ELSE 0)) * rate.output
              + t.reasoning * rate.reasoning
              = a.served.output * Billing!Or0(r.rates.output)
                + a.served.reasoning * (IF r.rates.reasoning # None THEN r.rates.reasoning
                                        ELSE IF r.includesReasoning THEN Billing!Or0(r.rates.output) ELSE 0)
<1> DEFINE big == Billing!Or0(Billing!Tokens(p, a).output)
           small == Billing!Or0(Billing!Tokens(p, a).reasoning)
           x == a.served.output
           y == a.served.reasoning
           R == r.rates.output
           Q == r.rates.reasoning
<1>1. {"output", "reasoning"} \subseteq Billing!TokenClass
  BY DEF Billing!TokenClass
<1>2. x \in Nat /\ y \in Nat /\ big \in Nat /\ small \in Nat
  BY <1>1, ExactClass
<1>3. (R = None \/ R \in Nat) /\ (Q = None \/ Q \in Nat) /\ None \notin Nat
  BY <1>1 DEF Billing!BillingAssumption, Billing!Tariff, Billing!Price
<1>4. /\ R # None => big = x + (IF p = "openai" THEN y ELSE 0)
      /\ R = None => big = 0
  BY <1>1, ExactTokens DEF Billing!Reported
<1>5. Q # None => small = y
  BY <1>1, ExactTokens DEF Billing!Reported
<1>6. Q = None => small = 0
  BY <1>1, ExactTokens
<1>7. r.includesReasoning = (p = "openai")
  BY DEF Billing!BillingAssumption, Billing!Tariff
<1>8. r.includesReasoning => small <= big
  BY DEF Billing!Exact
<1>11. big - (IF r.includesReasoning /\ Q # None THEN small ELSE 0)
          = (IF r.includesReasoning THEN big - small ELSE big)
  BY <1>2, <1>6
<1> HIDE DEF big, small, x, y, R, Q
<1>9. CASE r.includesReasoning
  <2>1. R # None => big = x + y
    BY <1>4, <1>7, <1>9
  <2>2. (big - small) * Billing!Or0(R) + small * Billing!Or0(Q)
           = x * Billing!Or0(R) + y * (IF Q # None THEN Q ELSE Billing!Or0(R))
    BY <1>2, <1>3, <1>4, <1>5, <1>6, <1>8, <1>9, <2>1, Contained
  <2> QED
    BY <1>1, <1>9, <1>11, <2>2 DEF big, small, x, y, R, Q
<1>10. CASE ~r.includesReasoning
  <2>0. p # "openai"
    BY <1>7, <1>10, Zenon
  <2>1. R # None => big = x
    BY <1>2, <1>4, <2>0
  <2>2. big * Billing!Or0(R) = x * Billing!Or0(R)
    BY <1>2, <1>3, <1>4, <2>1, Apart
  <2>3. small * Billing!Or0(Q) = y * (IF Q # None THEN Q ELSE 0)
    BY <1>2, <1>3, <1>5, <1>6, Apart DEF Billing!Or0
  <2> QED
    BY <1>1, <1>10, <1>11, <2>2, <2>3 DEF big, small, x, y, R, Q
<1> QED
  BY <1>9, <1>10

(* Only what searched is charged a search, each once. *)
LEMMA SearchWorth ==
    ASSUME Billing!BillingAssumption, NEW p \in Billing!Vendor, NEW a \in Served[p],
           NEW r \in Rates[p], Billing!Exact(p, a, r)
    PROVE  /\ Billing!SearchFee(p, a, r)
                 = Billing!Count(a.actions, {"search"}) * Billing!Or0(r.search)
           /\ Billing!Count(a.actions, {"search"}) \in Nat /\ Billing!Or0(r.search) \in Nat
<1>1. a.actions \in Seq(STRING) /\ (a.actions # <<>> => Billing!Classify(a.actions) # None)
  BY DEF Billing!BillingAssumption
<1>2. r.search \in Nat \cup {None} /\ (p = "google" => r.search = None)
  BY DEF Billing!BillingAssumption, Billing!Tariff, Billing!Price
<1>3. p \in {"openai", "anthropic", "google", "perplexity"}
  BY Zenon DEF Billing!BillingAssumption
<1>0. None \notin Nat
  BY DEF Billing!BillingAssumption
<1> DEFINE n == Billing!Count(a.actions, {"search"})
<1>4. n \in Nat
  <2>1. IsFiniteSet(1 .. Len(a.actions))
    BY <1>1, FS_Interval
  <2>2. IsFiniteSet({i \in DOMAIN a.actions : a.actions[i] \in {"search"}})
    BY <1>1, <2>1, FS_Subset
  <2> QED
    BY <2>2, FS_CardinalityType, BillingCounts DEF Billing!Count
<1>5. a.actions = <<>> => n = 0
  <2> SUFFICES ASSUME a.actions = <<>>
               PROVE  Cardinality({i \in DOMAIN a.actions : a.actions[i] \in {"search"}}) = 0
    BY BillingCounts DEF Billing!Count
  <2>1. {i \in DOMAIN a.actions : a.actions[i] \in {"search"}} = {}
    OBVIOUS
  <2> QED
    BY <2>1, FS_EmptySet
<1>6. a.actions # <<>> => Billing!Classify(a.actions).search = n
  BY DEF Billing!Classify
<1>7. a.actions = <<>> => Billing!Classify(a.actions) = None
  BY DEF Billing!Classify
<1> HIDE DEF n
<1>8. Billing!Or0(r.search) \in Nat
  BY <1>2 DEF Billing!Or0
<1>9. CASE r.search = None
  <2>1. Billing!Searches(p, a) = None \/ Billing!Searches(p, a) = n
    BY <1>1, <1>6, <1>7 DEF Billing!Searches, n
  <2>2. Billing!Or0(Billing!Searches(p, a)) \in Nat
    BY <1>4, <2>1 DEF Billing!Or0
  <2>3. Billing!Or0(r.search) = 0
    BY <1>9 DEF Billing!Or0
  <2>4. Billing!Or0(Billing!Searches(p, a)) * 0 = n * 0
    BY <1>4, <2>2
  <2> QED
    BY <1>4, <2>3, <2>4 DEF Billing!SearchFee, n
<1>10. CASE r.search # None
  <2>1. Billing!SearchUsed(p, a) => Billing!Searches(p, a) # None
    BY <1>10 DEF Billing!Exact
  <2>2. p # "google"
    BY <1>2, <1>10
  <2>3. Billing!Or0(Billing!Searches(p, a)) = n
    <3>1. CASE a.actions = <<>> /\ p = "openai"
      BY <1>0, <1>3, <1>5, <1>7, <3>1 DEF Billing!Searches, Billing!Or0
    <3>2. CASE a.actions # <<>> /\ p = "openai"
      <4>1. Billing!Searches(p, a) = Billing!Classify(a.actions).search
        BY <1>1, <3>2, Zenon DEF Billing!Searches
      <4>2. n # None
        BY <1>0, <1>4
      <4> QED
        BY <1>6, <3>2, <4>1, <4>2, Zenon DEF Billing!Or0
    <3>3. CASE p # "openai" /\ "searches" \in a.omitted
      <4>1. Billing!Searches(p, a) = None
        BY <2>2, <3>3 DEF Billing!Searches
      <4>2. a.actions = <<>>
        BY <2>1, <2>2, <4>1 DEF Billing!SearchUsed
      <4> QED
        BY <1>5, <4>1, <4>2 DEF Billing!Or0
    <3>4. CASE p # "openai" /\ "searches" \notin a.omitted
      BY <1>0, <1>3, <1>4, <2>2, <3>4 DEF Billing!Searches, Billing!Or0, n
    <3> QED
      BY <3>1, <3>2, <3>3, <3>4
  <2> QED
    BY <1>4, <1>8, <2>3 DEF Billing!SearchFee, n
<1> QED
  BY <1>4, <1>8, <1>9, <1>10 DEF n

(* pricing_service.py, ProviderCostCalculator: an exact bill is the worth  *)
(* of what was served.                                                     *)
LEMMA CostIsWorth ==
    ASSUME Billing!BillingAssumption, NEW p \in Billing!Vendor, NEW a \in Served[p],
           NEW r \in Rates[p], Billing!Exact(p, a, r)
    PROVE  Billing!Cost(p, a, r) = Billing!Worth(p, a.served, a.actions, r)
<1> DEFINE t == [c \in Billing!TokenClass |-> Billing!Or0(Billing!Tokens(p, a)[c])]
           rate == [c \in Billing!TokenClass |-> Billing!Or0(r.rates[c])]
           i1 == (t.input - (IF r.includesCached THEN t.cached ELSE 0)) * rate.input
           c1 == t.cached * rate.cached
           w1 == t.cacheWrite * rate.cacheWrite
           o1 == (t.output - (IF r.includesReasoning /\ r.rates.reasoning # None
                              THEN t.reasoning ELSE 0)) * rate.output
           h1 == t.reasoning * rate.reasoning
           q1 == t.citation * rate.citation
           s1 == Billing!SearchFee(p, a, r)
           i2 == a.served.input * Billing!Or0(r.rates.input)
           c2 == a.served.cached * (IF r.rates.cached # None THEN r.rates.cached
                                    ELSE IF r.includesCached THEN Billing!Or0(r.rates.input) ELSE 0)
           w2 == a.served.cacheWrite * Billing!Or0(r.rates.cacheWrite)
           o2 == a.served.output * Billing!Or0(r.rates.output)
           h2 == a.served.reasoning * (IF r.rates.reasoning # None THEN r.rates.reasoning
                                       ELSE IF r.includesReasoning THEN Billing!Or0(r.rates.output) ELSE 0)
           q2 == a.served.citation * Billing!Or0(r.rates.citation)
           s2 == Billing!Count(a.actions, {"search"}) * Billing!Or0(r.search)
           f == Billing!Or0(r.fee)
<1>1. Billing!Cost(p, a, r) = i1 + c1 + w1 + o1 + h1 + q1 + s1 + f
  BY DEF Billing!Cost
<1>2. Billing!Worth(p, a.served, a.actions, r) = i2 + c2 + w2 + o2 + h2 + q2 + s2 + f
  BY DEF Billing!Worth
<1>3. i1 + c1 = i2 + c2
  BY InputWorth
<1>4. o1 + h1 = o2 + h2
  BY OutputWorth
<1>5. s1 = s2
  BY SearchWorth
<1>6. {"input", "cached", "cacheWrite", "output", "reasoning", "citation"} = Billing!TokenClass
  BY DEF Billing!TokenClass
<1>7. /\ None \notin Nat
      /\ \A c \in Billing!TokenClass :
            /\ r.rates[c] = None \/ r.rates[c] \in Nat
            /\ t[c] \in Nat /\ a.served[c] \in Nat /\ rate[c] \in Nat
  BY ExactClass DEF Billing!BillingAssumption, Billing!Tariff, Billing!Price
<1>8. w1 = w2
  <2>1. /\ r.rates.cacheWrite # None => t.cacheWrite = a.served.cacheWrite
        /\ r.rates.cacheWrite = None => t.cacheWrite = 0
    BY <1>6, ExactTokens DEF Billing!Reported
  <2>2. rate.cacheWrite = Billing!Or0(r.rates.cacheWrite)
    BY <1>6
  <2>3. t.cacheWrite \in Nat /\ a.served.cacheWrite \in Nat
    BY <1>6, <1>7
  <2>4. r.rates.cacheWrite = None \/ r.rates.cacheWrite \in Nat
    BY <1>6, <1>7
  <2> HIDE DEF t, rate
  <2> QED
    BY <1>7, <2>1, <2>2, <2>3, <2>4, Apart
<1>9. q1 = q2
  <2>1. /\ r.rates.citation # None => t.citation = a.served.citation
        /\ r.rates.citation = None => t.citation = 0
    BY <1>6, ExactTokens DEF Billing!Reported
  <2>2. rate.citation = Billing!Or0(r.rates.citation)
    BY <1>6
  <2>3. t.citation \in Nat /\ a.served.citation \in Nat
    BY <1>6, <1>7
  <2>4. r.rates.citation = None \/ r.rates.citation \in Nat
    BY <1>6, <1>7
  <2> HIDE DEF t, rate
  <2> QED
    BY <1>7, <2>1, <2>2, <2>3, <2>4, Apart
<1>10. i1 \in Int /\ c1 \in Int /\ w1 \in Int /\ o1 \in Int /\ h1 \in Int /\ q1 \in Int
  BY <1>6, <1>7
<1>11. i2 \in Int /\ c2 \in Int /\ w2 \in Int /\ o2 \in Int /\ h2 \in Int /\ q2 \in Int
  BY <1>6, <1>7 DEF Billing!Or0
<1>12. s2 \in Int
  BY SearchWorth
<1>13. f \in Int
  BY <1>7 DEF Billing!Or0, Billing!BillingAssumption, Billing!Tariff, Billing!Price
<1> HIDE DEF i1, c1, w1, o1, h1, q1, s1, i2, c2, w2, o2, h2, q2, s2, f
<1> QED
  BY <1>1, <1>2, <1>3, <1>4, <1>5, <1>8, <1>9, <1>10, <1>11, <1>12, <1>13

(* An answer without an error passed every validation of its adapter: it   *)
(* searched where it had to, and within the bound that was asked for.      *)
LEMMA NoErrorIsValid ==
    ASSUME Billing!BillingAssumption, NEW p \in {"openai", "anthropic"}, NEW a \in Served[p],
           a.actions \in Seq(STRING),
           Billing!Answered(a), Billing!ErrorCode(p, a) = None
    PROVE  a.actions # <<>> /\ (p = "openai" => Len(a.actions) <= MaxToolCalls)
<1> DEFINE v == Billing!Validations(p, a)
           F == Billing!Failed(p, a)
           least == CHOOSE i \in F : \A j \in F : i <= j
<1>1. p = "openai" =>
        v = << <<"incomplete" \notin a.faults, "MALFORMED_RESPONSE">>,
               <<"empty" \notin a.faults, "MALFORMED_RESPONSE">>,
               <<Billing!Mode(p) # "WEB_GROUNDED" \/ a.actions # <<>>, "SEARCH_ERROR">>,
               <<Len(a.actions) <= MaxToolCalls, "PROVIDER_CONTRACT_VIOLATION">> >>
  BY DEF Billing!Validations
<1>2. p = "anthropic" =>
        v = << <<"tool" \notin a.faults, "SEARCH_ERROR">>,
               <<"incomplete" \notin a.faults, "SEARCH_ERROR">>,
               <<Billing!Mode(p) # "WEB_GROUNDED" \/ a.actions # <<>>, "SEARCH_ERROR">>,
               <<"empty" \notin a.faults, "MALFORMED_RESPONSE">> >>
  BY DEF Billing!Validations
<1>3. F \subseteq 1 .. 4
  <2>1. DOMAIN v = 1 .. 4
    <3>1. CASE p = "openai"
      BY <1>1, <3>1
    <3>2. CASE p = "anthropic"
      BY <1>2, <3>2
    <3> QED
      BY <3>1, <3>2
  <2> QED
    BY <2>1 DEF Billing!Failed
<1>4. F # {} => least \in F
  <2> SUFFICES ASSUME F # {} PROVE \E i \in F : \A j \in F : i <= j
    OBVIOUS
  <2>1. \A j \in F : j \in {1, 2, 3, 4}
    BY <1>3
  <2> HIDE DEF F
  <2>2. CASE 1 \in F
    BY <2>1, <2>2
  <2>3. CASE 1 \notin F /\ 2 \in F
    BY <2>1, <2>3
  <2>4. CASE 1 \notin F /\ 2 \notin F /\ 3 \in F
    BY <2>1, <2>4
  <2>5. CASE 1 \notin F /\ 2 \notin F /\ 3 \notin F
    BY <2>1, <2>5
  <2> QED
    BY <2>2, <2>3, <2>4, <2>5
<1>5. None \notin {"MALFORMED_RESPONSE", "SEARCH_ERROR", "PROVIDER_CONTRACT_VIOLATION"}
  BY DEF Billing!BillingAssumption
<1>6. \A i \in 1 .. 4 : v[i][2] # None
  <2>1. CASE p = "openai"
    BY <1>1, <1>5, <2>1
  <2>2. CASE p = "anthropic"
    BY <1>2, <1>5, <2>2
  <2> QED
    BY <2>1, <2>2
<1>7. F = {}
  BY <1>3, <1>4, <1>6 DEF Billing!ErrorCode
<1>8. Billing!Mode(p) = "WEB_GROUNDED"
  BY DEF Billing!Mode
<1>9. CASE p = "openai"
  <2>1. v[3][1] /\ v[4][1]
    BY <1>1, <1>7, <1>9 DEF Billing!Failed
  <2>2. /\ v[3][1] = (Billing!Mode(p) # "WEB_GROUNDED" \/ a.actions # <<>>)
        /\ v[4][1] = (Len(a.actions) <= MaxToolCalls)
    BY <1>1, <1>9
  <2> HIDE DEF v
  <2> QED
    BY <1>8, <2>1, <2>2, Zenon
<1>10. CASE p = "anthropic"
  <2>1. v[3][1]
    BY <1>2, <1>7, <1>10 DEF Billing!Failed
  <2>2. v[3][1] = (Billing!Mode(p) # "WEB_GROUNDED" \/ a.actions # <<>>)
    BY <1>2, <1>10
  <2>3. p # "openai"
    BY <1>10
  <2> HIDE DEF v
  <2> QED
    BY <1>8, <2>1, <2>2, <2>3, Zenon
<1> QED
  BY <1>9, <1>10

-----------------------------------------------------------------------------
(* The run has its columns, and starts with no answer and no bill. *)
RunShape ==
    /\ run = [provider |-> run.provider, configured |-> run.configured, status |-> run.status,
              started |-> run.started, code |-> run.code, bill |-> run.bill,
              searched |-> run.searched]
    /\ run.status = "PENDING" => answer = None /\ run.bill = None
    /\ run.status # "PENDING" => run.started \in Nat

(* A bill was computed once, from the answer, at the only tariff in force  *)
(* when the run started, or at none; a run that is billed has ended, and   *)
(* with it the changes of prices that it could have seen.                  *)
BilledOnce ==
    run.bill # None =>
        /\ run.status \in {"SUCCEEDED", "FAILED"} /\ answer # None
        /\ run.bill = Billing!Computed(run.provider, answer, None)
           \/ \E r \in prices :
                 /\ Billing!InForce(run.started) = {r}
                 /\ run.bill = Billing!Computed(run.provider, answer, r.tariff)

(* Who succeeds has an answer without an error. *)
SuccessIsClean ==
    run.status = "SUCCEEDED" =>
        /\ answer # None
        /\ Billing!Answered(answer)
        /\ Billing!ErrorCode(run.provider, answer) = None

(* The inductive invariant of ProviderBilling.                             *)
BillingIInv == Billing!TypeOK /\ RunShape /\ BilledOnce /\ SuccessIsClean

(* The parts of BillingIInv hold initially: nothing was answered, nothing  *)
(* billed.                                                                 *)
LEMMA BillingInit ==
    ASSUME Billing!BillingAssumption PROVE Billing!Init => BillingIInv
<1> SUFFICES ASSUME Billing!Init PROVE BillingIInv
  OBVIOUS
<1>0. PICK p \in Billing!Vendor :
        /\ \E configured \in BOOLEAN :
              run = [provider |-> p, configured |-> configured, status |-> "PENDING",
                     started |-> None, code |-> None, bill |-> None, searched |-> None]
        /\ \E r \in Rates[p] : prices = {[from |-> 0, to |-> None, tariff |-> r]}
  BY DEF Billing!Init
<1>1. PICK configured \in BOOLEAN, r \in Rates[p] :
        /\ run = [provider |-> p, configured |-> configured, status |-> "PENDING",
                  started |-> None, code |-> None, bill |-> None, searched |-> None]
        /\ prices = {[from |-> 0, to |-> None, tariff |-> r]}
  BY <1>0
<1>2. IsFiniteSet(prices)
  BY <1>1, FS_Singleton
<1>3. \A x \in prices : x \in [from: Nat, to: Nat \cup {None}, tariff: Rates[p]]
  BY <1>1
<1>4. time = 1 /\ answer = None
  BY DEF Billing!Init
<1>5. run.provider = p /\ run.status = "PENDING" /\ run.started = None /\ run.bill = None
  BY <1>1
<1>6. Billing!TypeOK
  BY <1>1, <1>2, <1>3, <1>4, <1>5, BillingCounts DEF Billing!TypeOK
<1> QED
  BY <1>1, <1>4, <1>5, <1>6 DEF BillingIInv, RunShape, BilledOnce, SuccessIsClean

(* A change of the price list leaves a finite list of well-formed rules. *)
LEMMA PublishedIsFinite ==
    ASSUME Billing!TypeOK, NEW t \in Rates[run.provider], NEW ends \in BOOLEAN,
           NEW begins \in BOOLEAN, Billing!Publish(t, ends, begins)
    PROVE  /\ prices' # {} /\ IsFiniteSet(prices')
           /\ \A r \in prices' :
                 r \in [from: Nat, to: Nat \cup {None}, tariff: Rates[run.provider]]
<1> DEFINE Rule == [from: Nat, to: Nat \cup {None}, tariff: Rates[run.provider]]
           End(r) == IF r.to = None THEN [r EXCEPT !.to = time + 1] ELSE r
           Closed == {End(r) : r \in prices}
           closed == IF ends THEN Closed ELSE prices
           new == [from |-> time + 1, to |-> None, tariff |-> t]
<1>1. prices' = closed \cup (IF begins THEN {new} ELSE {})
  BY DEF Billing!Publish
<1>2. time + 1 \in Nat /\ prices # {} /\ IsFiniteSet(prices) /\ \A r \in prices : r \in Rule
  BY BillingCounts DEF Billing!TypeOK
<1>3. IsFiniteSet(Closed)
  <2> DEFINE f == [r \in prices |-> End(r)]
  <2>1. f \in Surjection(prices, Closed)
    <3>1. f \in [prices -> Closed]
      OBVIOUS
    <3>2. \A y \in Closed : \E r \in prices : f[r] = y
      OBVIOUS
    <3> QED
      BY <3>1, <3>2, Zenon DEF Surjection
  <2> QED
    BY <1>2, <2>1, FS_Surjection
<1>4. \A r \in Closed : r \in Rule
  <2> SUFFICES ASSUME NEW r \in prices PROVE End(r) \in Rule
    OBVIOUS
  <2> QED
    BY <1>2
<1>5. new \in Rule
  BY <1>2
<1>6. Closed # {}
  BY <1>2
<1> HIDE DEF Closed, End
<1>7. closed # {} /\ IsFiniteSet(closed) /\ \A r \in closed : r \in Rule
  BY <1>2, <1>3, <1>4, <1>6
<1> HIDE DEF closed, new, Rule
<1>8. IsFiniteSet(prices')
  BY <1>1, <1>7, FS_Singleton, FS_Union, FS_EmptySet
<1>9. \A r \in prices' : r \in Rule
  BY <1>1, <1>5, <1>7
<1> QED
  BY <1>1, <1>7, <1>8, <1>9 DEF Rule

(* What is recorded is computed from the one tariff in force when the run  *)
(* started: two of them leave it to be reconciled.                         *)
LEMMA RecordStep ==
    ASSUME Billing!BillingAssumption, BillingIInv, Billing!Record PROVE BillingIInv'
<1> DEFINE p == run.provider
           R == Billing!InForce(run.started)
           tariff == IF R = {} THEN None ELSE (CHOOSE x \in R : TRUE).tariff
           code == Billing!ErrorCode(p, answer)
           bill == Billing!Computed(p, answer, tariff)
<1>1. /\ run.status = "RUNNING" /\ answer # None /\ Billing!Billable(p, answer)
      /\ UNCHANGED <<time, prices, answer>>
      /\ run' = IF Billing!Cardinality(R) > 1
                THEN [run EXCEPT !.code = "ACCOUNTING_UNRESOLVED"]
                ELSE [run EXCEPT !.status = IF code = None THEN "SUCCEEDED" ELSE "FAILED",
                                 !.code = code, !.bill = bill,
                                 !.searched = Billing!SearchUsed(p, answer)]
  BY DEF Billing!Record, Billing!Resolve
<1>2. RunShape /\ BilledOnce /\ Billing!TypeOK /\ SuccessIsClean
  BY DEF BillingIInv
<1>3. run.bill = None
  BY <1>1, <1>2 DEF BilledOnce
<1>4. bill.source \in {"PROVIDER_REPORTED", "PRICE_RULE", "UNKNOWN"}
  BY DEF Billing!Computed, Billing!Bill
<1>5. run.started \in Nat
  BY <1>1, <1>2 DEF RunShape
<1>6. CASE Billing!Cardinality(R) > 1
  <2>1. /\ run'.provider = run.provider /\ run'.status = run.status
        /\ run'.started = run.started /\ run'.bill = run.bill
        /\ RunShape'
    BY <1>1, <1>2, <1>6 DEF RunShape
  <2> QED
    BY <1>1, <1>2, <1>3, <2>1 DEF BillingIInv, Billing!TypeOK, BilledOnce, SuccessIsClean
<1>7. CASE ~(Billing!Cardinality(R) > 1)
  <2> HIDE DEF bill, code, R, tariff
  <2>1. /\ run'.provider = run.provider
        /\ run'.status = (IF code = None THEN "SUCCEEDED" ELSE "FAILED")
        /\ run'.started = run.started /\ run'.bill = bill
        /\ RunShape'
    BY <1>1, <1>2, <1>5, <1>7 DEF RunShape
  <2>2. Billing!TypeOK'
    BY <1>1, <1>2, <1>4, <2>1 DEF Billing!TypeOK
  <2>3. BilledOnce'
    <3>1. R = {} \/ \E r \in prices : R = {r} /\ tariff = r.tariff
      <4>1. IsFiniteSet(R) /\ R \subseteq prices
        BY <1>2, FS_Subset, BillingCounts DEF R, Billing!InForce, Billing!TypeOK
      <4>2. Cardinality(R) \in Nat /\ ~(Cardinality(R) > 1)
        BY <1>7, <4>1, BillingCounts, FS_CardinalityType
      <4>3. Cardinality(R) = 0 \/ Cardinality(R) = 1
        BY <4>2
      <4>4. R = {} \/ \E r : R = {r}
        BY <4>1, <4>3, FS_EmptySet, FS_Singleton
      <4> QED
        BY <4>1, <4>4 DEF tariff
    <3>2. Billing!InForce(run.started)' = R
      BY <1>1, <2>1 DEF R, Billing!InForce
    <3>3. R = {} => tariff = None
      BY DEF tariff
    <3>4. run'.bill = Billing!Computed(run'.provider, answer', tariff)
      BY <1>1, <2>1 DEF bill
    <3>5. run'.status \in {"SUCCEEDED", "FAILED"}
      BY <2>1
    <3> HIDE DEF bill, code, R, tariff
    <3>6. CASE R = {}
      BY <1>1, <3>3, <3>4, <3>5, <3>6 DEF BilledOnce
    <3>7. CASE R # {}
      BY <1>1, <3>1, <3>2, <3>4, <3>5, <3>7 DEF BilledOnce
    <3> QED
      BY <3>6, <3>7
  <2>4. SuccessIsClean'
    BY <1>1, <2>1 DEF SuccessIsClean, Billing!Billable, code
  <2> QED
    BY <2>1, <2>2, <2>3, <2>4 DEF BillingIInv
<1> QED
  BY <1>6, <1>7

(* Every step of a run or of the price list keeps BillingIInv; the tariff  *)
(* a bill used stays the one in force when the run started.                *)
LEMMA BillingStep ==
    ASSUME Billing!BillingAssumption
    PROVE  BillingIInv /\ [Billing!Next]_(Billing!vars) => BillingIInv'
<1> SUFFICES ASSUME BillingIInv, [Billing!Next]_(Billing!vars) PROVE BillingIInv'
  OBVIOUS
<1>1. Billing!TypeOK /\ RunShape /\ BilledOnce /\ SuccessIsClean
  BY DEF BillingIInv
<1>2. None \notin Nat
  BY DEF Billing!BillingAssumption
<1>3. CASE Billing!Claim
  <2>1. /\ run'.provider = run.provider /\ run'.status = "RUNNING"
        /\ run'.started = time /\ run'.bill = None /\ run.bill = None
        /\ RunShape'
    BY <1>1, <1>3 DEF Billing!Claim, RunShape, Billing!TypeOK
  <2>2. UNCHANGED <<time, prices, answer>>
    BY <1>3 DEF Billing!Claim
  <2> QED
    BY <1>1, <2>1, <2>2 DEF BillingIInv, Billing!TypeOK, BilledOnce, SuccessIsClean
<1>4. CASE Billing!Unconfigured \/ Billing!Fail
  <2>1. /\ run.status = "RUNNING"
        /\ UNCHANGED <<time, prices, answer>>
        /\ \E code : run' = [run EXCEPT !.status = "FAILED", !.code = code]
    BY <1>4 DEF Billing!Unconfigured, Billing!Fail
  <2>2. run.bill = None
    BY <1>1, <2>1 DEF BilledOnce
  <2>3. /\ run'.provider = run.provider /\ run'.status = "FAILED"
        /\ run'.started = run.started /\ run'.bill = None
        /\ RunShape'
    BY <1>1, <2>1, <2>2 DEF RunShape
  <2> QED
    BY <1>1, <2>1, <2>3 DEF BillingIInv, Billing!TypeOK, BilledOnce, SuccessIsClean
<1>5. ASSUME NEW a \in Served[run.provider], Billing!Call(a) PROVE BillingIInv'
  <2>1. run.status = "RUNNING" /\ UNCHANGED <<time, prices, run>> /\ answer' = a
    BY <1>5 DEF Billing!Call
  <2>2. run.bill = None
    BY <1>1, <2>1 DEF BilledOnce
  <2> QED
    BY <1>1, <2>1, <2>2 DEF BillingIInv, Billing!TypeOK, RunShape, BilledOnce,
       SuccessIsClean
<1>6. CASE Billing!Record
  BY <1>6, RecordStep
<1>7. ASSUME NEW t \in Rates[run.provider], NEW ends \in BOOLEAN, NEW begins \in BOOLEAN,
             Billing!Publish(t, ends, begins)
      PROVE BillingIInv'
  <2>1. run.status \in {"PENDING", "RUNNING"} /\ UNCHANGED <<run, answer>> /\ time' = time + 1
    BY <1>7 DEF Billing!Publish
  <2>2. run.bill = None
    BY <1>1, <2>1 DEF BilledOnce
  <2>3. Billing!TypeOK'
    BY <1>1, <1>7, <2>1, PublishedIsFinite, BillingCounts DEF Billing!TypeOK
  <2> QED
    BY <1>1, <2>1, <2>2, <2>3 DEF BillingIInv, RunShape, BilledOnce, SuccessIsClean
<1>8. CASE UNCHANGED Billing!vars
  BY <1>1, <1>8 DEF Billing!vars, BillingIInv, Billing!TypeOK, RunShape, BilledOnce,
     SuccessIsClean, Billing!InForce
<1> QED
  BY <1>3, <1>4, <1>5, <1>6, <1>7, <1>8 DEF Billing!Next

(* Costs are what was reported, or the worth of what was served at the one *)
(* rule in force when the run started; and who succeeds did search.        *)
LEMMA BilledRight ==
    ASSUME Billing!BillingAssumption
    PROVE  BillingIInv => Billing!BilledAsServed
<1> SUFFICES ASSUME BillingIInv PROVE Billing!BilledAsServed
  OBVIOUS
<1> DEFINE p == run.provider
<1>1. p \in Billing!Vendor /\ (answer # None => answer \in Served[p])
  BY DEF BillingIInv, Billing!TypeOK
<1>2. \A r : Billing!Computed(p, answer, r) =
        IF Billing!Failed(p, answer) = {} /\ p = "perplexity" /\ answer.reported # None
           /\ answer.reported >= 0
        THEN Billing!Bill(answer.reported, "PROVIDER_REPORTED")
        ELSE IF r # None /\ Billing!Exact(p, answer, r)
             THEN Billing!Bill(Billing!Cost(p, answer, r), "PRICE_RULE")
             ELSE Billing!Bill(None, "UNKNOWN")
  BY DEF Billing!Computed
<1>3. \A c, s : Billing!Bill(c, s).cost = c /\ Billing!Bill(c, s).source = s
  BY DEF Billing!Bill
<1>4. ASSUME run.bill # None
      PROVE  /\ run.bill.source = "PROVIDER_REPORTED" => run.bill.cost = answer.reported
             /\ run.bill.source = "PRICE_RULE" =>
                   \E x \in prices :
                      /\ Billing!InForce(run.started) = {x}
                      /\ run.bill.cost = Billing!Worth(p, answer.served, answer.actions, x.tariff)
  <2>1. PICK r : /\ run.bill = Billing!Computed(p, answer, r)
                 /\ r = None \/ \E x \in prices : Billing!InForce(run.started) = {x} /\ r = x.tariff
    BY <1>4 DEF BillingIInv, BilledOnce
  <2>2. run.bill.source = "PROVIDER_REPORTED" => run.bill.cost = answer.reported
    BY <1>2, <1>3, <2>1
  <2>3. ASSUME run.bill.source = "PRICE_RULE"
        PROVE  \E x \in prices :
                  /\ Billing!InForce(run.started) = {x}
                  /\ run.bill.cost = Billing!Worth(p, answer.served, answer.actions, x.tariff)
    <3>1. r # None /\ Billing!Exact(p, answer, r) /\ run.bill.cost = Billing!Cost(p, answer, r)
      BY <1>2, <1>3, <2>1, <2>3
    <3>2. PICK x \in prices : Billing!InForce(run.started) = {x} /\ r = x.tariff
      BY <2>1, <3>1
    <3>3. r \in Rates[p]
      BY <3>2 DEF BillingIInv, Billing!TypeOK
    <3>4. answer \in Served[p]
      BY <1>1, <1>4 DEF BillingIInv, BilledOnce
    <3> QED
      BY <1>1, <3>1, <3>2, <3>3, <3>4, CostIsWorth
  <2> QED
    BY <2>2, <2>3
<1>5. ASSUME run.status = "SUCCEEDED", p \in {"openai", "anthropic"}
      PROVE  answer.actions # <<>> /\ (p = "openai" => Len(answer.actions) <= MaxToolCalls)
  <2>1. /\ answer # None /\ Billing!Answered(answer)
        /\ Billing!ErrorCode(p, answer) = None
    BY <1>5 DEF BillingIInv, SuccessIsClean
  <2>2. answer \in Served[p] /\ answer.actions \in Seq(STRING)
    BY <1>1, <2>1 DEF Billing!BillingAssumption
  <2> QED
    BY <1>5, <2>1, <2>2, NoErrorIsValid
<1> QED
  BY <1>4, <1>5 DEF Billing!BilledAsServed

-----------------------------------------------------------------------------
(* ActionCenter *)

(* The instance's counts are the library's.                                *)
LEMMA ActionsCount ==
    \A S : /\ Actions!Cardinality(S) = Cardinality(S)
           /\ Actions!IsFiniteSet(S) <=> IsFiniteSet(S)
BY DEF Actions!Cardinality, Cardinality, Actions!IsFiniteSet, IsFiniteSet

(* What a cap on a sorted list leaves is of the list. *)
LEMMA FirstIsPart ==
    ASSUME NEW n, NEW keyed PROVE \A x \in Actions!First(n, keyed) : \E k \in keyed : x = k[2]
BY DEF Actions!First

(* A rate tells something from nothing, among two million at most.         *)
LEMMA PctTells ==
    ASSUME NEW n \in Nat, NEW d \in Nat
    PROVE  /\ d = 0 => Actions!Pct(n, d) = None
           /\ d > 0 => Actions!Pct(n, d) \in Nat
           /\ d > 0 /\ n = 0 => Actions!Pct(n, d) = 0
           /\ d > 0 /\ n >= 1 /\ d <= 2000000 => Actions!Pct(n, d) >= 1
<1>1. ASSUME NEW a \in Nat, NEW b \in Nat, b > 0
      PROVE  /\ a \div b \in Nat
             /\ a < b => a \div b = 0
             /\ a >= b => a \div b >= 1
  <2>1. a \div b \in Nat
    BY <1>1
  <2>2. ASSUME a < b PROVE a \div b = 0
    BY <1>1, <2>2
  <2>3. ASSUME a >= b PROVE a \div b >= 1
    BY <1>1, <2>3
  <2> QED
    BY <2>1, <2>2, <2>3
<1>2. CASE d = 0
  BY <1>2 DEF Actions!Pct
<1>3. CASE d > 0
  <2>1. 2000000 * n + d \in Nat /\ 2 * d \in Nat /\ 2 * d > 0
    BY <1>3
  <2>2. n = 0 => 2000000 * n + d < 2 * d
    BY <1>3
  <2>3. n >= 1 /\ d <= 2000000 => 2000000 * n + d >= 2 * d
    BY <1>3
  <2>4. Actions!Pct(n, d) = (2000000 * n + d) \div (2 * d)
    BY <1>3 DEF Actions!Pct
  <2> QED
    BY <1>1, <1>3, <2>1, <2>2, <2>3, <2>4
<1> QED
  BY <1>2, <1>3

(* The runs of a scan, or of what a verification measures of one. *)
RunsOf(runs) == runs \in [DOMAIN runs -> Answers] /\ DOMAIN runs \subseteq Asked

(* Whatever a filter lets through, the counts of an explanation are        *)
(* numbers, none above a plan's, and those of parts.                       *)
LEMMA Counted ==
    ASSUME Actions!ActionAssumption, NEW runs, RunsOf(runs), NEW S, S \subseteq DOMAIN runs
    PROVE  /\ IsFiniteSet(S) /\ Cardinality(S) \in Nat /\ Cardinality(S) <= 2000000
           /\ Actions!Cardinality(S) = Cardinality(S)
           /\ Cardinality(S) = 0 <=> S = {}
           /\ Cardinality(S) >= 1 <=> S # {}
<1>1. IsFiniteSet(Asked) /\ Cardinality(Asked) <= 2000000 /\ S \subseteq Asked
  BY ActionsCount DEF Actions!ActionAssumption, RunsOf
<1>2. IsFiniteSet(S) /\ Cardinality(S) <= Cardinality(Asked)
  BY <1>1, FS_Subset
<1>3. Cardinality(S) \in Nat /\ Cardinality(Asked) \in Nat
  BY <1>1, <1>2, FS_CardinalityType
<1>4. Cardinality(S) = 0 <=> S = {}
  BY <1>2, FS_EmptySet
<1> QED
  BY <1>1, <1>2, <1>3, <1>4, ActionsCount

(* The sets of an explanation are sets of runs. *)
LEMMA Parts ==
    ASSUME NEW runs, NEW f, NEW e
    PROVE  /\ Actions!Planned(runs, f) \subseteq DOMAIN runs
           /\ Actions!Succeeded(runs, f) \subseteq DOMAIN runs
           /\ Actions!Eligible(runs, f) \subseteq DOMAIN runs
           /\ Actions!Mentioned(runs, f, e) \subseteq DOMAIN runs
           /\ Actions!Cited(runs, f, e) \subseteq DOMAIN runs
           /\ Actions!CompetitorOnly(runs, f, e) \subseteq DOMAIN runs
BY DEF Actions!Planned, Actions!Succeeded, Actions!Eligible, Actions!Mentioned,
   Actions!Cited,
       Actions!CompetitorOnly

(* The fields of an explanation. *)
Seen(runs, f, e) ==
    Actions!Pct(Cardinality(Actions!Mentioned(runs, f, e)), Cardinality(Actions!Succeeded(runs, f)))
(* The share of the eligible answers that cite e.                          *)
CitedRate(runs, f, e) ==
    Actions!Pct(Cardinality(Actions!Cited(runs, f, e)), Cardinality(Actions!Eligible(runs, f)))

(* The fields of an explanation are counts, rates and gaps of the sets     *)
(* above.                                                                  *)
LEMMA Explained ==
    ASSUME NEW runs, NEW f, NEW c
    PROVE  LET x == Actions!Explanation(runs, f, c) IN
           /\ x.successful = Cardinality(Actions!Succeeded(runs, f))
           /\ x.brand = Seen(runs, f, "brand")
           /\ x.gap = Actions!Difference(Seen(runs, f, c), Seen(runs, f, "brand"))
           /\ x.eligible = Cardinality(Actions!Eligible(runs, f))
           /\ x.brandCited = CitedRate(runs, f, "brand")
           /\ x.citationGap = Actions!Difference(CitedRate(runs, f, c), CitedRate(runs, f, "brand"))
           /\ x.onlyRate = Actions!Pct(Cardinality(Actions!CompetitorOnly(runs, f, c)),
                                       Cardinality(Actions!Succeeded(runs, f)))
BY ActionsCount DEF Actions!Explanation, Seen, CitedRate

(* A rate is a number where anything was seen, and zero where nobody was.  *)
LEMMA RatesOfScan ==
    ASSUME Actions!ActionAssumption, NEW runs, RunsOf(runs), NEW f, NEW e
    PROVE  /\ Seen(runs, f, e) \in Nat \cup {None}
           /\ Seen(runs, f, e) = None <=> Actions!Succeeded(runs, f) = {}
           /\ CitedRate(runs, f, e) \in Nat \cup {None}
           /\ CitedRate(runs, f, e) = None <=> Actions!Eligible(runs, f) = {}
           /\ Seen(runs, f, e) # None /\ Seen(runs, f, e) >= 1 => Actions!Mentioned(runs, f, e) # {}
           /\ CitedRate(runs, f, e) # None /\ CitedRate(runs, f, e) >= 1 => Actions!Cited(runs, f, e) # {}
<1> DEFINE M == Actions!Mentioned(runs, f, e)
           S == Actions!Succeeded(runs, f)
           C == Actions!Cited(runs, f, e)
           E == Actions!Eligible(runs, f)
<1>1. None \notin Nat
  BY DEF Actions!ActionAssumption
<1>2. /\ Cardinality(M) \in Nat /\ (Cardinality(M) = 0 <=> M = {})
      /\ Cardinality(S) \in Nat /\ (Cardinality(S) = 0 <=> S = {})
      /\ Cardinality(C) \in Nat /\ (Cardinality(C) = 0 <=> C = {})
      /\ Cardinality(E) \in Nat /\ (Cardinality(E) = 0 <=> E = {})
  BY Parts, Counted
<1> HIDE DEF M, S, C, E
<1>3. /\ Seen(runs, f, e) = Actions!Pct(Cardinality(M), Cardinality(S))
      /\ CitedRate(runs, f, e) = Actions!Pct(Cardinality(C), Cardinality(E))
  BY DEF Seen, CitedRate, M, S, C, E
<1>4. /\ Seen(runs, f, e) \in Nat \cup {None}
      /\ Seen(runs, f, e) = None <=> S = {}
      /\ Seen(runs, f, e) # None /\ M = {} => Seen(runs, f, e) = 0
  BY <1>1, <1>2, <1>3, PctTells
<1>5. /\ CitedRate(runs, f, e) \in Nat \cup {None}
      /\ CitedRate(runs, f, e) = None <=> E = {}
      /\ CitedRate(runs, f, e) # None /\ C = {} => CitedRate(runs, f, e) = 0
  BY <1>1, <1>2, <1>3, PctTells
<1> QED
  BY <1>4, <1>5 DEF M, S, C, E

(* Gates that let both sides through have seen answers on both. *)
LEMMA GateOpen ==
    ASSUME Actions!ActionAssumption, NEW o, NEW base, NEW now,
           Actions!Gate(o, base, now) = None
    PROVE  now.successful # 0 /\ base.successful # 0
<1> DEFINE citation == o.type = "OWNED_CITATION_GAP"
           gates == <<
          <<Actions!AtLeast(now.coverage, Threshold.minCoverage), "INSUFFICIENT_COVERAGE">>,
          <<now.successful # 0, "NO_SUCCESSFUL_OBSERVATIONS">>,
          <<base.successful # 0, "NO_SUCCESSFUL_OBSERVATIONS">>,
          <<Actions!AtLeast(base.coverage, Threshold.minCoverage), "INSUFFICIENT_BASELINE_COVERAGE">>,
          <<citation => base.eligible >= Threshold.minCitationEligible,
            "INSUFFICIENT_CITATION_EVIDENCE">>,
          <<citation => now.eligible >= Threshold.minCitationEligible,
            "INSUFFICIENT_CITATION_EVIDENCE">> >>
           shut == {i \in DOMAIN gates : ~gates[i][1]}
           least == CHOOSE i \in shut : \A j \in shut : i <= j
<1>1. Actions!Gate(o, base, now) = IF shut = {} THEN None ELSE gates[least][2]
  BY DEF Actions!Gate
<1>2. shut \subseteq 1 .. 6
  OBVIOUS
<1>3. shut # {} => least \in shut
  <2> SUFFICES ASSUME shut # {} PROVE \E i \in shut : \A j \in shut : i <= j
    OBVIOUS
  <2>1. \A j \in shut : j \in {1, 2, 3, 4, 5, 6}
    BY <1>2
  <2> HIDE DEF shut
  <2>2. CASE 1 \in shut
    BY <2>1, <2>2
  <2>3. CASE 1 \notin shut /\ 2 \in shut
    BY <2>1, <2>3
  <2>4. CASE 1 \notin shut /\ 2 \notin shut /\ 3 \in shut
    BY <2>1, <2>4
  <2>5. CASE 1 \notin shut /\ 2 \notin shut /\ 3 \notin shut /\ 4 \in shut
    BY <2>1, <2>5
  <2>6. CASE 1 \notin shut /\ 2 \notin shut /\ 3 \notin shut /\ 4 \notin shut /\ 5 \in shut
    BY <2>1, <2>6
  <2>7. CASE 1 \notin shut /\ 2 \notin shut /\ 3 \notin shut /\ 4 \notin shut /\ 5 \notin shut
    BY <2>1, <2>7
  <2> QED
    BY <2>2, <2>3, <2>4, <2>5, <2>6, <2>7
<1>4. \A i \in 1 .. 6 : gates[i][2] # None
  BY DEF Actions!ActionAssumption
<1>5. shut = {}
  <2> HIDE DEF shut, gates, least
  <2> QED
    BY <1>1, <1>2, <1>3, <1>4
<1>6. gates[2][1] /\ gates[3][1]
  BY <1>5
<1>7. gates[2][1] = (now.successful # 0) /\ gates[3][1] = (base.successful # 0)
  OBVIOUS
<1> HIDE DEF gates
<1> QED
  BY <1>6, <1>7, Zenon

(* What the rules can detect is of one of four types. *)
OppType == {"DISCOVERY_VISIBILITY_GAP", "PROVIDER_VISIBILITY_GAP", "OWNED_CITATION_GAP",
            "PROMPT_COMPETITOR_GAP"}

(* An evaluation that says RESOLVED found the metric below its threshold   *)
(* and the brand present, on two sides with answers.                       *)
LEMMA ResolvedMeans ==
    ASSUME Actions!ActionAssumption, NEW o, NEW base, NEW runs,
           Actions!Evaluation(o, base, runs).outcome = "RESOLVED"
    PROVE  LET x == Actions!Explanation(base, Actions!Filter(o), o.competitor)
               y == Actions!Explanation(runs, Actions!Filter(o), o.competitor)
               value == y[Actions!Metric(o).name]
           IN /\ x.successful # 0 /\ y.successful # 0
              /\ value # None /\ Actions!BelowThreshold(o, value)
              /\ Actions!BrandSafeguard(o, x, y)
<1> DEFINE x == Actions!Explanation(base, Actions!Filter(o), o.competitor)
           y == Actions!Explanation(runs, Actions!Filter(o), o.competitor)
           value == y[Actions!Metric(o).name]
<1>1. Actions!Gate(o, x, y) = None /\ Actions!Decide(o, x, y) = "RESOLVED"
  BY DEF Actions!Evaluation
<1>2. x.successful # 0 /\ y.successful # 0
  BY <1>1, GateOpen
<1>3. /\ value # None /\ Actions!BelowThreshold(o, value)
      /\ Actions!BrandSafeguard(o, x, y)
  <2> HIDE DEF x, y
  <2>1. CASE value = None
    BY <1>1, <2>1 DEF Actions!Decide
  <2>2. CASE value # None /\ ~Actions!BelowThreshold(o, value)
    BY <1>1, <2>2 DEF Actions!Decide
  <2>3. CASE value # None /\ Actions!BelowThreshold(o, value)
    BY <1>1, <2>3 DEF Actions!Decide
  <2> QED
    BY <2>1, <2>2, <2>3
<1> QED
  BY <1>2, <1>3

(* The rules find a gap only where the explanation has one. *)
LEMMA Detects ==
    ASSUME NEW runs, NEW c, NEW d \in Actions!DetectedFor(runs, c)
    PROVE  LET o == d.fingerprint
               x == Actions!Explanation(runs, Actions!AnyFilter, c)
           IN /\ o.competitor = c /\ d.priority \in {"HIGH", "MEDIUM", "LOW"}
              /\ o.type \in OppType
              /\ o.type = "DISCOVERY_VISIBILITY_GAP" =>
                    Actions!AtLeast(x.gap, Threshold.minDiscoveryGap)
              /\ o.type = "PROVIDER_VISIBILITY_GAP" =>
                    /\ o.provider \in Actions!Providers(runs)
                    /\ Actions!AtLeast(Actions!Explanation(runs, Actions!OfProvider(o.provider), c).gap,
                                       Threshold.minProviderGap)
              /\ o.type = "OWNED_CITATION_GAP" =>
                    Actions!AtLeast(x.citationGap, Threshold.minCitationGap)
              /\ o.type = "PROMPT_COMPETITOR_GAP" => o.prompt \in Actions!GapPrompts(runs, c)
<1> DEFINE x == Actions!Explanation(runs, Actions!AnyFilter, c)
<1>0. \A g, h : Actions!Priority(g, h) \in {"HIGH", "MEDIUM"}
  BY DEF Actions!Priority
<1> USE DEF Actions!Detected, Actions!Fingerprint, OppType
<1>1. CASE d \in Actions!DiscoveryGap(x, c)
  BY <1>0, <1>1 DEF Actions!DiscoveryGap
<1>2. CASE d \in Actions!CitationGap(x, c)
  BY <1>0, <1>2 DEF Actions!CitationGap
<1>3. ASSUME NEW p \in Actions!Providers(runs),
             d \in Actions!ProviderGap(Actions!Explanation(runs, Actions!OfProvider(p), c), c, p)
      PROVE  /\ d.fingerprint.type = "PROVIDER_VISIBILITY_GAP" /\ d.fingerprint.competitor = c
             /\ d.fingerprint.provider = p /\ d.priority \in {"HIGH", "MEDIUM"}
             /\ Actions!AtLeast(Actions!Explanation(runs, Actions!OfProvider(p), c).gap,
                                Threshold.minProviderGap)
  BY <1>0, <1>3 DEF Actions!ProviderGap
<1>4. ASSUME NEW p \in Actions!PromptGaps(runs, c), d \in Actions!PromptGap(runs, c, p)
      PROVE  /\ d.fingerprint.type = "PROMPT_COMPETITOR_GAP" /\ d.fingerprint.competitor = c
             /\ d.fingerprint.prompt = p /\ d.priority \in {"HIGH", "MEDIUM", "LOW"}
             /\ p \in Actions!GapPrompts(runs, c)
  <2>1. p \in Actions!GapPrompts(runs, c)
    BY FirstIsPart DEF Actions!PromptGaps
  <2>2. Actions!PromptPriority(runs, c, p) \in {"HIGH", "MEDIUM", "LOW"}
    BY DEF Actions!PromptPriority
  <2> QED
    BY <1>4, <2>1, <2>2 DEF Actions!PromptGap
<1>5. \/ d \in Actions!DiscoveryGap(x, c) \/ d \in Actions!CitationGap(x, c)
      \/ \E p \in Actions!Providers(runs) :
            d \in Actions!ProviderGap(Actions!Explanation(runs, Actions!OfProvider(p), c), c, p)
      \/ \E p \in Actions!PromptGaps(runs, c) : d \in Actions!PromptGap(runs, c, p)
  <2> DEFINE P == UNION {Actions!ProviderGap(Actions!Explanation(runs, Actions!OfProvider(p), c), c, p) :
                            p \in Actions!Providers(runs)}
             Q == UNION {Actions!PromptGap(runs, c, prompt) : prompt \in Actions!PromptGaps(runs, c)}
  <2>1. Actions!DetectedFor(runs, c)
          = Actions!DiscoveryGap(x, c) \cup Actions!CitationGap(x, c) \cup P \cup Q
    BY DEF Actions!DetectedFor
  <2>2. d \in P => \E p \in Actions!Providers(runs) :
            d \in Actions!ProviderGap(Actions!Explanation(runs, Actions!OfProvider(p), c), c, p)
    OBVIOUS
  <2>3. d \in Q => \E p \in Actions!PromptGaps(runs, c) : d \in Actions!PromptGap(runs, c, p)
    OBVIOUS
  <2> HIDE DEF P, Q, x
  <2> QED
    BY <2>1, <2>2, <2>3
<1> QED
  BY <1>1, <1>2, <1>3, <1>4, <1>5

(* Grounded answers are the same ones with and without the filter of a     *)
(* citation gap.                                                           *)
LEMMA SameCitations ==
    ASSUME NEW o, o.type = "OWNED_CITATION_GAP", NEW runs, NEW e
    PROVE  CitedRate(runs, Actions!Filter(o), e) = CitedRate(runs, Actions!AnyFilter, e)
<1>1. Actions!Eligible(runs, Actions!Filter(o)) = Actions!Eligible(runs, Actions!AnyFilter)
  BY DEF Actions!Eligible, Actions!Succeeded, Actions!Planned, Actions!Passes,
         Actions!Filter, Actions!AnyFilter
<1> QED
  BY <1>1 DEF CitedRate, Actions!Cited

(* The other filters are those of the rules. *)
LEMMA SameFilter ==
    ASSUME NEW o
    PROVE  /\ o.type = "DISCOVERY_VISIBILITY_GAP" => Actions!Filter(o) = Actions!AnyFilter
           /\ o.type = "PROVIDER_VISIBILITY_GAP" => Actions!Filter(o) = Actions!OfProvider(o.provider)
BY DEF Actions!Filter, Actions!AnyFilter, Actions!OfProvider

(* A prompt with a gap has an answer under its filter that says so. *)
LEMMA PromptGapSeen ==
    ASSUME Actions!ActionAssumption, NEW o, o.type = "PROMPT_COMPETITOR_GAP",
           NEW runs, RunsOf(runs), NEW c, o.prompt \in Actions!GapPrompts(runs, c)
    PROVE  Actions!Explanation(runs, Actions!Filter(o), c).onlyRate \in Nat \ {0}
<1>1. PICK cell \in Actions!CompetitorOnly(runs, Actions!AnyFilter, c) : cell.prompt = o.prompt
  BY DEF Actions!GapPrompts
<1>2. cell \in Actions!CompetitorOnly(runs, Actions!Filter(o), c)
  BY <1>1 DEF Actions!CompetitorOnly, Actions!Mentioned, Actions!Succeeded, Actions!Planned,
     Actions!Passes, Actions!Filter, Actions!AnyFilter
<1>3. cell \in Actions!Succeeded(runs, Actions!Filter(o))
  BY <1>2 DEF Actions!CompetitorOnly, Actions!Mentioned
<1> DEFINE n == Cardinality(Actions!CompetitorOnly(runs, Actions!Filter(o), c))
           d == Cardinality(Actions!Succeeded(runs, Actions!Filter(o)))
<1>4. n \in Nat /\ n >= 1 /\ d \in Nat /\ d >= 1 /\ d <= 2000000
  BY <1>2, <1>3, Parts, Counted
<1>5. Actions!Explanation(runs, Actions!Filter(o), c).onlyRate = Actions!Pct(n, d)
  BY Explained
<1> HIDE DEF n, d
<1>6. Actions!Pct(n, d) \in Nat /\ Actions!Pct(n, d) >= 1
  BY <1>4, PctTells
<1> QED
  BY <1>5, <1>6

(* What the detection finds, the evaluation finds not below its threshold. *)
LEMMA DetectedIsNotBelow ==
    ASSUME Actions!ActionAssumption, NEW runs, RunsOf(runs), NEW c,
           NEW d \in Actions!DetectedFor(runs, c)
    PROVE  LET o == d.fingerprint
               value == Actions!Explanation(runs, Actions!Filter(o), c)[Actions!Metric(o).name]
           IN /\ value \in Int /\ value # None
              /\ ~Actions!BelowThreshold(o, value)
<1> DEFINE o == d.fingerprint
           y == Actions!Explanation(runs, Actions!Filter(o), c)
           value == y[Actions!Metric(o).name]
<1>1. None \notin Int /\ None \notin Nat
  BY DEF Actions!ActionAssumption
<1>2. o.type \in OppType
  BY Detects
<1>3. \A f, e : /\ Seen(runs, f, e) \in Nat \cup {None}
                /\ CitedRate(runs, f, e) \in Nat \cup {None}
  BY RatesOfScan
<1>4. \A f : /\ Actions!Explanation(runs, f, c).gap \in Int \cup {None}
             /\ Actions!Explanation(runs, f, c).citationGap \in Int \cup {None}
  BY <1>3, Explained DEF Actions!Difference
<1>5. CASE o.type = "DISCOVERY_VISIBILITY_GAP"
  <2>1. Actions!AtLeast(y.gap, Threshold.minDiscoveryGap)
    BY <1>5, Detects, SameFilter
  <2>2. Actions!Metric(o).name = "gap" /\ Actions!Metric(o).resolved = Threshold.minDiscoveryGap
    BY <1>5 DEF Actions!Metric
  <2> HIDE DEF y
  <2> QED
    BY <1>1, <1>4, <2>1, <2>2 DEF Actions!AtLeast, Actions!BelowThreshold,
       Actions!ActionAssumption, y
<1>6. CASE o.type = "PROVIDER_VISIBILITY_GAP"
  <2>1. Actions!AtLeast(y.gap, Threshold.minProviderGap)
    BY <1>6, Detects, SameFilter
  <2>2. Actions!Metric(o).name = "gap" /\ Actions!Metric(o).resolved = Threshold.minProviderGap
    BY <1>6 DEF Actions!Metric
  <2> HIDE DEF y
  <2> QED
    BY <1>1, <1>4, <2>1, <2>2 DEF Actions!AtLeast, Actions!BelowThreshold,
       Actions!ActionAssumption, y
<1>7. CASE o.type = "OWNED_CITATION_GAP"
  <2>1. Actions!AtLeast(y.citationGap, Threshold.minCitationGap)
    BY <1>7, Detects, SameCitations, Explained
  <2>2. /\ Actions!Metric(o).name = "citationGap"
        /\ Actions!Metric(o).resolved = Threshold.minCitationGap
    BY <1>7 DEF Actions!Metric
  <2> HIDE DEF y
  <2> QED
    BY <1>1, <1>4, <2>1, <2>2 DEF Actions!AtLeast, Actions!BelowThreshold,
       Actions!ActionAssumption, y
<1>8. CASE o.type = "PROMPT_COMPETITOR_GAP"
  <2>1. y.onlyRate \in Nat \ {0}
    BY <1>8, Detects, PromptGapSeen
  <2>2. Actions!Metric(o).name = "onlyRate"
    BY <1>8 DEF Actions!Metric
  <2> HIDE DEF y
  <2> QED
    BY <1>1, <2>1, <2>2 DEF Actions!BelowThreshold, y
<1> QED
  BY <1>2, <1>5, <1>6, <1>7, <1>8 DEF OppType

(* Resolved is gone: the rule does not find it, the brand is there, and is *)
(* seen or cited no less than before.                                      *)
LEMMA ResolvedGone ==
    ASSUME Actions!ActionAssumption, NEW o, o.type \in OppType, NEW base, RunsOf(base),
           NEW runs, RunsOf(runs),
           Actions!Evaluation(o, base, runs).outcome = "RESOLVED"
    PROVE  /\ \A d \in Actions!DetectedFor(runs, o.competitor) : d.fingerprint # o
           /\ \E cell \in DOMAIN runs :
                 "brand" \in runs[cell].mentions \cup runs[cell].cited
           /\ o.type \in {"DISCOVERY_VISIBILITY_GAP", "PROVIDER_VISIBILITY_GAP"} =>
                 Actions!Explanation(runs, Actions!Filter(o), o.competitor).brand
                    >= Actions!Explanation(base, Actions!Filter(o), o.competitor).brand
           /\ (/\ o.type = "OWNED_CITATION_GAP"
               /\ Actions!Explanation(base, Actions!Filter(o), o.competitor).eligible # 0) =>
                 Actions!Explanation(runs, Actions!Filter(o), o.competitor).brandCited
                    >= Actions!Explanation(base, Actions!Filter(o), o.competitor).brandCited
<1> DEFINE f == Actions!Filter(o)
           c == o.competitor
           x == Actions!Explanation(base, f, c)
           y == Actions!Explanation(runs, f, c)
           value == y[Actions!Metric(o).name]
<1>1. /\ x.successful # 0 /\ y.successful # 0
      /\ value # None /\ Actions!BelowThreshold(o, value)
      /\ Actions!BrandSafeguard(o, x, y)
  BY ResolvedMeans
<1>2. ASSUME NEW d \in Actions!DetectedFor(runs, c), d.fingerprint = o PROVE FALSE
  BY <1>1, <1>2, DetectedIsNotBelow
<1>3. x.brand \in Nat /\ x.brand # None
  <2>1. x.brand = Seen(base, f, "brand") /\ x.successful = Cardinality(Actions!Succeeded(base, f))
    BY Explained
  <2>2. Actions!Succeeded(base, f) # {}
    BY <1>1, <2>1, FS_EmptySet
  <2> QED
    BY <2>1, <2>2, RatesOfScan
<1>4. /\ y.brand = Seen(runs, f, "brand")
      /\ y.brandCited = CitedRate(runs, f, "brand")
  BY Explained
<1>5. \/ y.brand # None /\ y.brand >= 1
      \/ y.brandCited # None /\ y.brandCited >= 1
  <2> HIDE DEF x, y
  <2> QED
    BY <1>1 DEF OppType, Actions!BrandSafeguard, Actions!AtLeast
<1>6. \E cell \in DOMAIN runs : "brand" \in runs[cell].mentions \cup runs[cell].cited
  <2>1. Actions!Mentioned(runs, f, "brand") # {} \/ Actions!Cited(runs, f, "brand") # {}
    BY <1>4, <1>5, RatesOfScan
  <2> QED
    BY <2>1 DEF Actions!Mentioned, Actions!Cited, Actions!Eligible, Actions!Succeeded,
       Actions!Planned
<1>7. o.type \in {"DISCOVERY_VISIBILITY_GAP", "PROVIDER_VISIBILITY_GAP"} => y.brand >= x.brand
  <2> HIDE DEF x, y
  <2> QED
    BY <1>1, <1>3 DEF Actions!BrandSafeguard
<1>8. ASSUME o.type = "OWNED_CITATION_GAP", x.eligible # 0 PROVE y.brandCited >= x.brandCited
  <2>1. /\ x.brandCited = CitedRate(base, f, "brand")
        /\ x.eligible = Cardinality(Actions!Eligible(base, f))
    BY Explained
  <2>2. Actions!Eligible(base, f) # {}
    BY <1>8, <2>1, FS_EmptySet
  <2>3. x.brandCited # None
    BY <2>1, <2>2, RatesOfScan
  <2> HIDE DEF x, y
  <2> QED
    BY <1>1, <1>8, <2>3 DEF Actions!BrandSafeguard
<1> QED
  BY <1>2, <1>6, <1>7, <1>8

(* Measuring the same again: the cells of the scope are those the filter   *)
(* lets through, and the gap that was detected is there, unmoved.          *)
LEMMA SameGap ==
    ASSUME Actions!ActionAssumption, NEW base, RunsOf(base), NEW c,
           NEW d \in Actions!DetectedFor(base, c),
           NEW runs, DOMAIN runs = Actions!Scope(d.fingerprint, base),
           \A cell \in DOMAIN runs : runs[cell] = base[cell]
    PROVE  Actions!Evaluation(d.fingerprint, base, runs).outcome \in {"NOT_IMPROVED", "INCONCLUSIVE"}
<1> DEFINE o == d.fingerprint
           f == Actions!Filter(o)
           x == Actions!Explanation(base, f, c)
           y == Actions!Explanation(runs, f, c)
           value == x[Actions!Metric(o).name]
<1>1. o.competitor = c /\ o.type \in OppType
  BY Detects
<1>2. /\ \A cell \in DOMAIN base : None \notin {cell.provider, cell.prompt}
      /\ None # "WEB_GROUNDED" /\ None \notin Int
  BY DEF Actions!ActionAssumption, RunsOf
<1>3. o.type = "PROVIDER_VISIBILITY_GAP" => o.provider # None
  BY <1>2, Detects DEF Actions!Providers
<1>4. o.type = "PROMPT_COMPETITOR_GAP" => o.prompt # None
  <2>1. o.type = "PROMPT_COMPETITOR_GAP" => o.prompt \in Actions!GapPrompts(base, c)
    BY Detects
  <2> QED
    BY <1>2, <2>1, Parts DEF Actions!GapPrompts
<1>5. ASSUME NEW cell \in DOMAIN base, Actions!Passes(cell, f)
      PROVE  Actions!CellInScope(o, cell)
  <2> USE <1>5 DEF Actions!Passes, Actions!CellInScope, Actions!Filter
  <2>1. CASE o.type = "PROMPT_COMPETITOR_GAP"
    BY <1>4, <2>1
  <2>2. CASE o.type = "PROVIDER_VISIBILITY_GAP"
    BY <1>3, <2>2
  <2>3. CASE o.type = "OWNED_CITATION_GAP"
    BY <1>2, <2>3
  <2>4. CASE o.type = "DISCOVERY_VISIBILITY_GAP"
    BY <2>4
  <2> QED
    BY <1>1, <2>1, <2>2, <2>3, <2>4 DEF OppType
<1>6. Actions!Planned(runs, f) = Actions!Planned(base, f)
  BY <1>5 DEF Actions!Planned, Actions!Scope
<1>7. /\ Actions!Succeeded(runs, f) = Actions!Succeeded(base, f)
      /\ \A cell \in Actions!Succeeded(base, f) : runs[cell] = base[cell]
  <2>1. \A cell \in Actions!Planned(base, f) : runs[cell] = base[cell]
    BY <1>6 DEF Actions!Planned
  <2> QED
    BY <1>6, <2>1 DEF Actions!Succeeded
<1>8. /\ Actions!Eligible(runs, f) = Actions!Eligible(base, f)
      /\ Actions!Eligible(base, f) \subseteq Actions!Succeeded(base, f)
  BY <1>7 DEF Actions!Eligible
<1>9. \A e : /\ Actions!Mentioned(runs, f, e) = Actions!Mentioned(base, f, e)
             /\ Actions!Cited(runs, f, e) = Actions!Cited(base, f, e)
  BY <1>7, <1>8 DEF Actions!Mentioned, Actions!Cited
<1>10. Actions!CompetitorOnly(runs, f, c) = Actions!CompetitorOnly(base, f, c)
  BY <1>9 DEF Actions!CompetitorOnly
<1>11. x = y
  BY <1>6, <1>7, <1>8, <1>9, <1>10 DEF Actions!Explanation
<1>12. value \in Int /\ value # None /\ ~Actions!BelowThreshold(o, value)
  BY DetectedIsNotBelow
<1>13. Actions!Metric(o).moved \in Nat \ {0}
  BY <1>1 DEF Actions!Metric, Actions!ActionAssumption, OppType
<1> HIDE DEF x, y
<1>14. Actions!Decide(o, x, x) = "NOT_IMPROVED"
  <2>1. ~(value - value >= Actions!Metric(o).moved)
    BY <1>12, <1>13
  <2> QED
    BY <1>12, <2>1 DEF Actions!Decide
<1> QED
  BY <1>1, <1>11, <1>14 DEF Actions!Evaluation, x, y

-----------------------------------------------------------------------------
(* An occurrence is a detection in the evidence of its scan. *)
Found(o, s) ==
    \E i \in DOMAIN Competitors :
        \E d \in Actions!DetectedFor(evidence[s], Competitors[i]) : d.fingerprint = o

(* Every occurrence was found by a rule in the evidence of its scan.       *)
OccurrencesFound == \A x \in occ : evidence[x[2]] # None /\ Found(x[1], x[2])

(* A verdict is the evaluation of an occurrence. *)
VerdictIsEvaluation ==
    verdict # None =>
        /\ <<verdict.of, verdict.on>> \in occ
        /\ measured \in [Actions!Scope(verdict.of, evidence[verdict.on]) -> Answers]
        /\ verdict.outcome = Actions!Evaluation(verdict.of, evidence[verdict.on], measured).outcome

(* The inductive invariant of ActionCenter.                                *)
ActionsIInv == Actions!TypeOK /\ OccurrencesFound /\ VerdictIsEvaluation

(* The refresh keeps what the rules found. *)
LEMMA DetectionFound ==
    ASSUME NEW s, NEW d \in Actions!Detection(evidence[s])
    PROVE  Found(d.fingerprint, s) /\ d.priority \in {"HIGH", "MEDIUM", "LOW"}
<1> DEFINE all == UNION {Actions!DetectedFor(evidence[s], Competitors[i]) : i \in DOMAIN Competitors}
           keyed == {<<Actions!Rank(evidence[s], e.fingerprint), e>> : e \in all}
<1>1. PICK k \in keyed : d = k[2]
  BY FirstIsPart DEF Actions!Detection
<1>2. d \in all
  BY <1>1
<1>3. PICK i \in DOMAIN Competitors : d \in Actions!DetectedFor(evidence[s], Competitors[i])
  BY <1>2
<1> QED
  BY <1>3, Detects DEF Found

(* The parts of ActionsIInv hold initially: there is no occurrence and no  *)
(* verdict.                                                                *)
LEMMA ActionsInit == ASSUME Actions!ActionAssumption PROVE Actions!Init => ActionsIInv
BY DEF Actions!Init, ActionsIInv, Actions!TypeOK, OccurrencesFound, VerdictIsEvaluation

(* Every step keeps ActionsIInv: evidence, once collected, stays, and so   *)
(* does what was found in it.                                              *)
LEMMA ActionsStep ==
    ASSUME Actions!ActionAssumption
    PROVE  ActionsIInv /\ [Actions!Next]_(Actions!vars) => ActionsIInv'
<1> SUFFICES ASSUME ActionsIInv, [Actions!Next]_(Actions!vars) PROVE ActionsIInv'
  OBVIOUS
<1>1. Actions!TypeOK /\ OccurrencesFound /\ VerdictIsEvaluation
  BY DEF ActionsIInv
<1>2. ASSUME NEW s \in Standard, Actions!Collect(s) PROVE ActionsIInv'
  <2>1. /\ evidence[s] = None /\ UNCHANGED <<opps, occ, measured, verdict>>
        /\ \E runs \in [Asked -> Answers] : evidence' = [evidence EXCEPT ![s] = runs]
    BY <1>2 DEF Actions!Collect
  <2>2. \A t \in Standard : evidence[t] # None => evidence'[t] = evidence[t]
    BY <1>1, <2>1 DEF Actions!TypeOK
  <2>3. Actions!TypeOK'
    BY <1>1, <2>1 DEF Actions!TypeOK
  <2>4. \A x \in occ : x[2] \in Standard /\ evidence[x[2]] # None /\ evidence'[x[2]] = evidence[x[2]]
    BY <1>1, <2>2 DEF Actions!TypeOK, OccurrencesFound
  <2>5. OccurrencesFound'
    BY <1>1, <2>1, <2>4 DEF OccurrencesFound, Found
  <2>6. VerdictIsEvaluation'
    <3> SUFFICES ASSUME verdict # None
                 PROVE  evidence'[verdict.on] = evidence[verdict.on]
      BY <1>1, <2>1 DEF VerdictIsEvaluation
    <3> QED
      BY <1>1, <2>4 DEF VerdictIsEvaluation
  <2> QED
    BY <2>3, <2>5, <2>6 DEF ActionsIInv
<1>3. ASSUME NEW s \in Standard, Actions!Refresh(s) PROVE ActionsIInv'
  <2> DEFINE found == Actions!Detection(evidence[s])
             these == {d.fingerprint : d \in found}
             Of(o) == CHOOSE d \in found : d.fingerprint = o
  <2>1. /\ evidence[s] # None
        /\ opps' = [o \in these \cup DOMAIN opps |->
                       IF o \in these THEN Actions!Upsert(s, Of(o)) ELSE opps[o]]
        /\ occ' = occ \cup (these \X {s})
        /\ UNCHANGED <<evidence, measured, verdict>>
    BY <1>3 DEF Actions!Refresh
  <2>2. \A o \in these : Of(o) \in found /\ Of(o).fingerprint = o
    OBVIOUS
  <2>3. \A d \in found : Found(d.fingerprint, s) /\ d.priority \in {"HIGH", "MEDIUM", "LOW"}
    BY DetectionFound
  <2> HIDE DEF found, Of
  <2>4. ASSUME NEW o \in DOMAIN opps'
        PROVE  /\ opps'[o].status = "OPEN"
               /\ opps'[o].priority \in {"HIGH", "MEDIUM", "LOW"}
               /\ {opps'[o].first, opps'[o].latest} \subseteq Standard
    <3>1. CASE o \in these
      <4>1. opps'[o] = Actions!Upsert(s, Of(o)) /\ Of(o).priority \in {"HIGH", "MEDIUM", "LOW"}
            /\ Of(o).fingerprint = o
        BY <2>1, <2>2, <2>3, <3>1
      <4>2. CASE o \in DOMAIN opps
        <5>1. opps'[o] = [opps[o] EXCEPT !.priority = Of(o).priority, !.latest = s]
          BY <4>1, <4>2 DEF Actions!Upsert
        <5>2. opps[o].status = "OPEN" /\ opps[o].first \in Standard /\ opps[o].latest \in Standard
              /\ opps[o].priority \in {"HIGH", "MEDIUM", "LOW"}
          BY <1>1, <4>2 DEF Actions!TypeOK
        <5> QED
          BY <4>1, <5>1, <5>2
      <4>3. CASE o \notin DOMAIN opps
        BY <4>1, <4>3 DEF Actions!Upsert
      <4> QED
        BY <4>2, <4>3
    <3>2. CASE o \notin these
      BY <1>1, <2>1, <2>4, <3>2 DEF Actions!TypeOK
    <3> QED
      BY <3>1, <3>2
  <2>5. Actions!TypeOK'
    BY <1>1, <2>1, <2>4 DEF Actions!TypeOK
  <2>6. OccurrencesFound'
    BY <1>1, <2>1, <2>3 DEF OccurrencesFound, Found
  <2>7. VerdictIsEvaluation'
    BY <1>1, <2>1 DEF VerdictIsEvaluation
  <2> QED
    BY <2>5, <2>6, <2>7 DEF ActionsIInv
<1>4. ASSUME NEW x \in occ, Actions!Measure(x[1], x[2]) PROVE ActionsIInv'
  <2>1. PICK runs \in [Actions!Scope(x[1], evidence[x[2]]) -> Answers] :
           /\ measured' = runs
           /\ LET e == Actions!Evaluation(x[1], evidence[x[2]], runs) IN
              verdict' = [of |-> x[1], on |-> x[2], outcome |-> e.outcome, reason |-> e.reason]
    BY <1>4 DEF Actions!Measure
  <2>2. UNCHANGED <<evidence, opps, occ>> /\ <<x[1], x[2]>> \in occ
    BY <1>4 DEF Actions!Measure
  <2>3. /\ verdict'.of = x[1] /\ verdict'.on = x[2]
        /\ verdict'.outcome = Actions!Evaluation(x[1], evidence[x[2]], runs).outcome
    BY <2>1
  <2>4. Actions!Evaluation(x[1], evidence[x[2]], runs).outcome \in Actions!Outcome
    <3>1. \A o, a, b : Actions!Decide(o, a, b) \in Actions!Outcome
      BY DEF Actions!Decide, Actions!Outcome
    <3> QED
      BY <3>1 DEF Actions!Evaluation, Actions!Outcome
  <2>5. Actions!TypeOK'
    BY <1>1, <2>2, <2>3, <2>4 DEF Actions!TypeOK
  <2> QED
    BY <1>1, <2>1, <2>2, <2>3, <2>5 DEF ActionsIInv, OccurrencesFound, Found,
       VerdictIsEvaluation
<1>5. CASE UNCHANGED Actions!vars
  BY <1>1, <1>5 DEF Actions!vars, ActionsIInv, Actions!TypeOK, OccurrencesFound, Found,
     VerdictIsEvaluation
<1> QED
  BY <1>2, <1>3, <1>4, <1>5 DEF Actions!Next

(* What a verdict rests on. *)
LEMMA VerdictRests ==
    ASSUME Actions!ActionAssumption, ActionsIInv, verdict # None
    PROVE  /\ RunsOf(evidence[verdict.on]) /\ RunsOf(measured)
           /\ DOMAIN measured = Actions!Scope(verdict.of, evidence[verdict.on])
           /\ \E d \in Actions!DetectedFor(evidence[verdict.on], verdict.of.competitor) :
                 d.fingerprint = verdict.of
           /\ verdict.outcome = Actions!Evaluation(verdict.of, evidence[verdict.on], measured).outcome
<1>1. /\ <<verdict.of, verdict.on>> \in occ
      /\ measured \in [Actions!Scope(verdict.of, evidence[verdict.on]) -> Answers]
      /\ verdict.outcome = Actions!Evaluation(verdict.of, evidence[verdict.on], measured).outcome
  BY DEF ActionsIInv, VerdictIsEvaluation
<1>2. evidence[verdict.on] # None /\ Found(verdict.of, verdict.on) /\ verdict.on \in Standard
  BY <1>1 DEF ActionsIInv, OccurrencesFound, Actions!TypeOK
<1>3. evidence[verdict.on] \in [Asked -> Answers]
  BY <1>2 DEF ActionsIInv, Actions!TypeOK
<1>4. \E d \in Actions!DetectedFor(evidence[verdict.on], verdict.of.competitor) :
         d.fingerprint = verdict.of
  BY <1>2, Detects DEF Found
<1> QED
  BY <1>1, <1>3, <1>4 DEF RunsOf, Actions!Scope

(* The inductive invariant implies that what is RESOLVED is gone.          *)
LEMMA ResolvedRight ==
    ASSUME Actions!ActionAssumption PROVE ActionsIInv => Actions!ResolvedIsGone
<1> SUFFICES ASSUME ActionsIInv, verdict # None, verdict.outcome = "RESOLVED"
             PROVE  Actions!ResolvedIsGone
  BY DEF Actions!ResolvedIsGone
<1>1. verdict.of.type \in OppType
  BY VerdictRests, Detects
<1> QED
  BY <1>1, VerdictRests, ResolvedGone DEF Actions!ResolvedIsGone

(* The inductive invariant implies that the same evidence has the same     *)
(* gap.                                                                    *)
LEMMA SameEvidenceRight ==
    ASSUME Actions!ActionAssumption PROVE ActionsIInv => Actions!SameEvidenceSameGap
<1> SUFFICES ASSUME ActionsIInv, verdict # None,
                    \A cell \in DOMAIN measured : measured[cell] = evidence[verdict.on][cell]
             PROVE  verdict.outcome \in {"NOT_IMPROVED", "INCONCLUSIVE"}
  BY DEF Actions!SameEvidenceSameGap
<1> QED
  BY VerdictRests, SameGap

-----------------------------------------------------------------------------
(* ProjectSetup *)

(* The instance's counts are the library's.                                *)
LEMMA SetupCounts ==
    \A S : /\ Setup!Cardinality(S) = Cardinality(S)
           /\ Setup!IsFiniteSet(S) <=> IsFiniteSet(S)
BY DEF Setup!Cardinality, Cardinality, Setup!IsFiniteSet, IsFiniteSet

(* A plan has one cell per prompt, provider and repeat. *)
LEMMA CellsCounted ==
    ASSUME NEW P, IsFiniteSet(P), NEW V, IsFiniteSet(V), NEW n \in Nat
    PROVE  /\ IsFiniteSet(Setup!Cells(P, V, n))
           /\ Cardinality(Setup!Cells(P, V, n)) = Cardinality(P) * Cardinality(V) * n
<1> DEFINE C == Setup!Cells(P, V, n)
           I == 1 .. n
           D == (P \X V) \X I
           f == [x \in D |-> [prompt |-> x[1][1], provider |-> x[1][2], observation |-> x[2]]]
<1>1. C = {[prompt |-> p, provider |-> v, observation |-> i] : p \in P, v \in V, i \in I}
  BY DEF Setup!Cells
<1> HIDE DEF C, I
<1>2. IsFiniteSet(I) /\ Cardinality(I) = n
  BY FS_Interval DEF I
<1>3. IsFiniteSet(P \X V) /\ Cardinality(P \X V) = Cardinality(P) * Cardinality(V)
  BY FS_Product
<1>4. IsFiniteSet(D) /\ Cardinality(D) = Cardinality(P \X V) * Cardinality(I)
  BY <1>2, <1>3, FS_Product
<1>5. ASSUME NEW x \in D
      PROVE  f[x] \in C
  BY <1>1
<1>6. f \in [D -> C]
  BY <1>5
<1>7. ASSUME NEW x \in D, NEW y \in D, f[x] = f[y] PROVE x = y
  <2>1. /\ f[x].prompt = x[1][1] /\ f[x].provider = x[1][2] /\ f[x].observation = x[2]
        /\ f[y].prompt = y[1][1] /\ f[y].provider = y[1][2] /\ f[y].observation = y[2]
    OBVIOUS
  <2>2. x[1][1] = y[1][1] /\ x[1][2] = y[1][2] /\ x[2] = y[2]
    BY <1>7, <2>1
  <2>3. x = <<x[1], x[2]>> /\ y = <<y[1], y[2]>> /\ x[1] \in P \X V /\ y[1] \in P \X V
    OBVIOUS
  <2>4. x[1] = <<x[1][1], x[1][2]>> /\ y[1] = <<y[1][1], y[1][2]>>
    BY <2>3
  <2> QED
    BY <2>2, <2>3, <2>4
<1>8. ASSUME NEW c \in C PROVE \E x \in D : f[x] = c
  <2>1. PICK p \in P, v \in V, i \in I : c = [prompt |-> p, provider |-> v, observation |-> i]
    BY <1>1
  <2>2. <<<<p, v>>, i>> \in D
    OBVIOUS
  <2>3. f[<<<<p, v>>, i>>] = c
    BY <2>1, <2>2
  <2> QED
    BY <2>2, <2>3
<1> HIDE DEF f, D
<1>9. f \in Bijection(D, C)
  BY <1>6, <1>7, <1>8 DEF Bijection, Injection, Surjection, IsInjective
<1>10. IsFiniteSet(C) /\ Cardinality(C) = Cardinality(D)
  BY <1>4, <1>9, FS_Bijection DEF ExistsBijection
<1> QED
  BY <1>2, <1>3, <1>4, <1>10 DEF C

(* The prompts of a set are five per keyword. *)
LEMMA PromptsFinite ==
    ASSUME NEW set, IsFiniteSet(set.made.keywords) PROVE IsFiniteSet(Setup!Prompts(set))
<1> DEFINE D == set.made.keywords \X (1 .. 5)
           Q == Setup!Prompts(set)
           f == [x \in D |-> [version |-> set.version, keyword |-> x[1], variant |-> x[2],
                              type |-> Setup!PromptType(x[2], set.made)]]
<1>1. IsFiniteSet(1 .. 5)
  <2>1. \A n \in Nat : IsFiniteSet(1 .. n)
    BY FS_Interval
  <2> QED
    BY <2>1
<1>2. IsFiniteSet(D)
  BY <1>1, FS_Product
<1>3. Q = {[version |-> set.version, keyword |-> k, variant |-> v,
            type |-> Setup!PromptType(v, set.made)] : k \in set.made.keywords, v \in 1 .. 5}
  BY DEF Setup!Prompts
<1> HIDE DEF Q
<1>4. f \in [D -> Q]
  BY <1>3
<1>5. ASSUME NEW q \in Q PROVE \E x \in D : f[x] = q
  <2>1. PICK k \in set.made.keywords, v \in 1 .. 5 :
           q = [version |-> set.version, keyword |-> k, variant |-> v,
                type |-> Setup!PromptType(v, set.made)]
    BY <1>3
  <2>2. <<k, v>> \in D
    OBVIOUS
  <2>3. f[<<k, v>>] = q
    BY <2>1, <2>2
  <2> QED
    BY <2>2, <2>3
<1> HIDE DEF f, D
<1>6. f \in Surjection(D, Q)
  BY <1>4, <1>5 DEF Surjection
<1> QED
  BY <1>2, <1>6, FS_Surjection DEF Q

(* The cells of a STANDARD scan: every prompt at every provider, once.     *)
Product(C) == C = Setup!Cells(Setup!PromptsOf(C), Setup!ProvidersOf(C), 1)

(* The cells of a plan with one observation are a product, and a plan with *)
(* more has the same cells if their observations are set to the first.     *)
LEMMA CellsAreProduct ==
    ASSUME NEW P, NEW V, NEW n \in Nat \ {0}
    PROVE  /\ Product(Setup!Cells(P, V, 1))
           /\ {[cell EXCEPT !.observation = 1] : cell \in Setup!Cells(P, V, n)}
                 = Setup!Cells(P, V, 1)
           /\ \A cell \in Setup!Cells(P, V, 1) : [cell EXCEPT !.observation = 1] = cell
<1> DEFINE C == Setup!Cells(P, V, 1)
<1>1. /\ \A c \in C : \E p \in P, v \in V : c = [prompt |-> p, provider |-> v, observation |-> 1]
      /\ \A p \in P, v \in V : [prompt |-> p, provider |-> v, observation |-> 1] \in C
  BY DEF Setup!Cells
<1>2. Product(C)
  <2> DEFINE PC == Setup!PromptsOf(C)
             VC == Setup!ProvidersOf(C)
  <2>1. PC \subseteq P /\ VC \subseteq V
    BY <1>1 DEF Setup!PromptsOf, Setup!ProvidersOf
  <2>2. \A c \in C : c.prompt \in PC /\ c.provider \in VC
    BY DEF Setup!PromptsOf, Setup!ProvidersOf
  <2> HIDE DEF PC, VC, C
  <2>3. ASSUME NEW c \in C PROVE c \in Setup!Cells(PC, VC, 1)
    <3>1. c = [prompt |-> c.prompt, provider |-> c.provider, observation |-> 1]
      BY <1>1
    <3> QED
      BY <2>2, <3>1 DEF Setup!Cells
  <2>4. ASSUME NEW c \in Setup!Cells(PC, VC, 1) PROVE c \in C
    <3>1. PICK p \in PC, v \in VC : c = [prompt |-> p, provider |-> v, observation |-> 1]
      BY DEF Setup!Cells
    <3> QED
      BY <1>1, <2>1, <3>1
  <2> QED
    BY <2>3, <2>4 DEF Product, PC, VC
<1>3. \A cell \in C : [cell EXCEPT !.observation = 1] = cell
  BY <1>1
<1>4. {[cell EXCEPT !.observation = 1] : cell \in Setup!Cells(P, V, n)} = C
  <2> DEFINE N == Setup!Cells(P, V, n)
             once(cell) == [cell EXCEPT !.observation = 1]
  <2>1. ASSUME NEW cell \in N PROVE once(cell) \in C
    <3>1. PICK p \in P, v \in V, i \in 1 .. n :
             cell = [prompt |-> p, provider |-> v, observation |-> i]
      BY <2>1 DEF Setup!Cells
    <3>2. once(cell) = [prompt |-> p, provider |-> v, observation |-> 1]
      BY <3>1
    <3> QED
      BY <1>1, <3>2
  <2>2. ASSUME NEW c \in C PROVE \E cell \in N : c = once(cell)
    <3>1. c \in N
      <4>1. PICK p \in P, v \in V : c = [prompt |-> p, provider |-> v, observation |-> 1]
        BY <1>1
      <4>2. 1 \in 1 .. n
        OBVIOUS
      <4> QED
        BY <4>1, <4>2 DEF Setup!Cells
    <3> QED
      BY <1>3, <3>1
  <2> HIDE DEF N, C, once
  <2>3. {once(cell) : cell \in N} = C
    BY <2>1, <2>2
  <2> QED
    BY <2>3 DEF N, once
<1> QED
  BY <1>2, <1>3, <1>4

(* A sequence that grows is a sequence, of its old items and the new one.  *)
LEMMA Appended ==
    ASSUME NEW S, NEW s \in Seq(S), NEW x
    PROVE  LET t == Append(s, x) IN
           /\ t \in Seq({t[i] : i \in DOMAIN t})
           /\ DOMAIN t = DOMAIN s \cup {Len(s) + 1}
           /\ t[Len(s) + 1] = x
           /\ \A i \in DOMAIN s : t[i] = s[i]
<1> DEFINE t == Append(s, x)
           n == Len(s)
<1>1. s \in Seq(S \cup {x}) /\ x \in S \cup {x}
  OBVIOUS
<1>2. /\ t \in Seq(S \cup {x}) /\ n \in Nat /\ Len(t) = n + 1 /\ DOMAIN s = 1 .. n
      /\ DOMAIN t = 1 .. (n + 1)
      /\ t[n + 1] = x /\ \A i \in 1 .. n : t[i] = s[i]
  BY <1>1
<1> HIDE DEF t
<1>3. t = [i \in 1 .. (n + 1) |-> t[i]]
  BY <1>2
<1>4. t \in [1 .. (n + 1) -> {t[i] : i \in DOMAIN t}]
  BY <1>2, <1>3
<1>5. t \in Seq({t[i] : i \in DOMAIN t})
  BY <1>2, <1>4
<1> QED
  BY <1>2, <1>5 DEF t

(* A function on 1 .. n is a sequence of its items.                        *)
LEMMA TupleOfItems ==
    ASSUME NEW n \in Nat, NEW t, t = [i \in 1 .. n |-> t[i]]
    PROVE  t \in Seq({t[i] : i \in DOMAIN t})
<1> DEFINE T == {t[i] : i \in DOMAIN t}
<1>1. \A i \in 1 .. n : t[i] \in T
  OBVIOUS
<1> HIDE DEF T
<1>2. t \in [1 .. n -> T]
  BY <1>1
<1>3. t \in Seq(T)
  BY <1>2
<1> QED
  BY <1>3 DEF T

-----------------------------------------------------------------------------
(* Prompts made from made ask about inputs. *)
Asks(made, inputs) ==
    /\ made.identity = inputs.identity
    /\ made.keywords = inputs.keywords
    /\ DOMAIN made.competitors = DOMAIN inputs.competitors

(* A set of the project's revision asks about what is tracked. *)
FreshIsNow ==
    (project # None /\ ~torn) =>
        /\ promptSet.revision <= project.revision
        /\ promptSet.revision = project.revision => Asks(promptSet.made, Setup!Now)

(* A plan counts its cells; a STANDARD one has a product of them, and asks *)
(* about what it looks for.                                                *)
PlanOK(s) ==
    /\ s = [type |-> s.type, stage |-> s.stage, cells |-> s.cells, checks |-> s.checks,
            entities |-> s.entities, baseline |-> s.baseline, made |-> s.made,
            inputs |-> s.inputs, torn |-> s.torn]
    /\ IsFiniteSet(s.cells) /\ s.checks = Cardinality(s.cells)
    /\ s.type = "STANDARD" =>
          /\ Product(s.cells)
          /\ IsFiniteSet(Setup!PromptsOf(s.cells)) /\ IsFiniteSet(Setup!ProvidersOf(s.cells))
          /\ ~s.torn => /\ Asks(s.made, s.inputs)
                        /\ DOMAIN s.inputs.competitors = DOMAIN s.entities.competitors

(* A scan with a baseline has the baseline's entities and cells; of a      *)
(* CONFIDENCE scan, it has all of them, a number of times.                 *)
RepeatsOf(s, base) ==
    LET once == {[cell EXCEPT !.observation = 1] : cell \in s.cells} IN
    /\ s.entities = base.entities
    /\ once \subseteq base.cells
    /\ s.type = "CONFIDENCE" =>
          /\ once = base.cells
          /\ \E n \in Repeats : s.checks = n * base.checks

(* Every planned scan asks what its inputs say, or what its baseline       *)
(* asked.                                                                  *)
PlansOK ==
    \A i \in DOMAIN planned :
        /\ PlanOK(planned[i])
        /\ planned[i].type # "STANDARD" =>
              /\ planned[i].baseline \in DOMAIN planned
              /\ planned[planned[i].baseline].type = "STANDARD"
              /\ RepeatsOf(planned[i], planned[planned[i].baseline])

(* The inductive invariant of ProjectSetup, once there is a project.       *)
SetupIInv == Setup!TypeOK /\ FreshIsNow /\ PlansOK

(* A scan that is planned joins those that are there, which stay. *)
LEMMA PlanJoins ==
    ASSUME Setup!TypeOK, PlansOK, NEW x, planned' = Append(planned, x), PlanOK(x),
           x.type # "STANDARD" =>
              /\ x.baseline \in DOMAIN planned
              /\ planned[x.baseline].type = "STANDARD"
              /\ RepeatsOf(x, planned[x.baseline])
    PROVE  PlansOK' /\ planned' \in Seq({planned'[i] : i \in DOMAIN planned'})
<1>1. planned \in Seq({planned[i] : i \in DOMAIN planned})
  BY DEF Setup!TypeOK
<1>2. /\ planned' \in Seq({planned'[i] : i \in DOMAIN planned'})
      /\ DOMAIN planned' = DOMAIN planned \cup {Len(planned) + 1}
      /\ planned'[Len(planned) + 1] = x
      /\ \A i \in DOMAIN planned : planned'[i] = planned[i]
  BY <1>1, Appended
<1>3. ASSUME NEW i \in DOMAIN planned'
      PROVE  /\ PlanOK(planned'[i])
             /\ planned'[i].type # "STANDARD" =>
                   /\ planned'[i].baseline \in DOMAIN planned'
                   /\ planned'[planned'[i].baseline].type = "STANDARD"
                   /\ RepeatsOf(planned'[i], planned'[planned'[i].baseline])
  <2>1. CASE i \in DOMAIN planned
    BY <1>2, <2>1 DEF PlansOK
  <2>2. CASE i = Len(planned) + 1
    BY <1>2, <2>2
  <2> QED
    BY <1>2, <2>1, <2>2
<1> QED
  BY <1>2, <1>3 DEF PlansOK

(* The end of a scan is no change of its plan. *)
LEMMA EndKeepsPlans ==
    ASSUME Setup!TypeOK, PlansOK, NEW b \in DOMAIN planned, Setup!ScanEnds(b)
    PROVE  PlansOK' /\ planned' \in Seq({planned'[i] : i \in DOMAIN planned'})
<1>1. PICK end : planned' = [planned EXCEPT ![b].stage = end]
  BY DEF Setup!ScanEnds
<1> DEFINE y == [planned[b] EXCEPT !.stage = end]
<1>2. planned \in Seq({planned[i] : i \in DOMAIN planned})
  BY DEF Setup!TypeOK
<1>3. planned' = [planned EXCEPT ![b] = y]
  BY <1>1
<1>4. /\ y.type = planned[b].type /\ y.cells = planned[b].cells /\ y.checks = planned[b].checks
      /\ y.entities = planned[b].entities /\ y.baseline = planned[b].baseline
      /\ y.made = planned[b].made /\ y.inputs = planned[b].inputs /\ y.torn = planned[b].torn
      /\ y = [type |-> y.type, stage |-> y.stage, cells |-> y.cells, checks |-> y.checks,
              entities |-> y.entities, baseline |-> y.baseline, made |-> y.made,
              inputs |-> y.inputs, torn |-> y.torn]
  BY DEF PlansOK, PlanOK
<1> HIDE DEF y
<1>5. /\ planned' \in Seq({planned'[i] : i \in DOMAIN planned'})
      /\ DOMAIN planned' = DOMAIN planned /\ planned'[b] = y
      /\ \A i \in DOMAIN planned \ {b} : planned'[i] = planned[i]
  <2> DEFINE n == Len(planned)
  <2>1. n \in Nat /\ DOMAIN planned = 1 .. n /\ planned = [i \in 1 .. n |-> planned[i]]
    BY <1>2
  <2>2. /\ planned' = [i \in 1 .. n |-> planned'[i]] /\ DOMAIN planned' = 1 .. n
        /\ planned'[b] = y /\ \A i \in DOMAIN planned \ {b} : planned'[i] = planned[i]
    BY <1>3, <2>1
  <2> HIDE DEF n
  <2>3. planned' \in Seq({planned'[i] : i \in DOMAIN planned'})
    BY <2>1, <2>2, TupleOfItems
  <2> QED
    BY <2>1, <2>2, <2>3
<1>6. ASSUME NEW i \in DOMAIN planned
      PROVE  /\ PlanOK(planned'[i])
             /\ planned'[i].type = planned[i].type /\ planned'[i].baseline = planned[i].baseline
             /\ planned'[i].cells = planned[i].cells /\ planned'[i].checks = planned[i].checks
             /\ planned'[i].entities = planned[i].entities
  <2>1. CASE i = b
    <3>1. PlanOK(planned[b])
      BY DEF PlansOK
    <3>2. PlanOK(y)
      BY <1>4, <3>1 DEF PlanOK
    <3> QED
      BY <1>4, <1>5, <2>1, <3>2
  <2>2. CASE i # b
    BY <1>5, <2>2 DEF PlansOK
  <2> QED
    BY <2>1, <2>2
<1>7. ASSUME NEW i \in DOMAIN planned, planned'[i].type # "STANDARD"
      PROVE  /\ planned'[i].baseline \in DOMAIN planned
             /\ planned'[planned'[i].baseline].type = "STANDARD"
             /\ RepeatsOf(planned'[i], planned'[planned'[i].baseline])
  <2> DEFINE j == planned[i].baseline
  <2>1. /\ j \in DOMAIN planned /\ planned[j].type = "STANDARD"
        /\ RepeatsOf(planned[i], planned[j])
    BY <1>6, <1>7 DEF PlansOK
  <2>2. planned'[i].baseline = j
    BY <1>6
  <2>3. planned'[j].type = "STANDARD" /\ planned'[j].cells = planned[j].cells
        /\ planned'[j].checks = planned[j].checks /\ planned'[j].entities = planned[j].entities
    BY <1>6, <2>1
  <2> HIDE DEF j
  <2>4. RepeatsOf(planned'[i], planned'[j])
    BY <1>6, <2>1, <2>3 DEF RepeatsOf
  <2> QED
    BY <2>1, <2>2, <2>3, <2>4
<1> QED
  BY <1>5, <1>6, <1>7 DEF PlansOK

-----------------------------------------------------------------------------
(* What prompts are made of is typed. *)
LEMMA InputTyped ==
    ASSUME NEW p \in Setup!Project, NEW ks,
           NEW cs \in [Competitor -> Setup!Tracking \cup {None}]
    PROVE  Setup!Inputs(p, ks, cs) \in Setup!Input
<1> DEFINE A == Setup!ActiveCompetitors(cs)
           f == [c \in A |-> cs[c].name]
<1>1. p.identity \in Identity
  BY DEF Setup!Project
<1>2. Setup!ActiveKeywords(ks) \in SUBSET Keyword
  BY DEF Setup!ActiveKeywords
<1>3. A \in SUBSET Competitor
  BY DEF Setup!ActiveCompetitors, Setup!Tracked
<1>4. ASSUME NEW c \in A PROVE cs[c].name \in Names
  <2>1. c \in Competitor /\ cs[c] # None
    BY DEF Setup!ActiveCompetitors, Setup!Tracked
  <2>2. cs[c] \in Setup!Tracking
    BY <2>1
  <2> QED
    BY <2>2 DEF Setup!Tracking
<1> HIDE DEF A
<1>5. f \in [A -> Names]
  BY <1>4
<1>6. Setup!Inputs(p, ks, cs)
        = [identity |-> p.identity, keywords |-> Setup!ActiveKeywords(ks), competitors |-> f]
  BY DEF Setup!Inputs, A
<1> HIDE DEF f
<1>7. f \in UNION {[ds -> Names] : ds \in SUBSET Competitor}
  BY <1>3, <1>5
<1> QED
  BY <1>1, <1>2, <1>6, <1>7 DEF Setup!Input

(* The parts of SetupIInv hold initially: nothing is planned.              *)
LEMMA SetupInit ==
    ASSUME Setup!Init PROVE SetupIInv
<1>1. planned = <<>>
  BY DEF Setup!Init
<1>2. Setup!TypeOK
  <2>1. planned \in Seq({planned[i] : i \in DOMAIN planned})
    BY <1>1
  <2> QED
    BY <2>1 DEF Setup!Init, Setup!TypeOK, Setup!EnabledProviders
<1>3. FreshIsNow
  BY DEF Setup!Init, FreshIsNow
<1>4. PlansOK
  BY <1>1 DEF PlansOK
<1> QED
  BY <1>2, <1>3, <1>4 DEF SetupIInv

(* What does not plan a scan leaves PlansOK as it is.                      *)
LEMMA PlansRest ==
    ASSUME PlansOK, UNCHANGED planned
    PROVE  PlansOK'
BY DEF PlansOK, PlanOK, RepeatsOf, Product, Asks

(* A new revision leaves the prompt set behind. *)
LEMMA RevisedIsStale ==
    ASSUME Setup!TypeOK, FreshIsNow, project # None,
           project'.revision = project.revision + 1, UNCHANGED <<promptSet, torn>>
    PROVE  FreshIsNow'
<1>1. project.revision \in Nat /\ promptSet.revision \in Nat
  BY DEF Setup!TypeOK, Setup!Project, Setup!PromptSet
<1> QED
  BY <1>1 DEF FreshIsNow

(* What asks about the same inputs is as fresh as it was. *)
LEMMA SameNow ==
    ASSUME FreshIsNow, project # None,
           project'.revision = project.revision, project'.identity = project.identity,
           keywords' = keywords,
           Setup!ActiveCompetitors(competitors') = Setup!ActiveCompetitors(competitors),
           promptSet'.revision = promptSet.revision, promptSet'.made = promptSet.made,
           torn' = torn
    PROVE  FreshIsNow'
<1>1. /\ Setup!Now.identity' = Setup!Now.identity
      /\ Setup!Now.keywords' = Setup!Now.keywords
      /\ (DOMAIN Setup!Now.competitors)' = DOMAIN Setup!Now.competitors
  BY DEF Setup!Now, Setup!Inputs
<1> QED
  BY <1>1 DEF FreshIsNow, Asks

-----------------------------------------------------------------------------
(* A competitor that is there stays there. *)
LEMMA TrackedStays ==
    ASSUME Setup!SetupAssumption, NEW cs \in [Competitor -> Setup!Tracking \cup {None}],
           NEW c \in Competitor, NEW y \in Setup!Tracking, NEW ds, ds = [cs EXCEPT ![c] = y]
    PROVE  /\ ds \in [Competitor -> Setup!Tracking \cup {None}]
           /\ Setup!Tracked(cs) \subseteq Setup!Tracked(ds)
<1>1. None \notin Setup!Tracking
  BY DEF Setup!SetupAssumption
<1>2. ds \in [Competitor -> Setup!Tracking \cup {None}]
  OBVIOUS
<1>3. ASSUME NEW d \in Setup!Tracked(cs) PROVE d \in Setup!Tracked(ds)
  <2>1. CASE d = c
    BY <1>1, <2>1 DEF Setup!Tracked
  <2>2. CASE d # c
    BY <2>2 DEF Setup!Tracked
  <2> QED
    BY <2>1, <2>2
<1> QED
  BY <1>2, <1>3

(* The types of what an edit of the tracked inputs leaves alone. *)
LEMMA TypeKept ==
    ASSUME Setup!TypeOK, project # None, project' \in Setup!Project,
           keywords' \in [Keyword -> {"none", "active", "inactive"}],
           competitors' \in [Competitor -> Setup!Tracking \cup {None}],
           Setup!Tracked(competitors) \subseteq Setup!Tracked(competitors'),
           UNCHANGED <<enabled, plan, promptSet, planned, removing, putting>>
    PROVE  Setup!TypeOK'
<1> USE DEF Setup!TypeOK
<1>1. Setup!EnabledProviders' = Setup!EnabledProviders
  BY DEF Setup!EnabledProviders
<1>2. planned' \in Seq({planned'[i] : i \in DOMAIN planned'})
  OBVIOUS
<1>3. ASSUME NEW r \in Remover, removing'[r] # None
      PROVE  /\ removing'[r].what \in Keyword \cup Setup!Tracked(competitors')
             /\ removing'[r].revision \in Nat \ {0}
  <2>1. removing' = removing
    OBVIOUS
  <2>2. removing[r].what \in Keyword \cup Setup!Tracked(competitors)
        /\ removing[r].revision \in Nat \ {0}
    BY <1>3, <2>1
  <2> QED
    BY <2>1, <2>2
<1> QED
  BY <1>1, <1>2, <1>3

(* The project's row, after a change. *)
LEMMA ProjectKept ==
    ASSUME Setup!TypeOK, project # None
    PROVE  /\ project \in Setup!Project
           /\ Setup!Revised \in Setup!Project
           /\ Setup!Revised.revision = project.revision + 1
           /\ \A i \in Identity : /\ [Setup!Revised EXCEPT !.identity = i] \in Setup!Project
                                  /\ [Setup!Revised EXCEPT !.identity = i].revision
                                        = project.revision + 1
           /\ \A status \in {"ACTIVE", "PAUSED", "ARCHIVED"} :
                 /\ [project EXCEPT !.status = status] \in Setup!Project
                 /\ [project EXCEPT !.status = status].revision = project.revision
                 /\ [project EXCEPT !.status = status].identity = project.identity
           /\ \A n \in Nat : /\ [project EXCEPT !.revision = n + 1] \in Setup!Project
                             /\ [project EXCEPT !.revision = n + 1].revision = n + 1
<1>1. project \in Setup!Project
  BY DEF Setup!TypeOK
<1>2. /\ project = [status |-> project.status, identity |-> project.identity,
                    revision |-> project.revision]
      /\ project.status \in {"ACTIVE", "PAUSED", "ARCHIVED"}
      /\ project.identity \in Identity /\ project.revision \in Nat \ {0}
  BY <1>1 DEF Setup!Project
<1> DEFINE NewRow(s, i, n) == [status |-> s, identity |-> i, revision |-> n]
<1>3. \A s \in {"ACTIVE", "PAUSED", "ARCHIVED"}, i \in Identity, n \in Nat \ {0} :
         NewRow(s, i, n) \in Setup!Project
  BY DEF Setup!Project
<1>4. Setup!Revised = NewRow(project.status, project.identity, project.revision + 1)
  BY <1>2 DEF Setup!Revised
<1>5. project.revision + 1 \in Nat \ {0}
  BY <1>2
<1>6. \A i \in Identity : [Setup!Revised EXCEPT !.identity = i]
                             = NewRow(project.status, i, project.revision + 1)
  BY <1>4
<1>7. \A s \in {"ACTIVE", "PAUSED", "ARCHIVED"} :
         [project EXCEPT !.status = s] = NewRow(s, project.identity, project.revision)
  BY <1>2
<1>8. \A n \in Nat : /\ n + 1 \in Nat \ {0}
                     /\ [project EXCEPT !.revision = n + 1]
                           = NewRow(project.status, project.identity, n + 1)
  BY <1>2
<1>9. \A s, i, n : /\ NewRow(s, i, n).status = s /\ NewRow(s, i, n).identity = i
                   /\ NewRow(s, i, n).revision = n
  OBVIOUS
<1> HIDE DEF NewRow
<1> QED
  BY <1>1, <1>2, <1>3, <1>4, <1>5, <1>6, <1>7, <1>8, <1>9

(* A change of the project's identity keeps SetupIInv.                     *)
LEMMA UpdateProjectStep ==
    ASSUME Setup!SetupAssumption, SetupIInv, project # None,
           NEW i \in Identity, Setup!UpdateProject(i)
    PROVE  SetupIInv'
<1> USE DEF SetupIInv
<1>1. /\ project' = [Setup!Revised EXCEPT !.identity = i]
      /\ UNCHANGED <<keywords, competitors, enabled, plan, promptSet, planned,
                     removing, putting, torn>>
  BY DEF Setup!UpdateProject, Setup!setup, Setup!threads
<1>2. project' \in Setup!Project /\ project'.revision = project.revision + 1
  BY <1>1, ProjectKept
<1>3. Setup!TypeOK'
  BY <1>1, <1>2, TypeKept DEF Setup!TypeOK
<1>4. FreshIsNow'
  BY <1>1, <1>2, RevisedIsStale
<1> QED
  BY <1>1, <1>3, <1>4, PlansRest

(* So does a change of its status,                                         *)
LEMMA SetStatusStep ==
    ASSUME Setup!SetupAssumption, SetupIInv, project # None,
           NEW status \in {"ACTIVE", "PAUSED", "ARCHIVED"}, Setup!SetStatus(status)
    PROVE  SetupIInv'
<1> USE DEF SetupIInv
<1>1. /\ project' = [project EXCEPT !.status = status]
      /\ UNCHANGED <<keywords, competitors, enabled, plan, promptSet, planned,
                     removing, putting, torn>>
  BY DEF Setup!SetStatus, Setup!setup, Setup!threads
<1>2. /\ project' \in Setup!Project /\ project'.revision = project.revision
      /\ project'.identity = project.identity
  BY <1>1, ProjectKept
<1>3. Setup!TypeOK'
  BY <1>1, <1>2, TypeKept DEF Setup!TypeOK
<1>4. FreshIsNow'
  BY <1>1, <1>2, SameNow
<1> QED
  BY <1>1, <1>3, <1>4, PlansRest

(* a change of its keywords,                                               *)
LEMMA KeywordStep ==
    ASSUME Setup!SetupAssumption, SetupIInv, project # None,
           \/ \E ks \in SUBSET Keyword : Setup!AddKeywords(ks)
           \/ \E k \in Keyword, status \in {"active", "inactive"} :
                 Setup!UpdateKeyword(k, status)
    PROVE  SetupIInv'
<1> USE DEF SetupIInv
<1>1. keywords \in [Keyword -> {"none", "active", "inactive"}]
  BY DEF Setup!TypeOK
<1>2. /\ project' = Setup!Revised
      /\ keywords' \in [Keyword -> {"none", "active", "inactive"}]
      /\ UNCHANGED <<competitors, enabled, plan, promptSet, planned,
                     removing, putting, torn>>
  BY <1>1 DEF Setup!AddKeywords, Setup!UpdateKeyword, Setup!threads
<1>3. project' \in Setup!Project /\ project'.revision = project.revision + 1
  BY <1>2, ProjectKept
<1>4. Setup!TypeOK'
  BY <1>2, <1>3, TypeKept DEF Setup!TypeOK
<1>5. FreshIsNow'
  BY <1>2, <1>3, RevisedIsStale
<1> QED
  BY <1>2, <1>4, <1>5, PlansRest

(* a new competitor,                                                       *)
LEMMA AddCompetitorStep ==
    ASSUME Setup!SetupAssumption, SetupIInv, project # None,
           NEW c \in Competitor, Setup!AddCompetitor(c)
    PROVE  SetupIInv'
<1> USE DEF SetupIInv
<1> DEFINE y == [active |-> TRUE, name |-> 1]
<1>1. /\ project' = Setup!Revised
      /\ competitors' = [competitors EXCEPT ![c] = y]
      /\ UNCHANGED <<keywords, enabled, plan, promptSet, planned,
                     removing, putting, torn>>
  BY DEF Setup!AddCompetitor, Setup!threads
<1>2. y \in Setup!Tracking
  BY DEF Setup!SetupAssumption, Setup!Tracking
<1> HIDE DEF y
<1>3. /\ competitors' \in [Competitor -> Setup!Tracking \cup {None}]
      /\ Setup!Tracked(competitors) \subseteq Setup!Tracked(competitors')
  BY <1>1, <1>2, TrackedStays DEF Setup!TypeOK
<1>4. project' \in Setup!Project /\ project'.revision = project.revision + 1
  BY <1>1, ProjectKept
<1>5. Setup!TypeOK'
  BY <1>1, <1>3, <1>4, TypeKept DEF Setup!TypeOK
<1>6. FreshIsNow'
  BY <1>1, <1>4, RevisedIsStale
<1> QED
  BY <1>1, <1>5, <1>6, PlansRest

(* A new name is another text in the same prompts. *)
LEMMA UpdateCompetitorStep ==
    ASSUME Setup!SetupAssumption, SetupIInv, project # None,
           NEW c \in Competitor, NEW on \in BOOLEAN, NEW name \in Names,
           Setup!UpdateCompetitor(c, on, name)
    PROVE  SetupIInv'
<1> USE DEF SetupIInv
<1> DEFINE y == [active |-> on, name |-> name]
<1>1. /\ competitors[c] # None
      /\ project' = IF on # competitors[c].active THEN Setup!Revised ELSE project
      /\ competitors' = [competitors EXCEPT ![c] = y]
      /\ UNCHANGED <<keywords, enabled, plan, promptSet, planned,
                     removing, putting, torn>>
  BY DEF Setup!UpdateCompetitor, Setup!threads
<1>2. y \in Setup!Tracking /\ y.active = on
  BY DEF Setup!Tracking
<1> HIDE DEF y
<1>3. /\ competitors' \in [Competitor -> Setup!Tracking \cup {None}]
      /\ Setup!Tracked(competitors) \subseteq Setup!Tracked(competitors')
  BY <1>1, <1>2, TrackedStays DEF Setup!TypeOK
<1>4. project' \in Setup!Project
  BY <1>1, ProjectKept
<1>5. Setup!TypeOK'
  BY <1>1, <1>3, <1>4, TypeKept DEF Setup!TypeOK
<1>6. CASE on # competitors[c].active
  <2>1. project'.revision = project.revision + 1
    BY <1>1, <1>6, ProjectKept
  <2> QED
    BY <1>1, <1>5, <2>1, RevisedIsStale, PlansRest
<1>7. CASE on = competitors[c].active
  <2>1. project' = project
    BY <1>1, <1>7
  <2>2. competitors \in [Competitor -> Setup!Tracking \cup {None}]
    BY DEF Setup!TypeOK
  <2>3. None \notin Setup!Tracking
    BY DEF Setup!SetupAssumption
  <2>4. ASSUME NEW d \in Competitor
        PROVE  d \in Setup!ActiveCompetitors(competitors')
                  <=> d \in Setup!ActiveCompetitors(competitors)
    <3>1. CASE d = c
      <4>1. competitors'[c] = y /\ y # None
        BY <1>1, <1>2, <2>2, <2>3
      <4> QED
        BY <1>1, <1>2, <1>7, <3>1, <4>1 DEF Setup!ActiveCompetitors, Setup!Tracked
    <3>2. CASE d # c
      <4>1. competitors'[d] = competitors[d]
        BY <1>1, <2>2, <3>2
      <4> QED
        BY <4>1 DEF Setup!ActiveCompetitors, Setup!Tracked
    <3> QED
      BY <3>1, <3>2
  <2>5. /\ Setup!ActiveCompetitors(competitors) \subseteq Competitor
        /\ Setup!ActiveCompetitors(competitors') \subseteq Competitor
    BY DEF Setup!ActiveCompetitors, Setup!Tracked
  <2>6. Setup!ActiveCompetitors(competitors') = Setup!ActiveCompetitors(competitors)
    BY <2>4, <2>5
  <2>7. FreshIsNow'
    BY <1>1, <2>1, <2>6, SameNow
  <2> QED
    BY <1>1, <1>5, <2>7, PlansRest
<1> QED
  BY <1>6, <1>7

(* a removal of one that has loaded the rows,                              *)
LEMMA RemoveLoadsStep ==
    ASSUME Setup!SetupAssumption, SetupIInv, project # None,
           NEW r \in Remover, NEW x, Setup!RemoveLoads(r, x)
    PROVE  SetupIInv'
<1> USE DEF SetupIInv
<1> DEFINE y == [what |-> x, revision |-> project.revision]
<1>1. /\ x \in Keyword \cup Setup!Tracked(competitors)
      /\ removing' = [removing EXCEPT ![r] = y]
      /\ UNCHANGED <<project, keywords, competitors, enabled, plan, promptSet, planned,
                     putting, torn>>
  BY DEF Setup!RemoveLoads, Setup!setup
<1>2. project.revision \in Nat \ {0}
  BY DEF Setup!TypeOK, Setup!Project
<1>3. Setup!TypeOK'
  <2> USE DEF Setup!TypeOK
  <2>1. Setup!EnabledProviders' = Setup!EnabledProviders
    BY <1>1 DEF Setup!EnabledProviders
  <2>2. ASSUME NEW s \in Remover, removing'[s] # None
        PROVE  /\ removing'[s].what \in Keyword \cup Setup!Tracked(competitors')
               /\ removing'[s].revision \in Nat \ {0}
    <3>1. competitors' = competitors
      BY <1>1
    <3>2. CASE s = r
      BY <1>1, <1>2, <3>1, <3>2
    <3>3. CASE s # r
      <4>1. removing'[s] = removing[s]
        BY <1>1, <3>3
      <4> QED
        BY <2>2, <3>1, <4>1
    <3> QED
      BY <3>2, <3>3
  <2>3. DOMAIN removing' = Remover
    BY <1>1
  <2>4. planned' \in Seq({planned'[i] : i \in DOMAIN planned'})
    BY <1>1
  <2> QED
    BY <1>1, <2>1, <2>2, <2>3, <2>4
<1>4. FreshIsNow'
  BY <1>1, SameNow
<1> QED
  BY <1>1, <1>3, <1>4, PlansRest

(* A removal that writes the next revision leaves the prompt set behind;   *)
(* one that does not is torn.                                              *)
LEMMA RemoveWritesStep ==
    ASSUME Setup!SetupAssumption, SetupIInv, project # None,
           NEW r \in Remover, Setup!RemoveWrites(r)
    PROVE  SetupIInv'
<1> USE DEF SetupIInv
<1> DEFINE x == removing[r].what
           n == removing[r].revision
<1>1. /\ removing[r] # None
      /\ IF x \in Keyword
         THEN keywords' = [keywords EXCEPT ![x] = "inactive"] /\ UNCHANGED competitors
         ELSE competitors' = [competitors EXCEPT ![x].active = FALSE] /\ UNCHANGED keywords
      /\ project' = [project EXCEPT !.revision = n + 1]
      /\ torn' = (torn \/ n # project.revision)
      /\ removing' = [removing EXCEPT ![r] = None]
      /\ UNCHANGED <<enabled, plan, promptSet, planned, putting>>
  BY DEF Setup!RemoveWrites
<1>2. x \in Keyword \cup Setup!Tracked(competitors) /\ n \in Nat \ {0}
  BY <1>1 DEF Setup!TypeOK
<1> HIDE DEF x, n
<1>3. project' \in Setup!Project /\ project'.revision = n + 1
  BY <1>1, <1>2, ProjectKept
<1>4. /\ keywords' \in [Keyword -> {"none", "active", "inactive"}]
      /\ competitors' \in [Competitor -> Setup!Tracking \cup {None}]
      /\ Setup!Tracked(competitors) \subseteq Setup!Tracked(competitors')
  <2>1. CASE x \in Keyword
    BY <1>1, <2>1 DEF Setup!TypeOK
  <2>2. CASE x \notin Keyword
    <3> DEFINE y == [competitors[x] EXCEPT !.active = FALSE]
    <3>1. x \in Competitor /\ competitors[x] # None
      BY <1>2, <2>2 DEF Setup!Tracked
    <3>2. competitors[x] \in Setup!Tracking
      BY <3>1 DEF Setup!TypeOK
    <3>3. y \in Setup!Tracking
      BY <3>2 DEF Setup!Tracking
    <3>4. competitors' = [competitors EXCEPT ![x] = y]
      BY <1>1, <2>2
    <3> HIDE DEF y
    <3>5. keywords' = keywords
      BY <1>1, <2>2
    <3> QED
      BY <3>1, <3>3, <3>4, <3>5, TrackedStays DEF Setup!TypeOK
  <2> QED
    BY <2>1, <2>2
<1>5. Setup!TypeOK'
  <2> USE DEF Setup!TypeOK
  <2>1. Setup!EnabledProviders' = Setup!EnabledProviders
    BY <1>1 DEF Setup!EnabledProviders
  <2>2. ASSUME NEW s \in Remover, removing'[s] # None
        PROVE  /\ removing'[s].what \in Keyword \cup Setup!Tracked(competitors')
               /\ removing'[s].revision \in Nat \ {0}
    <3>1. s # r /\ removing'[s] = removing[s]
      BY <1>1, <2>2
    <3>2. /\ removing[s].what \in Keyword \cup Setup!Tracked(competitors)
          /\ removing[s].revision \in Nat \ {0}
      BY <2>2, <3>1
    <3> QED
      BY <1>4, <3>1, <3>2
  <2>3. DOMAIN removing' = Remover
    BY <1>1
  <2>4. planned' \in Seq({planned'[i] : i \in DOMAIN planned'})
    BY <1>1
  <2> QED
    BY <1>1, <1>3, <1>4, <2>1, <2>2, <2>3, <2>4
<1>6. FreshIsNow'
  <2>1. CASE torn'
    BY <2>1 DEF FreshIsNow
  <2>2. CASE ~torn'
    <3>1. ~torn /\ n = project.revision
      BY <1>1, <2>2
    <3>2. project.revision \in Nat /\ promptSet.revision \in Nat
      BY DEF Setup!TypeOK, Setup!Project, Setup!PromptSet
    <3> QED
      BY <1>1, <1>3, <3>1, <3>2 DEF FreshIsNow
  <2> QED
    BY <2>1, <2>2
<1> QED
  BY <1>1, <1>5, <1>6, PlansRest

(* a replacement of the providers, whose requests may interleave,          *)
LEMMA PutStep ==
    ASSUME Setup!SetupAssumption, SetupIInv, project # None, NEW w \in Putter,
           Setup!PutReplaces(w) \/ \E ps \in SUBSET Provider : Setup!PutLists(w, ps)
    PROVE  SetupIInv'
<1> USE DEF SetupIInv
<1>1. UNCHANGED <<project, keywords, competitors, plan, promptSet, planned, removing, torn>>
  BY DEF Setup!PutReplaces, Setup!PutLists, Setup!setup
<1>2. FreshIsNow' /\ PlansOK'
  BY <1>1, SameNow, PlansRest
<1>3. /\ Setup!EnabledProviders' \subseteq Provider
      /\ DOMAIN putting' = Putter
      /\ \A v \in Putter : putting'[v] # None => putting'[v].providers \subseteq Provider
  <2>1. CASE Setup!PutReplaces(w)
    <3> DEFINE put == putting[w]
               kept == enabled \ put.existing
    <3>1. /\ put # None
          /\ \/ enabled' = enabled
             \/ enabled' = kept \cup (put.providers \X {put.n})
          /\ putting' = [putting EXCEPT ![w] = None]
      BY <2>1 DEF Setup!PutReplaces
    <3>2. put.providers \subseteq Provider
      BY <3>1 DEF Setup!TypeOK
    <3>3. \A x \in enabled : x[1] \in Provider
      BY DEF Setup!TypeOK, Setup!EnabledProviders
    <3> HIDE DEF put
    <3>4. \A x \in enabled' : x[1] \in Provider
      BY <3>1, <3>2, <3>3
    <3> QED
      BY <3>1, <3>4 DEF Setup!TypeOK, Setup!EnabledProviders
  <2>2. CASE \E ps \in SUBSET Provider : Setup!PutLists(w, ps)
    <3>1. PICK ps \in SUBSET Provider :
             /\ putting' = [putting EXCEPT ![w] = [providers |-> ps, existing |-> enabled,
                                                   n |-> edits + 1]]
             /\ enabled' = enabled
      BY <2>2 DEF Setup!PutLists, Setup!setup
    <3>2. Setup!EnabledProviders' = Setup!EnabledProviders
      BY <3>1 DEF Setup!EnabledProviders
    <3>3. DOMAIN putting' = Putter
      BY <3>1 DEF Setup!TypeOK
    <3>4. ASSUME NEW v \in Putter, putting'[v] # None
          PROVE  putting'[v].providers \subseteq Provider
      <4>1. CASE v = w
        BY <3>1, <4>1 DEF Setup!TypeOK
      <4>2. CASE v # w
        <5>1. putting'[v] = putting[v]
          BY <3>1, <4>2 DEF Setup!TypeOK
        <5> QED
          BY <3>4, <5>1 DEF Setup!TypeOK
      <4> QED
        BY <4>1, <4>2
    <3> QED
      BY <3>2, <3>3, <3>4 DEF Setup!TypeOK
  <2> QED
    BY <2>1, <2>2
<1>4. planned' \in Seq({planned'[i] : i \in DOMAIN planned'})
  BY <1>1 DEF Setup!TypeOK
<1>5. Setup!TypeOK'
  <2>1. \A r \in Remover : removing'[r] # None =>
          /\ removing'[r].what \in Keyword \cup Setup!Tracked(competitors')
          /\ removing'[r].revision \in Nat \ {0}
    BY <1>1 DEF Setup!TypeOK
  <2> QED
    BY <1>1, <1>3, <1>4, <2>1 DEF Setup!TypeOK
<1> QED
  BY <1>2, <1>5

(* A change of the plan, of the generator or of the prompt set.            *)
LEMMA OtherSame ==
    ASSUME Setup!TypeOK, plan' \in Plans, promptSet' \in Setup!PromptSet,
           UNCHANGED <<project, keywords, competitors, enabled, planned, removing, putting>>
    PROVE  Setup!TypeOK'
<1> USE DEF Setup!TypeOK
<1>1. Setup!EnabledProviders' = Setup!EnabledProviders
  BY DEF Setup!EnabledProviders
<1>2. planned' \in Seq({planned'[i] : i \in DOMAIN planned'})
  OBVIOUS
<1>3. \A r \in Remover : removing'[r] # None =>
          /\ removing'[r].what \in Keyword \cup Setup!Tracked(competitors')
          /\ removing'[r].revision \in Nat \ {0}
  OBVIOUS
<1> QED
  BY <1>1, <1>2, <1>3

(* a change of the workspace's plan,                                       *)
LEMMA ChangePlanStep ==
    ASSUME Setup!SetupAssumption, SetupIInv, project # None,
           NEW p \in Plans, Setup!ChangePlan(p)
    PROVE  SetupIInv'
<1> USE DEF SetupIInv
<1>1. /\ plan' = p
      /\ UNCHANGED <<project, keywords, competitors, enabled, promptSet, planned,
                     removing, putting, torn>>
  BY DEF Setup!ChangePlan, Setup!threads
<1>2. promptSet' \in Setup!PromptSet
  BY <1>1 DEF Setup!TypeOK
<1>3. Setup!TypeOK'
  BY <1>1, <1>2, OtherSame
<1>4. FreshIsNow'
  BY <1>1, SameNow
<1> QED
  BY <1>1, <1>3, <1>4, PlansRest

(* A regenerated set is of this revision and of these inputs. *)
LEMMA RegenerateStep ==
    ASSUME Setup!SetupAssumption, SetupIInv, project # None, Setup!Regenerate
    PROVE  SetupIInv'
<1> USE DEF SetupIInv
<1> DEFINE y == Setup!Generate(promptSet.version + 1, project.revision, Setup!Now)
<1>1. /\ promptSet' = y
      /\ UNCHANGED <<project, keywords, competitors, enabled, plan, planned,
                     removing, putting, torn>>
  BY DEF Setup!Regenerate, Setup!threads
<1>2. /\ project.revision \in Nat \ {0} /\ promptSet.version \in Nat
      /\ project \in Setup!Project /\ competitors \in [Competitor -> Setup!Tracking \cup {None}]
  BY DEF Setup!TypeOK, Setup!Project, Setup!PromptSet
<1>3. Setup!Now \in Setup!Input
  BY <1>2, InputTyped DEF Setup!Now
<1>4. y \in Setup!PromptSet /\ y.revision = project.revision /\ y.made = Setup!Now
  BY <1>2, <1>3 DEF Setup!Generate, Setup!PromptSet
<1> HIDE DEF y
<1>5. plan' \in Plans
  BY <1>1 DEF Setup!TypeOK
<1>6. Setup!TypeOK'
  BY <1>1, <1>4, <1>5, OtherSame
<1>7. Setup!Now' = Setup!Now
  BY <1>1 DEF Setup!Now, Setup!Inputs
<1>8. FreshIsNow'
  BY <1>1, <1>2, <1>4, <1>7 DEF FreshIsNow, Asks
<1> QED
  BY <1>1, <1>6, <1>8, PlansRest

(* a new generator of prompts,                                             *)
LEMMA NewGeneratorStep ==
    ASSUME Setup!SetupAssumption, SetupIInv, project # None, Setup!NewGenerator
    PROVE  SetupIInv'
<1> USE DEF SetupIInv
<1>1. /\ promptSet' = [promptSet EXCEPT !.current = FALSE]
      /\ UNCHANGED <<project, keywords, competitors, enabled, plan, planned,
                     removing, putting, torn>>
  BY DEF Setup!NewGenerator, Setup!threads
<1>2. promptSet \in Setup!PromptSet
  BY DEF Setup!TypeOK
<1>3. /\ promptSet' \in Setup!PromptSet
      /\ promptSet'.revision = promptSet.revision /\ promptSet'.made = promptSet.made
  BY <1>1, <1>2 DEF Setup!PromptSet
<1>4. plan' \in Plans
  BY <1>1 DEF Setup!TypeOK
<1>5. Setup!TypeOK'
  BY <1>1, <1>3, <1>4, OtherSame
<1>6. FreshIsNow'
  BY <1>1, <1>3, SameNow
<1> QED
  BY <1>1, <1>5, <1>6, PlansRest

(* Nothing is tracked for a project that is not there. *)
NothingYet == project = None => Setup!Tracked(competitors) = {}

(* The first prompt set is made from what the project starts with. *)
LEMMA OnboardStep ==
    ASSUME Setup!SetupAssumption, SetupIInv, NothingYet,
           NEW i \in Identity, NEW ks \in SUBSET Keyword, NEW cs \in SUBSET Competitor,
           NEW ps \in SUBSET Provider, Setup!Onboard(i, ks, cs, ps)
    PROVE  SetupIInv'
<1> USE DEF SetupIInv
<1> DEFINE p  == [status |-> "ACTIVE", identity |-> i, revision |-> 1]
           kw == [k \in Keyword |-> IF k \in ks THEN "active" ELSE "none"]
           cm == [c \in Competitor |->
                     IF c \in cs THEN [active |-> TRUE, name |-> 1] ELSE None]
           made == Setup!Inputs(p, kw, cm)
<1>1. /\ project = None
      /\ project' = p /\ keywords' = kw /\ competitors' = cm
      /\ enabled' = ps \X {0}
      /\ promptSet' = Setup!Generate(1, 1, made)
      /\ UNCHANGED <<plan, planned, removing, putting, torn>>
  BY DEF Setup!Onboard, Setup!threads
<1>2. p \in Setup!Project /\ p.revision = 1
  BY DEF Setup!Project
<1>3. kw \in [Keyword -> {"none", "active", "inactive"}]
  OBVIOUS
<1>4. cm \in [Competitor -> Setup!Tracking \cup {None}]
  BY DEF Setup!SetupAssumption, Setup!Tracking
<1> HIDE DEF p, kw, cm
<1>5. made \in Setup!Input
  BY <1>2, <1>4, InputTyped
<1>6. Setup!Now' = made
  BY <1>1 DEF Setup!Now
<1> HIDE DEF made
<1>7. promptSet' \in Setup!PromptSet /\ promptSet'.revision = 1 /\ promptSet'.made = made
  BY <1>1, <1>5 DEF Setup!Generate, Setup!PromptSet
<1>8. FreshIsNow'
  BY <1>1, <1>2, <1>6, <1>7 DEF FreshIsNow, Asks
<1>9. Setup!TypeOK'
  <2> USE DEF Setup!TypeOK
  <2>1. \A x \in enabled' : x[1] \in Provider
    BY <1>1
  <2>2. Setup!EnabledProviders' \subseteq Provider
    BY <2>1 DEF Setup!EnabledProviders
  <2>3. planned' \in Seq({planned'[j] : j \in DOMAIN planned'})
    BY <1>1
  <2>4. ASSUME NEW r \in Remover, removing'[r] # None
        PROVE  /\ removing'[r].what \in Keyword \cup Setup!Tracked(competitors')
               /\ removing'[r].revision \in Nat \ {0}
    <3>1. removing' = removing
      BY <1>1
    <3>2. Setup!Tracked(competitors) = {}
      BY <1>1 DEF NothingYet
    <3> QED
      BY <2>4, <3>1, <3>2
  <2> QED
    BY <1>1, <1>2, <1>3, <1>4, <1>7, <2>2, <2>3, <2>4
<1> QED
  BY <1>1, <1>8, <1>9, PlansRest

-----------------------------------------------------------------------------
(* The types of what the scans leave alone. *)
LEMMA ScansTyped ==
    ASSUME Setup!TypeOK, planned' \in Seq({planned'[i] : i \in DOMAIN planned'}),
           UNCHANGED <<project, keywords, competitors, enabled, plan, promptSet,
                       removing, putting>>
    PROVE  Setup!TypeOK'
<1> USE DEF Setup!TypeOK
<1>1. Setup!EnabledProviders' = Setup!EnabledProviders
  BY DEF Setup!EnabledProviders
<1>2. \A r \in Remover : removing'[r] # None =>
          /\ removing'[r].what \in Keyword \cup Setup!Tracked(competitors')
          /\ removing'[r].revision \in Nat \ {0}
  OBVIOUS
<1> QED
  BY <1>1, <1>2

(* A scan that is planned changes nothing but the list of the scans. *)
LEMMA PlanScanStep ==
    ASSUME Setup!SetupAssumption, SetupIInv, project # None,
           NEW type, NEW cells, NEW checks, NEW entities, NEW baseline, NEW made,
           Setup!PlanScan(type, cells, checks, entities, baseline, made),
           LET x == [type |-> type, stage |-> "planned", cells |-> cells, checks |-> checks,
                     entities |-> entities, baseline |-> baseline,
                     made |-> made, inputs |-> Setup!Now, torn |-> torn]
           IN /\ PlanOK(x)
              /\ x.type # "STANDARD" =>
                    /\ x.baseline \in DOMAIN planned
                    /\ planned[x.baseline].type = "STANDARD"
                    /\ RepeatsOf(x, planned[x.baseline])
    PROVE  SetupIInv'
<1> USE DEF SetupIInv
<1> DEFINE x == [type |-> type, stage |-> "planned", cells |-> cells, checks |-> checks,
                 entities |-> entities, baseline |-> baseline,
                 made |-> made, inputs |-> Setup!Now, torn |-> torn]
<1>1. /\ planned' = Append(planned, x)
      /\ UNCHANGED <<project, keywords, competitors, enabled, plan, promptSet,
                     removing, putting, torn>>
  BY DEF Setup!PlanScan, Setup!setup, Setup!threads
<1>2. /\ PlanOK(x)
      /\ x.type # "STANDARD" =>
            /\ x.baseline \in DOMAIN planned
            /\ planned[x.baseline].type = "STANDARD"
            /\ RepeatsOf(x, planned[x.baseline])
  OBVIOUS
<1> HIDE DEF x
<1>3. PlansOK' /\ planned' \in Seq({planned'[i] : i \in DOMAIN planned'})
  BY <1>1, <1>2, PlanJoins
<1>4. FreshIsNow'
  BY <1>1, SameNow
<1>5. Setup!TypeOK'
  BY <1>1, <1>3, ScansTyped
<1> QED
  BY <1>3, <1>4, <1>5

(* and the end of a scan.                                                  *)
LEMMA ScanEndsStep ==
    ASSUME Setup!SetupAssumption, SetupIInv, project # None,
           NEW b \in DOMAIN planned, Setup!ScanEnds(b)
    PROVE  SetupIInv'
<1> USE DEF SetupIInv
<1>1. UNCHANGED <<project, keywords, competitors, enabled, plan, promptSet,
                  removing, putting, torn>>
  BY DEF Setup!ScanEnds, Setup!setup, Setup!threads
<1>2. PlansOK' /\ planned' \in Seq({planned'[i] : i \in DOMAIN planned'})
  BY EndKeepsPlans
<1>3. FreshIsNow'
  BY <1>1, SameNow
<1>4. Setup!TypeOK'
  BY <1>1, <1>2, ScansTyped
<1> QED
  BY <1>2, <1>3, <1>4

(* A STANDARD scan asks every prompt at every eligible provider, once.     *)
LEMMA CreateStandardStep ==
    ASSUME Setup!SetupAssumption, SetupIInv, project # None, Setup!CreateStandard
    PROVE  SetupIInv'
<1> DEFINE eligible == Setup!EnabledProviders \cap plan.providers
           prompts  == Setup!Prompts(promptSet)
           cells    == Setup!Cells(prompts, eligible, 1)
           checks   == Setup!Cardinality(prompts) * Setup!Cardinality(eligible)
           made     == promptSet.made
           x == [type |-> "STANDARD", stage |-> "planned", cells |-> cells, checks |-> checks,
                 entities |-> Setup!Entities, baseline |-> None,
                 made |-> made, inputs |-> Setup!Now, torn |-> torn]
<1>1. /\ promptSet.revision = project.revision
      /\ Setup!PlanScan("STANDARD", cells, checks, Setup!Entities, None, made)
  BY DEF Setup!CreateStandard, Setup!Fresh
<1>2. IsFiniteSet(prompts)
  <2>1. promptSet \in Setup!PromptSet
    BY DEF SetupIInv, Setup!TypeOK
  <2>2. promptSet.made.keywords \subseteq Keyword
    BY <2>1 DEF Setup!PromptSet, Setup!Input
  <2>3. IsFiniteSet(Keyword)
    BY SetupCounts DEF Setup!SetupAssumption
  <2>4. IsFiniteSet(promptSet.made.keywords)
    BY <2>2, <2>3, FS_Subset
  <2> QED
    BY <2>4, PromptsFinite
<1>3. IsFiniteSet(eligible)
  <2>1. eligible \subseteq Provider
    BY DEF SetupIInv, Setup!TypeOK
  <2>2. IsFiniteSet(Provider)
    BY SetupCounts DEF Setup!SetupAssumption
  <2> QED
    BY <2>1, <2>2, FS_Subset
<1> HIDE DEF prompts, eligible
<1>4. /\ IsFiniteSet(cells)
      /\ Cardinality(cells) = Cardinality(prompts) * Cardinality(eligible) * 1
  BY <1>2, <1>3, CellsCounted
<1>5. Cardinality(prompts) \in Nat /\ Cardinality(eligible) \in Nat
  BY <1>2, <1>3, FS_CardinalityType
<1>6. /\ Setup!Cardinality(prompts) = Cardinality(prompts)
      /\ Setup!Cardinality(eligible) = Cardinality(eligible)
  BY SetupCounts
<1>7. Cardinality(prompts) * Cardinality(eligible) * 1
        = Cardinality(prompts) * Cardinality(eligible)
  BY <1>5
<1>8. checks = Cardinality(cells)
  BY <1>4, <1>6, <1>7
<1>9. Product(cells)
  BY CellsAreProduct
<1>10. Setup!PromptsOf(cells) \subseteq prompts /\ Setup!ProvidersOf(cells) \subseteq eligible
  BY DEF Setup!PromptsOf, Setup!ProvidersOf, Setup!Cells
<1> HIDE DEF cells, checks
<1>11. IsFiniteSet(Setup!PromptsOf(cells)) /\ IsFiniteSet(Setup!ProvidersOf(cells))
  BY <1>2, <1>3, <1>10, FS_Subset
<1>12. ~torn => Asks(made, Setup!Now)
  BY <1>1 DEF SetupIInv, FreshIsNow
<1>13. Setup!Entities.competitors = Setup!Now.competitors
  BY DEF Setup!Entities
<1> HIDE DEF made
<1>14. /\ x.type = "STANDARD" /\ x.cells = cells /\ x.checks = checks
       /\ x.entities = Setup!Entities /\ x.made = made /\ x.inputs = Setup!Now
       /\ x.torn = torn
       /\ x = [type |-> x.type, stage |-> x.stage, cells |-> x.cells, checks |-> x.checks,
               entities |-> x.entities, baseline |-> x.baseline, made |-> x.made,
               inputs |-> x.inputs, torn |-> x.torn]
  OBVIOUS
<1> HIDE DEF x
<1>15. PlanOK(x)
  BY <1>4, <1>8, <1>9, <1>11, <1>12, <1>13, <1>14 DEF PlanOK
<1> QED
  BY <1>1, <1>14, <1>15, PlanScanStep DEF x

(* A CONFIDENCE scan asks every cell of its baseline n times. *)
LEMMA CreateConfidenceStep ==
    ASSUME Setup!SetupAssumption, SetupIInv, project # None,
           NEW b \in DOMAIN planned, NEW n \in Repeats, Setup!CreateConfidence(b, n)
    PROVE  SetupIInv'
<1> DEFINE base      == planned[b]
           prompts   == Setup!PromptsOf(base.cells)
           providers == Setup!ProvidersOf(base.cells)
           cells     == Setup!Cells(prompts, providers, n)
           checks    == Setup!Cardinality(prompts) * Setup!Cardinality(providers) * n
           x == [type |-> "CONFIDENCE", stage |-> "planned", cells |-> cells,
                 checks |-> checks, entities |-> base.entities, baseline |-> b,
                 made |-> base.made, inputs |-> Setup!Now, torn |-> torn]
<1>1. /\ base.type = "STANDARD"
      /\ Setup!PlanScan("CONFIDENCE", cells, checks, base.entities, b, base.made)
  BY DEF Setup!CreateConfidence, Setup!Repeatable
<1>2. /\ IsFiniteSet(base.cells) /\ base.checks = Cardinality(base.cells)
      /\ base.cells = Setup!Cells(prompts, providers, 1)
      /\ IsFiniteSet(prompts) /\ IsFiniteSet(providers)
  BY <1>1 DEF SetupIInv, PlansOK, PlanOK, Product
<1>3. n \in Nat \ {0}
  BY DEF Setup!SetupAssumption
<1> HIDE DEF prompts, providers, base
<1>4. /\ IsFiniteSet(cells)
      /\ Cardinality(cells) = Cardinality(prompts) * Cardinality(providers) * n
  BY <1>2, <1>3, CellsCounted
<1>5. Cardinality(base.cells) = Cardinality(prompts) * Cardinality(providers) * 1
  BY <1>2, <1>3, CellsCounted
<1>6. Cardinality(prompts) \in Nat /\ Cardinality(providers) \in Nat
  BY <1>2, FS_CardinalityType
<1>7. checks = Cardinality(cells)
  BY <1>4, SetupCounts
<1>8. checks = n * base.checks
  <2> DEFINE k == Cardinality(prompts) * Cardinality(providers)
  <2>1. k \in Nat
    BY <1>6
  <2> HIDE DEF k
  <2>2. k * n = n * (k * 1)
    BY <1>3, <2>1
  <2>3. checks = k * n
    BY <1>4, <1>7 DEF k
  <2>4. base.checks = k * 1
    BY <1>2, <1>5 DEF k
  <2> QED
    BY <2>2, <2>3, <2>4
<1>9. {[cell EXCEPT !.observation = 1] : cell \in cells} = base.cells
  BY <1>2, <1>3, CellsAreProduct
<1> HIDE DEF cells, checks
<1>10. /\ x.type = "CONFIDENCE" /\ x.cells = cells /\ x.checks = checks
       /\ x.entities = base.entities /\ x.baseline = b
       /\ x = [type |-> x.type, stage |-> x.stage, cells |-> x.cells, checks |-> x.checks,
               entities |-> x.entities, baseline |-> x.baseline, made |-> x.made,
               inputs |-> x.inputs, torn |-> x.torn]
  OBVIOUS
<1> HIDE DEF x
<1>11. PlanOK(x)
  BY <1>4, <1>7, <1>10 DEF PlanOK
<1>12. RepeatsOf(x, base)
  BY <1>8, <1>9, <1>10 DEF RepeatsOf
<1>13. planned[x.baseline] = base /\ x.baseline \in DOMAIN planned
  BY <1>10 DEF base
<1> QED
  BY <1>1, <1>11, <1>12, <1>13, PlanScanStep DEF x

(* A VERIFICATION scan asks some cells of its baseline again, once. *)
LEMMA CreateVerificationStep ==
    ASSUME Setup!SetupAssumption, SetupIInv, project # None,
           NEW b \in DOMAIN planned, Setup!CreateVerification(b)
    PROVE  SetupIInv'
<1> DEFINE base == planned[b]
<1>1. base.type = "STANDARD"
  BY DEF Setup!CreateVerification, Setup!Repeatable
<1>2. PICK scope \in Setup!Scopes(base.cells) :
         Setup!PlanScan("VERIFICATION", scope, Setup!Cardinality(scope),
                        base.entities, b, base.made)
  BY DEF Setup!CreateVerification
<1> DEFINE checks == Setup!Cardinality(scope)
           x == [type |-> "VERIFICATION", stage |-> "planned", cells |-> scope,
                 checks |-> checks, entities |-> base.entities, baseline |-> b,
                 made |-> base.made, inputs |-> Setup!Now, torn |-> torn]
<1>3. /\ IsFiniteSet(base.cells)
      /\ base.cells = Setup!Cells(Setup!PromptsOf(base.cells),
                                  Setup!ProvidersOf(base.cells), 1)
  BY <1>1 DEF SetupIInv, PlansOK, PlanOK, Product
<1> HIDE DEF base
<1>4. scope \subseteq base.cells
  BY DEF Setup!Scopes
<1>5. \A cell \in base.cells : [cell EXCEPT !.observation = 1] = cell
  BY <1>3, CellsAreProduct
<1>6. {[cell EXCEPT !.observation = 1] : cell \in scope} \subseteq base.cells
  BY <1>4, <1>5
<1>7. IsFiniteSet(scope) /\ checks = Cardinality(scope)
  BY <1>3, <1>4, FS_Subset, SetupCounts
<1> HIDE DEF checks
<1>8. /\ x.type = "VERIFICATION" /\ x.cells = scope /\ x.checks = checks
      /\ x.entities = base.entities /\ x.baseline = b
      /\ x = [type |-> x.type, stage |-> x.stage, cells |-> x.cells, checks |-> x.checks,
              entities |-> x.entities, baseline |-> x.baseline, made |-> x.made,
              inputs |-> x.inputs, torn |-> x.torn]
  OBVIOUS
<1> HIDE DEF x
<1>9. PlanOK(x)
  BY <1>7, <1>8 DEF PlanOK
<1>10. RepeatsOf(x, base)
  BY <1>6, <1>8 DEF RepeatsOf
<1>11. planned[x.baseline] = base /\ x.baseline \in DOMAIN planned
  BY <1>8 DEF base
<1> QED
  BY <1>1, <1>2, <1>9, <1>10, <1>11, PlanScanStep DEF x, checks

-----------------------------------------------------------------------------
(* A project is never deleted. *)
LEMMA ProjectStays ==
    ASSUME Setup!SetupAssumption, SetupIInv, Setup!Next PROVE NothingYet'
<1>0. None \notin Setup!Project
  BY DEF Setup!SetupAssumption
<1>1. ASSUME NEW i \in Identity, NEW ks \in SUBSET Keyword, NEW cs \in SUBSET Competitor,
             NEW ps \in SUBSET Provider, Setup!Onboard(i, ks, cs, ps)
      PROVE  NothingYet'
  <2>1. project' \in Setup!Project
    BY <1>1 DEF Setup!Onboard, Setup!Project
  <2> QED
    BY <1>0, <2>1 DEF NothingYet
<1>2. CASE project # None /\ Setup!Edit
  <2>1. project' = project \/ project' \in Setup!Project
    <3> USE <1>2, ProjectKept DEF SetupIInv
    <3>1. CASE \E i \in Identity : Setup!UpdateProject(i)
      BY <3>1 DEF Setup!UpdateProject
    <3>2. CASE \E status \in {"ACTIVE", "PAUSED", "ARCHIVED"} : Setup!SetStatus(status)
      BY <3>2 DEF Setup!SetStatus
    <3>3. CASE \E ks \in SUBSET Keyword : Setup!AddKeywords(ks)
      BY <3>3 DEF Setup!AddKeywords
    <3>4. CASE \E k \in Keyword, status \in {"active", "inactive"} :
                  Setup!UpdateKeyword(k, status)
      BY <3>4 DEF Setup!UpdateKeyword
    <3>5. CASE \E c \in Competitor : Setup!AddCompetitor(c)
      BY <3>5 DEF Setup!AddCompetitor
    <3>6. CASE \E c \in Competitor, on \in BOOLEAN, name \in Names :
                  Setup!UpdateCompetitor(c, on, name)
      BY <3>6 DEF Setup!UpdateCompetitor
    <3>7. CASE \E r \in Remover : Setup!RemoveWrites(r)
      <4>1. PICK r \in Remover : Setup!RemoveWrites(r)
        BY <3>7
      <4>2. /\ project' = [project EXCEPT !.revision = removing[r].revision + 1]
            /\ removing[r].revision \in Nat
        BY <4>1 DEF Setup!RemoveWrites, Setup!TypeOK
      <4> QED
        BY <4>2
    <3>8. CASE \E r \in Remover, x \in Keyword \cup Competitor : Setup!RemoveLoads(r, x)
      BY <3>8 DEF Setup!RemoveLoads
    <3>9. CASE \/ \E w \in Putter : Setup!PutReplaces(w)
                                       \/ \E ps \in SUBSET Provider : Setup!PutLists(w, ps)
               \/ \E p \in Plans : Setup!ChangePlan(p)
               \/ Setup!Regenerate \/ Setup!NewGenerator
      BY <3>9 DEF Setup!PutReplaces, Setup!PutLists, Setup!ChangePlan, Setup!Regenerate,
                  Setup!NewGenerator
    <3> QED
      BY <3>1, <3>2, <3>3, <3>4, <3>5, <3>6, <3>7, <3>8, <3>9 DEF Setup!Edit
  <2> QED
    BY <1>0, <1>2, <2>1 DEF NothingYet
<1>3. CASE project # None /\ Setup!Scan
  <2>1. project' = project
    BY <1>3 DEF Setup!Scan, Setup!CreateStandard, Setup!CreateConfidence,
                Setup!CreateVerification, Setup!PlanScan, Setup!ScanEnds
  <2> QED
    BY <1>3, <2>1 DEF NothingYet
<1> QED
  BY <1>1, <1>2, <1>3 DEF Setup!Next

(* Every step keeps SetupIInv, from the first, which makes the project.    *)
LEMMA SetupStep ==
    ASSUME Setup!SetupAssumption, SetupIInv, NothingYet, [Setup!Next]_(Setup!vars)
    PROVE  SetupIInv' /\ NothingYet'
<1>1. CASE UNCHANGED Setup!vars
  <2>1. UNCHANGED <<project, keywords, competitors, enabled, plan, promptSet, planned,
                    removing, putting, torn>>
    BY <1>1 DEF Setup!vars
  <2>2. FreshIsNow'
    BY <2>1 DEF SetupIInv, FreshIsNow, Asks, Setup!Now, Setup!Inputs
  <2>3. Setup!TypeOK'
    BY <2>1, ScansTyped DEF SetupIInv, Setup!TypeOK
  <2>4. NothingYet'
    BY <2>1 DEF NothingYet
  <2> QED
    BY <2>1, <2>2, <2>3, <2>4, PlansRest DEF SetupIInv
<1>2. CASE Setup!Next
  <2>1. NothingYet'
    BY <1>2, ProjectStays
  <2>2. ASSUME NEW i \in Identity, NEW ks \in SUBSET Keyword, NEW cs \in SUBSET Competitor,
               NEW ps \in SUBSET Provider, Setup!Onboard(i, ks, cs, ps)
        PROVE  SetupIInv'
    BY <2>2, OnboardStep
  <2>3. CASE project # None /\ Setup!Edit
    <3>1. ASSUME NEW i \in Identity, Setup!UpdateProject(i) PROVE SetupIInv'
      BY <2>3, <3>1, UpdateProjectStep
    <3>2. ASSUME NEW status \in {"ACTIVE", "PAUSED", "ARCHIVED"}, Setup!SetStatus(status)
          PROVE  SetupIInv'
      BY <2>3, <3>2, SetStatusStep
    <3>3. CASE \E ks \in SUBSET Keyword : Setup!AddKeywords(ks)
      BY <2>1, <2>3, <3>3, KeywordStep
    <3>4. CASE \E k \in Keyword, status \in {"active", "inactive"} :
                  Setup!UpdateKeyword(k, status)
      BY <2>1, <2>3, <3>4, KeywordStep
    <3>5. ASSUME NEW c \in Competitor, Setup!AddCompetitor(c) PROVE SetupIInv'
      BY <2>3, <3>5, AddCompetitorStep
    <3>6. ASSUME NEW c \in Competitor, NEW on \in BOOLEAN, NEW name \in Names,
                 Setup!UpdateCompetitor(c, on, name)
          PROVE  SetupIInv'
      BY <2>3, <3>6, UpdateCompetitorStep
    <3>7. ASSUME NEW r \in Remover, Setup!RemoveWrites(r) PROVE SetupIInv'
      BY <2>3, <3>7, RemoveWritesStep
    <3>8. ASSUME NEW r \in Remover, NEW x \in Keyword \cup Competitor,
                 Setup!RemoveLoads(r, x)
          PROVE  SetupIInv'
      BY <2>3, <3>8, RemoveLoadsStep
    <3>9. ASSUME NEW w \in Putter,
                 Setup!PutReplaces(w) \/ \E ps \in SUBSET Provider : Setup!PutLists(w, ps)
          PROVE  SetupIInv'
      BY <2>3, <3>9, PutStep
    <3>10. ASSUME NEW p \in Plans, Setup!ChangePlan(p) PROVE SetupIInv'
      BY <2>3, <3>10, ChangePlanStep
    <3>11. CASE Setup!Regenerate \/ Setup!NewGenerator
      BY <2>1, <2>3, <3>11, RegenerateStep, NewGeneratorStep
    <3> QED
      BY <2>1, <2>3, <3>1, <3>2, <3>3, <3>4, <3>5, <3>6, <3>7, <3>8, <3>9, <3>10, <3>11
         DEF Setup!Edit
  <2>4. CASE project # None /\ Setup!Scan
    <3>1. CASE Setup!CreateStandard
      BY <2>1, <2>4, <3>1, CreateStandardStep
    <3>2. ASSUME NEW b \in DOMAIN planned, Setup!CreateVerification(b) PROVE SetupIInv'
      BY <2>4, <3>2, CreateVerificationStep
    <3>3. ASSUME NEW b \in DOMAIN planned, Setup!ScanEnds(b) PROVE SetupIInv'
      BY <2>4, <3>3, ScanEndsStep
    <3>4. ASSUME NEW b \in DOMAIN planned, NEW n \in Repeats, Setup!CreateConfidence(b, n)
          PROVE  SetupIInv'
      BY <2>4, <3>4, CreateConfidenceStep
    <3> QED
      BY <2>1, <2>4, <3>1, <3>2, <3>3, <3>4 DEF Setup!Scan
  <2> QED
    BY <1>2, <2>1, <2>2, <2>3, <2>4 DEF Setup!Next
<1> QED
  BY <1>1, <1>2

(* The inductive invariant implies that a plan matches its inputs.         *)
LEMMA MatchesRight == ASSUME PlansOK PROVE Setup!PlanMatchesInputs
BY DEF PlansOK, PlanOK, Asks, Setup!PlanMatchesInputs

(* The inductive invariant implies that a scan with a baseline measures    *)
(* it.                                                                     *)
LEMMA MeasuresRight == ASSUME PlansOK PROVE Setup!MeasuresBaseline
BY SetupCounts DEF PlansOK, PlanOK, RepeatsOf, Setup!MeasuresBaseline

-----------------------------------------------------------------------------
(* Metrics.  A rate is a percentage rounded to four decimals: a larger     *)
(* part is no smaller a rate, and of up to a million counts a larger one.  *)

(* The instance's counts are the library's. *)
LEMMA MetricCounts ==
    \A S : /\ Metric!Cardinality(S) = Cardinality(S)
           /\ Metric!IsFiniteSet(S) <=> IsFiniteSet(S)
BY DEF Metric!Cardinality, Cardinality, Metric!IsFiniteSet, IsFiniteSet

(* What the quotient of integers is. *)
LEMMA Quotient ==
    ASSUME NEW x \in Nat, NEW y \in Nat \ {0}
    PROVE  /\ x \div y \in Nat
           /\ (x \div y) * y <= x
           /\ x < (x \div y) * y + y
<1>1. x \div y \in Nat
  OBVIOUS
<1>2. x = (x \div y) * y + (x % y) /\ x % y \in 0 .. y - 1
  OBVIOUS
<1> DEFINE q == x \div y
           r == x % y
<1> HIDE DEF q, r
<1>3. q \in Nat /\ x = q * y + r /\ r \in 0 .. y - 1
  BY <1>1, <1>2 DEF q, r
<1>4. q * y \in Nat
  BY <1>3
<1>5. q * y <= x /\ x < q * y + y
  BY <1>3, <1>4
<1> QED
  BY <1>1, <1>5 DEF q

(* A larger part is no smaller percentage. *)
LEMMA PctGrows ==
    ASSUME NEW a \in Nat, NEW b \in Nat \ {0}, NEW c \in Nat, NEW d \in Nat \ {0},
           a * d <= c * b
    PROVE  /\ Metric!Pct(a, b) \in Nat /\ Metric!Pct(c, d) \in Nat
           /\ Metric!Pct(a, b) <= Metric!Pct(c, d)
<1> DEFINE x == 2000000 * a + b
           z == 2000000 * c + d
           y == 2 * b
           w == 2 * d
           p == x \div y
           q == z \div w
<1>1. Metric!Pct(a, b) = p /\ Metric!Pct(c, d) = q
  BY DEF Metric!Pct
<1>2. x \in Nat /\ z \in Nat /\ y \in Nat \ {0} /\ w \in Nat \ {0}
  OBVIOUS
<1> HIDE DEF x, z, y, w
<1>3. p \in Nat /\ q \in Nat /\ p * y <= x /\ z < q * w + w
  BY <1>2, Quotient
<1> HIDE DEF p, q
<1> USE DEF x, z, y, w
<1>4. ASSUME p >= q + 1 PROVE FALSE
  <2>1. (p * (2 * b)) * d <= x * d
    BY <1>2, <1>3
  <2>2. z * b < (q * (2 * d) + 2 * d) * b
    BY <1>2, <1>3
  <2>3. (q * (2 * d) + 2 * d) * b = (q + 1) * (2 * (b * d))
    BY <1>3
  <2>4. (p * (2 * b)) * d = p * (2 * (b * d))
    BY <1>3
  <2> DEFINE k == 2 * (b * d)
  <2>5. k \in Nat
    OBVIOUS
  <2> HIDE DEF k
  <2>6. (q + 1) * k <= p * k
    BY <1>3, <1>4, <2>5
  <2>7. x * d = 2000000 * (a * d) + b * d /\ z * b = 2000000 * (c * b) + b * d
    OBVIOUS
  <2>8. a * d \in Nat /\ c * b \in Nat /\ b * d \in Nat
    OBVIOUS
  <2>9. x * d <= z * b
    BY <2>7, <2>8
  <2>10. x * d \in Nat /\ z * b \in Nat /\ (q + 1) * k \in Nat /\ p * k \in Nat
    BY <1>3, <2>5
  <2>11. p * k <= x * d /\ z * b < (q + 1) * k
    BY <2>1, <2>2, <2>3, <2>4 DEF k
  <2> HIDE DEF x, z
  <2> QED
    BY <2>6, <2>9, <2>10, <2>11
<1> QED
  BY <1>1, <1>3, <1>4

(* Counts out of one million or fewer are told apart. *)
LEMMA PctTellsApart ==
    ASSUME NEW a \in Nat, NEW c \in Nat, NEW n \in Nat \ {0}, n <= 1000000, a < c
    PROVE  Metric!Pct(a, n) < Metric!Pct(c, n)
<1> DEFINE x == 2000000 * a + n
           z == 2000000 * c + n
           y == 2 * n
           p == x \div y
           q == z \div y
<1>1. Metric!Pct(a, n) = p /\ Metric!Pct(c, n) = q
  BY DEF Metric!Pct
<1>2. x \in Nat /\ z \in Nat /\ y \in Nat \ {0} /\ x + y <= z
  OBVIOUS
<1> HIDE DEF x, y, z
<1>3. /\ p \in Nat /\ p * y <= x
      /\ q \in Nat /\ z < q * y + y
  BY <1>2, Quotient
<1> HIDE DEF p, q
<1>4. ASSUME p >= q PROVE FALSE
  <2>1. q * y <= p * y
    BY <1>2, <1>3, <1>4
  <2>2. p * y \in Nat /\ q * y \in Nat
    BY <1>2, <1>3
  <2> QED
    BY <1>2, <1>3, <2>1, <2>2
<1> QED
  BY <1>1, <1>3, <1>4

(* Numbers are well ordered. *)
LEMMA LeastNat ==
    ASSUME NEW S, S \subseteq Nat, S # {} PROVE \E n \in S : \A m \in S : n <= m
<1> DEFINE R == OpToRel(<, Nat)
<1>1. IsWellFoundedOn(R, Nat)
  BY NatLessThanWellFounded
<1>2. \A x, y \in Nat : x < y => <<x, y>> \in R
  BY DEF OpToRel
<1> HIDE DEF R
<1>3. PICK n \in S : \A m \in S : ~(<<m, n>> \in R)
  BY <1>1, WFMin
<1>4. n \in Nat /\ \A m \in S : m \in Nat /\ ~(m < n)
  BY <1>2, <1>3, Zenon
<1> QED
  BY <1>4

(* What holds of every round holds of all of them together: a shortest     *)
(* list of rounds it does not hold of would have a last one.               *)
LEMMA SumOfRounds ==
    ASSUME NEW U, IsFiniteSet(U), U # {}, NEW X \in SUBSET U, NEW Y \in SUBSET U,
           NEW x \in Nat, NEW y \in Nat,
           \A c \in U : x * Cardinality({d \in X : d.round = c.round})
                           < y * Cardinality({d \in Y : d.round = c.round})
    PROVE  x * Cardinality(X) < y * Cardinality(Y)
<1> DEFINE Slice(S, c) == {d \in S : d.round = c.round}
           Lower(V) == x * Cardinality(X \cap V) < y * Cardinality(Y \cap V)
           Closed(V) == \A c \in V, d \in U : d.round = c.round => d \in V
           Bad(V) == Closed(V) /\ V # {} /\ ~Lower(V)
           bad == {k \in Nat : \E V \in SUBSET U : Cardinality(V) = k /\ Bad(V)}
<1>1. \A S \in SUBSET U : IsFiniteSet(S) /\ Cardinality(S) \in Nat
  BY FS_Subset, FS_CardinalityType
<1>2. ASSUME bad # {} PROVE FALSE
  <2>1. PICK k \in bad : \A m \in bad : k <= m
    BY <1>2, LeastNat
  <2>2. PICK V \in SUBSET U : Cardinality(V) = k /\ Bad(V)
    BY <2>1
  <2>3. PICK c \in V : TRUE
    BY <2>2
  <2> DEFINE W == V \ Slice(U, c)
  <2>4. W \in SUBSET U /\ W \subseteq V /\ c \in V /\ c \notin W
    BY <2>3
  <2>5. Cardinality(W) < Cardinality(V)
    <3>1. W # V
      BY <2>4
    <3>2. IsFiniteSet(V)
      BY <1>1
    <3>3. W \in SUBSET V /\ Cardinality(W) \in Nat /\ Cardinality(V) \in Nat
      BY <1>1, <2>4
    <3> HIDE DEF W
    <3>4. Cardinality(W) <= Cardinality(V) /\ (Cardinality(V) = Cardinality(W) => V = W)
      BY <3>2, <3>3, FS_Subset
    <3>5. Cardinality(V) # Cardinality(W)
      BY <3>1, <3>4, Zenon
    <3> DEFINE v == Cardinality(V)
               w == Cardinality(W)
    <3>6. v \in Nat /\ w \in Nat /\ w <= v /\ v # w
      BY <3>3, <3>4, <3>5
    <3> HIDE DEF v, w
    <3>7. w < v
      BY <3>6
    <3> QED
      BY <3>7 DEF v, w
  <2>6. Closed(W)
    BY <2>2
  <2>7. /\ X \cap V = (X \cap W) \cup Slice(X, c) /\ (X \cap W) \cap Slice(X, c) = {}
        /\ Y \cap V = (Y \cap W) \cup Slice(Y, c) /\ (Y \cap W) \cap Slice(Y, c) = {}
    BY <2>2, <2>3
  <2>8. x * Cardinality(Slice(X, c)) < y * Cardinality(Slice(Y, c))
    BY <2>3
  <2>9. /\ Slice(X, c) \in SUBSET U /\ Slice(Y, c) \in SUBSET U
        /\ X \cap W \in SUBSET U /\ Y \cap W \in SUBSET U
        /\ X \cap V \in SUBSET U /\ Y \cap V \in SUBSET U
    OBVIOUS
  <2>10. ~(Cardinality(W) \in bad)
    <3>1. Cardinality(V) = k /\ Cardinality(W) \in Nat /\ Cardinality(V) \in Nat
      BY <1>1, <2>2, <2>4
    <3> HIDE DEF bad
    <3> QED
      BY <2>1, <2>5, <3>1
  <2>11. W = {} \/ Lower(W)
    BY <1>1, <2>4, <2>6, <2>10
  <2> DEFINE xs == Cardinality(Slice(X, c))
             ys == Cardinality(Slice(Y, c))
             xw == Cardinality(X \cap W)
             yw == Cardinality(Y \cap W)
  <2>12. xs \in Nat /\ ys \in Nat /\ xw \in Nat /\ yw \in Nat
    BY <1>1, <2>9
  <2>13. /\ Cardinality(X \cap V) = xw + xs
         /\ Cardinality(Y \cap V) = yw + ys
    <3>1. \A S \in SUBSET U, T \in SUBSET U : S \cap T = {} =>
             Cardinality(S \cup T) = Cardinality(S) + Cardinality(T)
      <4> SUFFICES ASSUME NEW S \in SUBSET U, NEW T \in SUBSET U, S \cap T = {}
                   PROVE  Cardinality(S \cup T) = Cardinality(S) + Cardinality(T)
        OBVIOUS
      <4>1. Cardinality(S \cup T)
               = Cardinality(S) + Cardinality(T) - Cardinality(S \cap T)
        BY <1>1, FS_Union
      <4>2. Cardinality(S \cap T) = 0
        BY FS_EmptySet
      <4> QED
        BY <1>1, <4>1, <4>2
    <3> HIDE DEF W, Slice
    <3> QED
      BY <2>7, <2>9, <3>1
  <2>14. W = {} => xw = 0 /\ yw = 0
    <3>1. W = {} => X \cap W = {} /\ Y \cap W = {}
      OBVIOUS
    <3>2. Cardinality({}) = 0
      BY FS_EmptySet
    <3> QED
      BY <3>1, <3>2
  <2>15. W = {} \/ x * xw < y * yw
    BY <2>11
  <2> HIDE DEF xs, ys, xw, yw, W
  <2>16. x * (xw + xs) = x * xw + x * xs /\ y * (yw + ys) = y * yw + y * ys
    BY <2>12
  <2>17. x * xw \in Nat /\ x * xs \in Nat /\ y * yw \in Nat /\ y * ys \in Nat
    BY <2>12
  <2>18. x * xs < y * ys
    BY <2>8 DEF xs, ys
  <2>19. x * xw <= y * yw
    BY <2>14, <2>15, <2>17
  <2>20. x * (xw + xs) < y * (yw + ys)
    BY <2>16, <2>17, <2>18, <2>19
  <2> QED
    BY <2>2, <2>13, <2>20
<1>3. U \in SUBSET U /\ Cardinality(U) \in Nat /\ Closed(U)
  BY <1>1
<1>4. ~Bad(U)
  BY <1>2, <1>3
<1>5. X \cap U = X /\ Y \cap U = Y
  OBVIOUS
<1> QED
  BY <1>3, <1>4, <1>5

(* Some round is no better, and some no worse, than all of them together. *)
InRound(S, c) == {d \in S : d.round = c.round}

LEMMA SomeRounds ==
    ASSUME NEW G, IsFiniteSet(G), G # {}, NEW N \in SUBSET G
    PROVE  /\ \E c \in G : Cardinality(InRound(N, c)) * Cardinality(G)
                              <= Cardinality(N) * Cardinality(InRound(G, c))
           /\ \E c \in G : Cardinality(N) * Cardinality(InRound(G, c))
                              <= Cardinality(InRound(N, c)) * Cardinality(G)
<1> USE DEF InRound
<1> DEFINE Of(S, c) == Cardinality(InRound(S, c))
           n == Cardinality(N)
           g == Cardinality(G)
<1>1. n \in Nat /\ g \in Nat
  BY FS_Subset, FS_CardinalityType
<1>2. \A c \in G : Of(N, c) \in Nat /\ Of(G, c) \in Nat
  BY FS_Subset, FS_CardinalityType
<1>3. ASSUME \A c \in G : n * Of(G, c) < g * Of(N, c) PROVE FALSE
  <2>1. n * g < g * n
    BY <1>1, <1>3, SumOfRounds
  <2> QED
    BY <1>1, <2>1
<1>4. ASSUME \A c \in G : g * Of(N, c) < n * Of(G, c) PROVE FALSE
  <2>1. g * n < n * g
    BY <1>1, <1>4, SumOfRounds
  <2> QED
    BY <1>1, <2>1
<1> HIDE DEF Of, n, g
<1>5. PICK c \in G : ~(n * Of(G, c) < g * Of(N, c))
  BY <1>3
<1>6. PICK d \in G : ~(g * Of(N, d) < n * Of(G, d))
  BY <1>4
<1>7. Of(N, c) * g <= n * Of(G, c)
  BY <1>1, <1>2, <1>5
<1>8. n * Of(G, d) <= Of(N, d) * g
  BY <1>1, <1>2, <1>6
<1> QED
  BY <1>7, <1>8 DEF Of, n, g

-----------------------------------------------------------------------------
(* What is there to measure: a finite plan, small enough for its rates. *)
Shown ==
    /\ IsFiniteSet(DOMAIN observed)
    /\ IsFiniteSet(Metric!Entity)
    /\ Cardinality(DOMAIN observed) * Cardinality(Metric!Entity) <= 1000000
    /\ \A cell \in DOMAIN observed : cell.provider # None
    /\ None \notin Int

(* That is what MetricAssumption says of a scan that is tried. *)
LEMMA TypedIsShown ==
    ASSUME Metric!MetricAssumption, Metric!TypeOK, observed # None PROVE Shown
BY MetricCounts DEF Metric!MetricAssumption, Metric!TypeOK, Shown

(* The cells at a provider are those the filter on it leaves. *)
LEMMA AtProvider ==
    ASSUME NEW type, NEW p, p # None
    PROVE  LET cells == Metric!InScope(observed, type, p) IN
           /\ cells = {cell \in DOMAIN observed :
                          cell.provider = p /\ Prompt[cell.prompt].type = type}
           /\ cells = {cell \in Metric!InScope(observed, type, None) : cell.provider = p}
           /\ cells \subseteq DOMAIN observed
           /\ \A cell \in cells : cell.provider = p
BY DEF Metric!InScope

(* The rates of a provider are those of the filter on it. *)
LEMMA ShownIsFiltered ==
    ASSUME NEW type, NEW p, p # None
    PROVE  LET brand == Metric!EntityMetric(observed, type, p, "brand") IN
           Metric!ProviderBreakdown(observed, type, p)
              = [coverage |-> brand.coverage, visibility |-> brand.visibility,
                 citation |-> brand.citation]
<1> DEFINE cells == Metric!InScope(observed, type, p)
           good == Metric!Good(observed, cells)
           brand == Metric!EntityMetric(observed, type, p, "brand")
<1>1. cells = {cell \in DOMAIN observed :
                  cell.provider = p /\ Prompt[cell.prompt].type = type}
  BY AtProvider
<1>2. Metric!Naming(observed, DOMAIN observed, "brand") \cap good
         = Metric!Naming(observed, cells, "brand")
  BY <1>1 DEF Metric!Naming, Metric!Good
<1>3. {cell \in DOMAIN observed : "brand" \in observed[cell].cited} \cap Metric!Grounded(good)
         = Metric!Citing(observed, cells, "brand")
  BY <1>1 DEF Metric!Citing, Metric!Grounded, Metric!Good
<1>4. /\ brand.coverage = Metric!Share(good, cells)
      /\ brand.visibility = Metric!Share(Metric!Naming(observed, cells, "brand"), good)
      /\ brand.citation = Metric!Share(Metric!Citing(observed, cells, "brand"),
                                       Metric!Grounded(good))
  BY DEF Metric!EntityMetric
<1> HIDE DEF cells, brand
<1>5. Metric!ProviderBreakdown(observed, type, p)
         = [coverage |-> Metric!Share(good, cells),
            visibility |-> Metric!Share(Metric!Naming(observed, DOMAIN observed, "brand") \cap good,
                                        good),
            citation |-> Metric!Share({cell \in DOMAIN observed : "brand" \in observed[cell].cited}
                                          \cap Metric!Grounded(good),
                                      Metric!Grounded(good))]
  BY <1>1 DEF Metric!ProviderBreakdown
<1> QED
  BY <1>2, <1>3, <1>4, <1>5 DEF brand

(* As many pairs with one second component as there are first ones. *)
LEMMA Tagged ==
    ASSUME NEW S, IsFiniteSet(S), NEW p
    PROVE  Cardinality({<<s, p>> : s \in S}) = Cardinality(S)
<1>1. IsFiniteSet({p}) /\ Cardinality({p}) = 1
  BY FS_Singleton
<1>2. {<<s, p>> : s \in S} = S \X {p}
  OBVIOUS
<1>3. Cardinality(S \X {p}) = Cardinality(S) * Cardinality({p}) /\ Cardinality(S) \in Nat
  BY <1>1, FS_Product, FS_CardinalityType
<1>4. Cardinality(S) * 1 = Cardinality(S)
  BY <1>3
<1>5. Cardinality(S \X {p}) = Cardinality(S)
  BY <1>1, <1>3, <1>4, Zenon
<1> QED
  BY <1>2, <1>5, Zenon

(* Repeats at one provider are repeats of a prompt. *)
LEMMA RepeatsOfPrompt ==
    ASSUME NEW p, NEW cells, IsFiniteSet(cells), \A cell \in cells : cell.provider = p,
           NEW named, named = Metric!Naming(observed, cells, "brand")
    PROVE  LET prompts == {cell.prompt : cell \in cells}
               good == Metric!Good(observed, cells)
               Of(prompt) == {cell \in good : cell.prompt = prompt}
               analyzable == {prompt \in prompts : Metric!Cardinality(Of(prompt)) >= 2}
               stable == {prompt \in analyzable : (named \cap Of(prompt)) \in {{}, Of(prompt)}}
           IN /\ Metric!Share(analyzable, prompts) = Metric!Sufficiency(observed, cells)
              /\ Metric!Share(stable, analyzable)
                    = Metric!Stability(observed, cells, {"brand"})
<1> DEFINE prompts == {cell.prompt : cell \in cells}
           good == Metric!Good(observed, cells)
           Of(prompt) == {cell \in good : cell.prompt = prompt}
           analyzable == {prompt \in prompts : Metric!Cardinality(Of(prompt)) >= 2}
           stable == {prompt \in analyzable : (named \cap Of(prompt)) \in {{}, Of(prompt)}}
           Tag(S) == {<<s, p>> : s \in S}
<1>1. IsFiniteSet(prompts)
  <2> DEFINE f == [cell \in cells |-> cell.prompt]
  <2>1. f \in Surjection(cells, prompts)
    BY DEF Surjection
  <2> HIDE DEF f, prompts
  <2> QED
    BY <2>1, FS_Surjection
<1>2. IsFiniteSet(analyzable) /\ IsFiniteSet(stable)
  <2>1. analyzable \in SUBSET prompts /\ stable \in SUBSET prompts
    OBVIOUS
  <2> HIDE DEF analyzable, stable, prompts
  <2> QED
    BY <1>1, <2>1, FS_Subset
<1>3. \A prompt : Metric!RepeatsOf(observed, cells, <<prompt, p>>) = Of(prompt)
  BY DEF Metric!RepeatsOf, Metric!Good, Metric!Measured
<1>4. Metric!MeasuredCells(cells) = Tag(prompts)
  BY DEF Metric!MeasuredCells, Metric!Measured
<1>5. Metric!Analyzable(observed, cells) = Tag(analyzable)
  BY <1>3, <1>4 DEF Metric!Analyzable
<1>6. Metric!StableCells(observed, cells, {"brand"}) = Tag(stable)
  BY <1>3, <1>5 DEF Metric!StableCells, Metric!Agrees
<1>7. /\ Metric!Cardinality(Tag(prompts)) = Metric!Cardinality(prompts)
      /\ Metric!Cardinality(Tag(analyzable)) = Metric!Cardinality(analyzable)
      /\ Metric!Cardinality(Tag(stable)) = Metric!Cardinality(stable)
  <2> HIDE DEF prompts, analyzable, stable
  <2> QED
    BY <1>1, <1>2, MetricCounts, Tagged
<1> QED
  BY <1>4, <1>5, <1>6, <1>7 DEF Metric!Sufficiency, Metric!Stability, Metric!Share

(* The reliability of a provider is that of the brand, filtered on it. *)
LEMMA ReliabilityIsFiltered ==
    ASSUME Shown, NEW type, NEW p, p # None, NEW n
    PROVE  Metric!ProviderReliability(observed, type, p, n)
              = Metric!EntityReliability(observed, type, p, "brand", n)
<1> DEFINE scope == Metric!InScope(observed, type, None)
           cells == {cell \in scope : cell.provider = p}
           good == Metric!Good(observed, cells)
           prompts == {cell.prompt : cell \in cells}
           Of(prompt) == {cell \in good : cell.prompt = prompt}
           analyzable == {prompt \in prompts : Metric!Cardinality(Of(prompt)) >= 2}
           named == Metric!NamedHere(observed, cells, scope)
           stable == {prompt \in analyzable : (named \cap Of(prompt)) \in {{}, Of(prompt)}}
           At(i) == {cell \in good : cell.round = i}
           valid == {i \in Metric!Rounds(cells) : At(i) # {}}
           seen == {Metric!Share(named \cap At(i), At(i)) : i \in valid}
<1>1. /\ cells = Metric!InScope(observed, type, p)
      /\ cells \subseteq DOMAIN observed
      /\ \A cell \in cells : cell.provider = p
  BY AtProvider
<1>2. named = Metric!Naming(observed, cells, "brand")
  BY <1>1 DEF Metric!NamedHere, Metric!Naming, Metric!Good
<1>3. IsFiniteSet(cells)
  BY <1>1, FS_Subset DEF Shown
<1>4. /\ Metric!Share(analyzable, prompts) = Metric!Sufficiency(observed, cells)
      /\ Metric!Share(stable, analyzable) = Metric!Stability(observed, cells, {"brand"})
  <2> HIDE DEF cells, named
  <2> QED
    BY <1>1, <1>2, <1>3, RepeatsOfPrompt
<1>5. \A i : /\ At(i) = Metric!Good(observed, Metric!Round(cells, i))
             /\ named \cap At(i) = Metric!Naming(observed, Metric!Round(cells, i), "brand")
  BY <1>2 DEF Metric!Good, Metric!Round, Metric!Naming
<1>6. valid = Metric!ValidRounds(observed, cells)
  BY <1>5 DEF Metric!ValidRounds
<1>7. seen = Metric!RoundVisibility(observed, cells, "brand")
  <2> HIDE DEF valid, At, named
  <2>1. \A i : Metric!Share(named \cap At(i), At(i))
                  = Metric!Share(Metric!Naming(observed, Metric!Round(cells, i), "brand"),
                                 Metric!Good(observed, Metric!Round(cells, i)))
    BY <1>5
  <2> QED
    BY <1>6, <2>1 DEF Metric!RoundVisibility
<1>8. Metric!ProviderReliability(observed, type, p, n)
         = [visibility  |-> Metric!Share(named, good),
            lowest      |-> IF seen = {} THEN None ELSE Metric!Min(seen),
            highest     |-> IF seen = {} THEN None ELSE Metric!Max(seen),
            sufficiency |-> Metric!Share(analyzable, prompts),
            stability   |-> Metric!Share(stable, analyzable),
            level       |-> Metric!Level(n, Metric!Cardinality(valid), Metric!Share(good, cells),
                                         Metric!Share(analyzable, prompts),
                                         Metric!Share(stable, analyzable))]
  BY DEF Metric!ProviderReliability
<1> HIDE DEF analyzable, prompts, stable, valid, seen, named, cells
<1>9. Metric!EntityReliability(observed, type, p, "brand", n)
         = [visibility  |-> Metric!Share(named, good),
            lowest      |-> IF seen = {} THEN None ELSE Metric!Min(seen),
            highest     |-> IF seen = {} THEN None ELSE Metric!Max(seen),
            sufficiency |-> Metric!Sufficiency(observed, cells),
            stability   |-> Metric!Stability(observed, cells, {"brand"}),
            level       |-> Metric!LevelOf(observed, cells, {"brand"}, n)]
  BY <1>1, <1>2, <1>7 DEF Metric!EntityReliability
<1>10. Metric!LevelOf(observed, cells, {"brand"}, n)
          = Metric!Level(n, Metric!Cardinality(valid), Metric!Share(good, cells),
                         Metric!Sufficiency(observed, cells),
                         Metric!Stability(observed, cells, {"brand"}))
  BY <1>6 DEF Metric!LevelOf
<1> QED
  BY <1>4, <1>8, <1>9, <1>10

(* A share is a number, of a whole that has something in it. *)
LEMMA Shares ==
    ASSUME NEW S, IsFiniteSet(S), NEW T, IsFiniteSet(T)
    PROVE  /\ Metric!Share(S, T) = Metric!Pct(Cardinality(S), Cardinality(T))
           /\ T = {} => Metric!Share(S, T) = None
           /\ T # {} => Cardinality(T) \in Nat \ {0} /\ Metric!Share(S, T) \in Nat
<1>1. Cardinality(S) \in Nat /\ Cardinality(T) \in Nat /\ (Cardinality(T) = 0 <=> T = {})
  BY FS_CardinalityType, FS_EmptySet
<1>2. Metric!Share(S, T) = Metric!Pct(Cardinality(S), Cardinality(T))
  BY MetricCounts DEF Metric!Share
<1>3. T = {} => Metric!Pct(Cardinality(S), Cardinality(T)) = None
  BY <1>1 DEF Metric!Pct
<1> DEFINE s == Cardinality(S)
           t == Cardinality(T)
<1>4. ASSUME T # {} PROVE t \in Nat \ {0} /\ Metric!Pct(s, t) \in Nat
  <2>1. s \in Nat /\ t \in Nat \ {0}
    BY <1>1, <1>4
  <2> HIDE DEF s, t
  <2>2. s * t <= s * t
    BY <2>1
  <2> QED
    BY <2>1, <2>2, PctGrows
<1> QED
  BY <1>2, <1>3, <1>4

(* A larger share of one whole is a larger part. *)
LEMMA MoreOfOne ==
    ASSUME NEW S, IsFiniteSet(S), NEW R, IsFiniteSet(R), NEW T, IsFiniteSet(T), T # {},
           Metric!Share(S, T) < Metric!Share(R, T)
    PROVE  Cardinality(S) < Cardinality(R)
<1> DEFINE s == Cardinality(S)
           r == Cardinality(R)
           t == Cardinality(T)
<1>1. s \in Nat /\ r \in Nat /\ t \in Nat \ {0}
  BY FS_CardinalityType, Shares
<1>2. Metric!Share(S, T) = Metric!Pct(s, t) /\ Metric!Share(R, T) = Metric!Pct(r, t)
  BY Shares
<1> HIDE DEF s, r, t
<1>3. ASSUME r <= s PROVE FALSE
  <2>1. r * t <= s * t
    BY <1>1, <1>3
  <2>2. Metric!Pct(r, t) <= Metric!Pct(s, t) /\ Metric!Pct(r, t) \in Nat /\ Metric!Pct(s, t) \in Nat
    BY <1>1, <2>1, PctGrows
  <2> QED
    BY <1>2, <2>2
<1> QED
  BY <1>1, <1>3 DEF s, r

(* A larger part of one whole is a larger share, if the whole is small     *)
(* enough for four decimals.                                               *)
LEMMA MoreIsShown ==
    ASSUME NEW S, IsFiniteSet(S), NEW R, IsFiniteSet(R), NEW T, IsFiniteSet(T), T # {},
           Cardinality(S) < Cardinality(R), Cardinality(T) <= 1000000
    PROVE  Metric!Share(S, T) < Metric!Share(R, T)
<1> DEFINE s == Cardinality(S)
           r == Cardinality(R)
           t == Cardinality(T)
<1>1. s \in Nat /\ r \in Nat /\ t \in Nat \ {0} /\ s < r /\ t <= 1000000
  BY FS_CardinalityType, Shares
<1>2. Metric!Share(S, T) = Metric!Pct(s, t) /\ Metric!Share(R, T) = Metric!Pct(r, t)
  BY Shares
<1> HIDE DEF s, r, t
<1> QED
  BY <1>1, <1>2, PctTellsApart

(* The explanation's sets are those of the page with the same filter. *)
LEMMA SameCells ==
    ASSUME NEW p, NEW e
    PROVE  LET f == [Metric!AnyFilter EXCEPT !.provider = p]
               cells == Metric!InScope(observed, "NON_BRANDED", p)
           IN /\ Metric!Planned(observed, f) = cells
              /\ Metric!Succeeded(observed, f) = Metric!Good(observed, cells)
              /\ Metric!Eligible(observed, f) = Metric!Grounded(Metric!Good(observed, cells))
              /\ Metric!Mentioned(observed, f, e) = Metric!Naming(observed, cells, e)
              /\ Metric!Cited(observed, f, e) = Metric!Citing(observed, cells, e)
<1> DEFINE f == [Metric!AnyFilter EXCEPT !.provider = p]
           cells == Metric!InScope(observed, "NON_BRANDED", p)
<1>1. f.provider = p /\ f.prompt = None /\ f.mode = None
  BY DEF Metric!AnyFilter
<1> HIDE DEF f
<1>2. Metric!Planned(observed, f) = cells
  BY <1>1 DEF Metric!Planned, Metric!Passes, Metric!InScope
<1> HIDE DEF cells
<1>3. Metric!Succeeded(observed, f) = Metric!Good(observed, cells)
  BY <1>2 DEF Metric!Succeeded, Metric!Good
<1>4. Metric!Eligible(observed, f) = Metric!Grounded(Metric!Good(observed, cells))
  BY <1>3 DEF Metric!Eligible, Metric!Grounded
<1>5. Metric!Mentioned(observed, f, e) = Metric!Naming(observed, cells, e)
  BY <1>3 DEF Metric!Mentioned, Metric!Naming
<1>6. Metric!Cited(observed, f, e) = Metric!Citing(observed, cells, e)
  BY <1>4 DEF Metric!Cited, Metric!Citing
<1> QED
  BY <1>2, <1>3, <1>4, <1>5, <1>6 DEF f, cells

(* So its gaps are the differences of the rates shown. *)
LEMMA GapIsDifference ==
    ASSUME NEW p, NEW c
    PROVE  LET x == Metric!Explanation(observed, [Metric!AnyFilter EXCEPT !.provider = p], c)
               brand == Metric!EntityMetric(observed, "NON_BRANDED", p, "brand")
               rival == Metric!EntityMetric(observed, "NON_BRANDED", p, c)
           IN /\ x.gap = Metric!Difference(rival.visibility, brand.visibility)
              /\ x.citationGap = Metric!Difference(rival.citation, brand.citation)
              /\ x.coverage = brand.coverage
<1> DEFINE f == [Metric!AnyFilter EXCEPT !.provider = p]
           cells == Metric!InScope(observed, "NON_BRANDED", p)
           good == Metric!Good(observed, cells)
           x == Metric!Explanation(observed, f, c)
           Rate(e) == Metric!EntityMetric(observed, "NON_BRANDED", p, e)
<1>1. /\ Metric!Planned(observed, f) = cells
      /\ Metric!Succeeded(observed, f) = good
      /\ Metric!Eligible(observed, f) = Metric!Grounded(good)
      /\ \A e : /\ Metric!Mentioned(observed, f, e) = Metric!Naming(observed, cells, e)
                /\ Metric!Cited(observed, f, e) = Metric!Citing(observed, cells, e)
  BY SameCells
<1>2. \A e : /\ Rate(e).visibility = Metric!Share(Metric!Naming(observed, cells, e), good)
             /\ Rate(e).citation = Metric!Share(Metric!Citing(observed, cells, e),
                                                Metric!Grounded(good))
             /\ Rate(e).coverage = Metric!Share(good, cells)
  BY DEF Metric!EntityMetric
<1> HIDE DEF f, Rate, cells, good
<1>3. /\ x.gap = Metric!Difference(
                    Metric!Share(Metric!Mentioned(observed, f, c), Metric!Succeeded(observed, f)),
                    Metric!Share(Metric!Mentioned(observed, f, "brand"),
                                 Metric!Succeeded(observed, f)))
      /\ x.citationGap = Metric!Difference(
                    Metric!Share(Metric!Cited(observed, f, c), Metric!Eligible(observed, f)),
                    Metric!Share(Metric!Cited(observed, f, "brand"),
                                 Metric!Eligible(observed, f)))
      /\ x.coverage = Metric!Share(Metric!Succeeded(observed, f), Metric!Planned(observed, f))
  BY DEF Metric!Explanation, Metric!Share
<1> HIDE DEF x
<1>4. /\ x.gap = Metric!Difference(Rate(c).visibility, Rate("brand").visibility)
      /\ x.citationGap = Metric!Difference(Rate(c).citation, Rate("brand").citation)
      /\ x.coverage = Rate("brand").coverage
  BY <1>1, <1>2, <1>3
<1> QED
  BY <1>4 DEF Rate, x, f

(* What the pages count is finite, and small enough. *)
LEMMA ShownCounts ==
    ASSUME Shown, NEW cells \in SUBSET DOMAIN observed
    PROVE  LET good == Metric!Good(observed, cells) IN
           /\ IsFiniteSet(cells) /\ IsFiniteSet(good)
           /\ \A e : IsFiniteSet(Metric!Naming(observed, cells, e))
           /\ IsFiniteSet(Metric!Presences(observed, cells))
           /\ Cardinality(Metric!Presences(observed, cells)) <= 1000000
           /\ Metric!Presences(observed, cells) # {} => good # {}
<1> DEFINE good == Metric!Good(observed, cells)
           D == DOMAIN observed
           present == Metric!Presences(observed, cells)
<1>1. /\ good \in SUBSET D
      /\ \A e : Metric!Naming(observed, cells, e) \in SUBSET D
      /\ \A e : Metric!Naming(observed, cells, e) \subseteq good
  BY DEF Metric!Good, Metric!Naming
<1>2. present \in SUBSET (D \X Metric!Entity)
  BY <1>1 DEF Metric!Presences
<1>3. present # {} => good # {}
  BY <1>1 DEF Metric!Presences
<1>4. IsFiniteSet(D) /\ IsFiniteSet(Metric!Entity)
  BY DEF Shown
<1>5. /\ IsFiniteSet(D \X Metric!Entity)
      /\ Cardinality(D \X Metric!Entity) = Cardinality(D) * Cardinality(Metric!Entity)
  BY <1>4, FS_Product
<1>6. IsFiniteSet(present) /\ Cardinality(present) <= Cardinality(D \X Metric!Entity)
  <2> HIDE DEF present, D
  <2> QED
    BY <1>2, <1>5, FS_Subset
<1>7. Cardinality(present) <= 1000000
  <2>1. Cardinality(D \X Metric!Entity) <= 1000000
    BY <1>5 DEF Shown
  <2>2. Cardinality(present) \in Nat /\ Cardinality(D \X Metric!Entity) \in Nat
    BY <1>5, <1>6, FS_CardinalityType
  <2> HIDE DEF present, D
  <2> QED
    BY <1>6, <2>1, <2>2
<1>8. IsFiniteSet(cells) /\ IsFiniteSet(good) /\ \A e : IsFiniteSet(Metric!Naming(observed, cells, e))
  <2> HIDE DEF good
  <2> QED
    BY <1>1, <1>4, FS_Subset
<1> QED
  BY <1>3, <1>6, <1>7, <1>8

(* Who is seen more leads. *)
LEMMA MoreSeenLeads ==
    ASSUME NEW type, NEW p, NEW a, NEW b, None \notin Int,
           Metric!EntityMetric(observed, type, p, a).visibility \in Nat,
           Metric!EntityMetric(observed, type, p, b).visibility \in Nat,
           Metric!EntityMetric(observed, type, p, b).visibility
              < Metric!EntityMetric(observed, type, p, a).visibility
    PROVE  Metric!Leads(observed, type, p, a, b)
<1> DEFINE x == Metric!EntityMetric(observed, type, p, a).visibility
           y == Metric!EntityMetric(observed, type, p, b).visibility
<1>1. x \in Nat /\ y \in Nat /\ y < x /\ x # None /\ y # None
  OBVIOUS
<1>2. Metric!LeaderKey(observed, type, p, a) = <<0, - x, NameRank[a]>>
  BY <1>1 DEF Metric!LeaderKey
<1>3. Metric!LeaderKey(observed, type, p, b) = <<0, - y, NameRank[b]>>
  BY <1>1 DEF Metric!LeaderKey
<1> HIDE DEF x, y
<1>4. Metric!Before(<<0, - x, NameRank[a]>>, <<0, - y, NameRank[b]>>)
  <2> DEFINE s == <<0, - x, NameRank[a]>>
             t == <<0, - y, NameRank[b]>>
  <2>1. 2 \in DOMAIN s /\ s[2] = - x /\ t[2] = - y /\ s[1] = t[1]
    OBVIOUS
  <2>2. - x < - y
    BY <1>1
  <2>3. \A j \in 1 .. 2 - 1 : s[j] = t[j]
    BY <2>1
  <2> QED
    BY <2>1, <2>2, <2>3 DEF Metric!Before
<1> QED
  BY <1>2, <1>3, <1>4 DEF Metric!Leads

(* The leaderboard and the gap tell one story. *)
LEMMA OneStory == ASSUME Shown, NEW p, NEW c PROVE Metric!LeaderboardIsGap(p, c)
<1> DEFINE f == [Metric!AnyFilter EXCEPT !.provider = p]
           x == Metric!Explanation(observed, f, c)
           Rate(e) == Metric!EntityMetric(observed, "NON_BRANDED", p, e)
           cells == Metric!InScope(observed, "NON_BRANDED", p)
           good == Metric!Good(observed, cells)
           present == Metric!Presences(observed, cells)
           Named(e) == Metric!Naming(observed, cells, e)
<1>1. /\ x.gap = Metric!Difference(Rate(c).visibility, Rate("brand").visibility)
      /\ x.citationGap = Metric!Difference(Rate(c).citation, Rate("brand").citation)
      /\ x.coverage = Rate("brand").coverage
  BY GapIsDifference
<1>2. \A e : /\ Rate(e).visibility = Metric!Share(Named(e), good)
             /\ Rate(e).voice = Metric!Share(Named(e), present)
  BY DEF Metric!EntityMetric
<1>3. /\ IsFiniteSet(good) /\ IsFiniteSet(present) /\ \A e : IsFiniteSet(Named(e))
      /\ Cardinality(present) <= 1000000
      /\ present # {} => good # {}
  <2>1. cells \in SUBSET DOMAIN observed
    BY DEF Metric!InScope
  <2> QED
    BY <2>1, ShownCounts
<1>4. None \notin Int
  BY DEF Shown
<1>5. ASSUME good # {}
      PROVE  /\ Rate(c).visibility \in Nat /\ Rate("brand").visibility \in Nat
             /\ x.gap = Rate(c).visibility - Rate("brand").visibility
  <2> HIDE DEF good, Named, Rate, x
  <2>1. Rate(c).visibility \in Nat /\ Rate("brand").visibility \in Nat
    BY <1>2, <1>3, <1>5, Shares
  <2>2. Rate(c).visibility # None /\ Rate("brand").visibility # None
    BY <1>4, <2>1
  <2> QED
    BY <1>1, <2>1, <2>2 DEF Metric!Difference
<1>6. good = {} => x.gap = None
  <2> HIDE DEF good, Named, Rate, x
  <2>1. good = {} => Rate("brand").visibility = None
    BY <1>2, <1>3, Shares
  <2> QED
    BY <1>1, <2>1 DEF Metric!Difference
<1>7. x.gap # None /\ x.gap > 0 => Metric!Leads(observed, "NON_BRANDED", p, c, "brand")
  <2> SUFFICES ASSUME good # {}, x.gap > 0
               PROVE  Metric!Leads(observed, "NON_BRANDED", p, c, "brand")
    BY <1>6
  <2> HIDE DEF good, x
  <2>1. Rate("brand").visibility < Rate(c).visibility
    BY <1>5
  <2> QED
    BY <1>4, <1>5, <2>1, MoreSeenLeads
<1>8. x.gap # None /\ x.gap < 0 => Metric!Leads(observed, "NON_BRANDED", p, "brand", c)
  <2> SUFFICES ASSUME good # {}, x.gap < 0
               PROVE  Metric!Leads(observed, "NON_BRANDED", p, "brand", c)
    BY <1>6
  <2> HIDE DEF good, x
  <2>1. Rate(c).visibility < Rate("brand").visibility
    BY <1>5
  <2> QED
    BY <1>4, <1>5, <2>1, MoreSeenLeads
<1>9. Rate("brand").voice # None /\ x.gap > 0 => Rate("brand").voice < Rate(c).voice
  <2> SUFFICES ASSUME Rate("brand").voice # None, x.gap > 0
               PROVE  Rate("brand").voice < Rate(c).voice
    OBVIOUS
  <2> HIDE DEF good, present, Named, Rate, x
  <2>1. present # {}
    BY <1>2, <1>3, Shares
  <2>2. good # {}
    BY <1>3, <2>1
  <2>3. Rate("brand").visibility < Rate(c).visibility
    BY <1>5, <2>2
  <2>4. Cardinality(Named("brand")) < Cardinality(Named(c))
    BY <1>2, <1>3, <2>2, <2>3, MoreOfOne
  <2> QED
    BY <1>2, <1>3, <2>1, <2>4, MoreIsShown
<1> QED
  BY <1>1, <1>7, <1>8, <1>9 DEF Metric!LeaderboardIsGap

(* The part that is larger for its whole is the larger share. *)
LEMMA SharesGrow ==
    ASSUME NEW S, IsFiniteSet(S), NEW T, IsFiniteSet(T), T # {},
           NEW R, IsFiniteSet(R), NEW U, IsFiniteSet(U), U # {},
           Cardinality(S) * Cardinality(U) <= Cardinality(R) * Cardinality(T)
    PROVE  Metric!Share(S, T) <= Metric!Share(R, U)
<1> DEFINE s == Cardinality(S)
           t == Cardinality(T)
           r == Cardinality(R)
           u == Cardinality(U)
<1>1. s \in Nat /\ r \in Nat /\ t \in Nat \ {0} /\ u \in Nat \ {0} /\ s * u <= r * t
  BY FS_CardinalityType, Shares
<1>2. Metric!Share(S, T) = Metric!Pct(s, t) /\ Metric!Share(R, U) = Metric!Pct(r, u)
  BY Shares
<1> HIDE DEF s, r, t, u
<1> QED
  BY <1>1, <1>2, PctGrows

(* A part is a share of at most all. *)
LEMMA ShareOfAll ==
    ASSUME NEW T, IsFiniteSet(T), T # {}, NEW S \in SUBSET T
    PROVE  Metric!Share(S, T) \in Nat /\ Metric!Share(S, T) <= Metric!Pct(1, 1)
           /\ Metric!Pct(1, 1) \in Nat
<1> DEFINE s == Cardinality(S)
           t == Cardinality(T)
<1>1. IsFiniteSet(S) /\ s \in Nat /\ t \in Nat \ {0} /\ s <= t
  BY FS_Subset, FS_CardinalityType, Shares
<1>2. Metric!Share(S, T) = Metric!Pct(s, t)
  BY <1>1, Shares
<1> HIDE DEF s, t
<1>3. s * 1 <= 1 * t
  BY <1>1
<1>4. Metric!Pct(s, t) \in Nat /\ Metric!Pct(1, 1) \in Nat /\ Metric!Pct(s, t) <= Metric!Pct(1, 1)
  BY <1>1, <1>3, PctGrows
<1> QED
  BY <1>2, <1>4

(* The least and the greatest of some numbers bound them. *)
LEMMA Bounds ==
    ASSUME NEW S \in SUBSET Nat, S # {}, NEW top \in Nat, \A n \in S : n <= top
    PROVE  /\ Metric!Min(S) \in S /\ \A n \in S : Metric!Min(S) <= n
           /\ Metric!Max(S) \in S /\ \A n \in S : n <= Metric!Max(S)
<1>1. \E n \in S : \A m \in S : n <= m
  BY LeastNat
<1>2. \E n \in S : \A m \in S : n >= m
  <2> DEFINE R == {top - n : n \in S}
  <2>1. R \subseteq Nat /\ R # {}
    <3>1. \A n \in S : top - n \in Nat
      OBVIOUS
    <3> QED
      BY <3>1, Zenon
  <2> HIDE DEF R
  <2>2. PICK r \in R : \A m \in R : r <= m
    BY <2>1, LeastNat
  <2>3. PICK n \in S : r = top - n
    BY DEF R
  <2>4. \A m \in S : top - m \in R
    BY DEF R
  <2>5. \A m \in S : r <= top - m
    BY <2>2, <2>4
  <2> QED
    BY <2>3, <2>5
<1>3. Metric!Min(S) \in S /\ \A n \in S : Metric!Min(S) <= n
  BY <1>1 DEF Metric!Min
<1>4. Metric!Max(S) \in S /\ \A n \in S : Metric!Max(S) >= n
  BY <1>2 DEF Metric!Max
<1> QED
  BY <1>3, <1>4

(* The whole lies within its rounds. *)
LEMMA WithinRounds ==
    ASSUME Shown, NEW cells \in SUBSET DOMAIN observed, NEW e,
           NEW good, good = Metric!Good(observed, cells), good # {},
           NEW seen, seen = Metric!RoundVisibility(observed, cells, e),
           NEW whole, whole = Metric!Share(Metric!Naming(observed, cells, e), good)
    PROVE  /\ seen # {}
           /\ Metric!Min(seen) <= whole /\ whole <= Metric!Max(seen)
<1> DEFINE named == Metric!Naming(observed, cells, e)
           Rate(c) == Metric!Share(InRound(named, c), InRound(good, c))
<1>1. /\ IsFiniteSet(good) /\ IsFiniteSet(named)
  BY ShownCounts
<1>2. named \in SUBSET good
  BY DEF Metric!Naming
<1>3. \A c : /\ Metric!Good(observed, Metric!Round(cells, c.round)) = InRound(good, c)
             /\ Metric!Naming(observed, Metric!Round(cells, c.round), e) = InRound(named, c)
  BY DEF InRound, Metric!Naming, Metric!Good, Metric!Round
<1>4. \A c \in good : /\ InRound(good, c) # {} /\ IsFiniteSet(InRound(good, c))
                      /\ InRound(named, c) \in SUBSET InRound(good, c) /\ IsFiniteSet(InRound(named, c))
  <2> SUFFICES ASSUME NEW c \in good
               PROVE  /\ InRound(good, c) # {} /\ IsFiniteSet(InRound(good, c))
                      /\ InRound(named, c) \in SUBSET InRound(good, c) /\ IsFiniteSet(InRound(named, c))
    OBVIOUS
  <2>1. c \in InRound(good, c) /\ InRound(good, c) \subseteq good /\ InRound(named, c) \subseteq InRound(good, c)
    BY <1>2 DEF InRound
  <2> HIDE DEF named
  <2> QED
    BY <1>1, <2>1, FS_Subset
<1>5. \A c \in good : Rate(c) \in seen
  <2> SUFFICES ASSUME NEW c \in good PROVE Rate(c) \in seen
    OBVIOUS
  <2>1. c \in cells
    BY DEF Metric!Good
  <2>2. c.round \in Metric!ValidRounds(observed, cells)
    BY <1>3, <1>4, <2>1 DEF Metric!ValidRounds, Metric!Rounds
  <2>3. Rate(c) = Metric!Share(Metric!Naming(observed, Metric!Round(cells, c.round), e),
                               Metric!Good(observed, Metric!Round(cells, c.round)))
    BY <1>3
  <2> HIDE DEF Rate
  <2> QED
    BY <2>2, <2>3 DEF Metric!RoundVisibility
<1>6. \A r \in seen : \E c \in good : r = Rate(c)
  <2> SUFFICES ASSUME NEW r \in seen PROVE \E c \in good : r = Rate(c)
    OBVIOUS
  <2>1. PICK n \in Metric!ValidRounds(observed, cells) :
              r = Metric!Share(Metric!Naming(observed, Metric!Round(cells, n), e),
                               Metric!Good(observed, Metric!Round(cells, n)))
    BY DEF Metric!RoundVisibility
  <2>2. PICK c \in Metric!Good(observed, Metric!Round(cells, n)) : TRUE
    BY DEF Metric!ValidRounds
  <2>3. c \in good /\ c.round = n
    BY <2>2 DEF Metric!Good, Metric!Round
  <2>4. /\ Metric!Good(observed, Metric!Round(cells, n)) = InRound(good, c)
        /\ Metric!Naming(observed, Metric!Round(cells, n), e) = InRound(named, c)
    BY <1>3, <2>3
  <2> HIDE DEF named
  <2>5. r = Rate(c)
    BY <2>1, <2>4
  <2> HIDE DEF Rate
  <2> QED
    BY <2>3, <2>5
<1>7. seen \in SUBSET Nat /\ seen # {} /\ (\A r \in seen : r <= Metric!Pct(1, 1))
      /\ Metric!Pct(1, 1) \in Nat
  <2> HIDE DEF named
  <2>1. \A c \in good : Rate(c) \in Nat /\ Rate(c) <= Metric!Pct(1, 1) /\ Metric!Pct(1, 1) \in Nat
    BY <1>4, ShareOfAll
  <2> HIDE DEF Rate
  <2> QED
    BY <1>5, <1>6, <2>1
<1>8. /\ Metric!Min(seen) \in seen /\ \A r \in seen : Metric!Min(seen) <= r
      /\ Metric!Max(seen) \in seen /\ \A r \in seen : r <= Metric!Max(seen)
  BY <1>7, Bounds
<1>9. /\ \E c \in good : Cardinality(InRound(named, c)) * Cardinality(good)
                            <= Cardinality(named) * Cardinality(InRound(good, c))
      /\ \E c \in good : Cardinality(named) * Cardinality(InRound(good, c))
                            <= Cardinality(InRound(named, c)) * Cardinality(good)
  <2> HIDE DEF named
  <2> QED
    BY <1>1, <1>2, SomeRounds
<1> HIDE DEF named
<1>10. PICK c \in good : Cardinality(InRound(named, c)) * Cardinality(good)
                            <= Cardinality(named) * Cardinality(InRound(good, c))
  BY <1>9
<1>11. PICK d \in good : Cardinality(named) * Cardinality(InRound(good, d))
                            <= Cardinality(InRound(named, d)) * Cardinality(good)
  BY <1>9
<1>12. whole = Metric!Share(named, good)
  BY DEF named
<1>13. Rate(c) <= whole
  <2>1. Metric!Share(InRound(named, c), InRound(good, c)) <= Metric!Share(named, good)
    BY <1>1, <1>4, <1>10, SharesGrow
  <2> QED
    BY <1>12, <2>1
<1>14. whole <= Rate(d)
  <2>1. Metric!Share(named, good) <= Metric!Share(InRound(named, d), InRound(good, d))
    BY <1>1, <1>4, <1>11, SharesGrow
  <2> QED
    BY <1>12, <2>1
<1>15. whole \in Nat
  BY <1>1, <1>12, Shares
<1>16. Metric!Min(seen) <= Rate(c) /\ Rate(d) <= Metric!Max(seen) /\ Rate(c) \in Nat /\ Rate(d) \in Nat
       /\ Metric!Min(seen) \in Nat /\ Metric!Max(seen) \in Nat
  BY <1>5, <1>7, <1>8
<1> HIDE DEF Rate
<1> QED
  BY <1>7, <1>13, <1>14, <1>15, <1>16

(* What is asked of more entities agrees in fewer cells. *)
LEMMA MoreAskedAgreesLess ==
    ASSUME Shown, NEW cells \in SUBSET DOMAIN observed, NEW few, NEW many, few \subseteq many,
           NEW x, x = Metric!Stability(observed, cells, many),
           NEW y, y = Metric!Stability(observed, cells, few)
    PROVE  \/ x = None /\ y = None
           \/ x \in Nat /\ y \in Nat /\ x <= y
<1> DEFINE all == Metric!MeasuredCells(cells)
           whole == Metric!Analyzable(observed, cells)
           Stable(E) == Metric!StableCells(observed, cells, E)
<1>1. IsFiniteSet(all)
  <2> DEFINE f == [cell \in cells |-> Metric!Measured(cell)]
  <2>1. f \in Surjection(cells, all)
    BY DEF Surjection, Metric!MeasuredCells
  <2>2. IsFiniteSet(cells)
    BY ShownCounts
  <2> HIDE DEF f, all
  <2> QED
    BY <2>1, <2>2, FS_Surjection
<1>2. /\ whole \in SUBSET all /\ \A E : Stable(E) \in SUBSET whole
      /\ Stable(many) \in SUBSET Stable(few)
  BY DEF Metric!Analyzable, Metric!StableCells
<1>3. x = Metric!Share(Stable(many), whole) /\ y = Metric!Share(Stable(few), whole)
  BY DEF Metric!Stability
<1> HIDE DEF all, whole, Stable
<1>4. IsFiniteSet(whole) /\ IsFiniteSet(Stable(many)) /\ IsFiniteSet(Stable(few))
  BY <1>1, <1>2, FS_Subset
<1>5. CASE whole = {}
  BY <1>3, <1>4, <1>5, Shares
<1>6. CASE whole # {}
  <2>1. x \in Nat /\ y \in Nat
    BY <1>3, <1>4, <1>6, Shares
  <2> DEFINE m == Cardinality(Stable(many))
             n == Cardinality(Stable(few))
             t == Cardinality(whole)
  <2>2. m \in Nat /\ n \in Nat /\ t \in Nat /\ m <= n
    BY <1>2, <1>4, FS_Subset, FS_CardinalityType
  <2>3. m * t <= n * t
    <3> HIDE DEF m, n, t
    <3> QED
      BY <2>2
  <2>4. x <= y
    BY <1>3, <1>4, <1>6, <2>3, SharesGrow
  <2> QED
    BY <2>1, <2>4
<1> QED
  BY <1>5, <1>6

(* Where the repeats agree more, the level is no lower. *)
LEMMA LevelGrows ==
    ASSUME None \notin Int, NEW repeats, NEW valid, NEW coverage, NEW sufficiency,
           NEW x, NEW y,
           \/ x = None /\ y = None
           \/ x \in Nat /\ y \in Nat /\ x <= y
    PROVE  Metric!LevelRank[Metric!Level(repeats, valid, coverage, sufficiency, x)]
              <= Metric!LevelRank[Metric!Level(repeats, valid, coverage, sufficiency, y)]
<1> DEFINE Poor == valid < 2 \/ Metric!Below(coverage, 50) \/ Metric!Below(sufficiency, 50)
           Weak == Metric!Below(coverage, 75) \/ Metric!Below(sufficiency, 75)
           Strong == repeats >= 5 /\ Metric!From(coverage, 90) /\ Metric!From(sufficiency, 90)
           Of(s) == IF Poor THEN "INSUFFICIENT"
                    ELSE IF Weak \/ Metric!Below(s, 60) THEN "LOW"
                    ELSE IF Strong /\ Metric!From(s, 80) THEN "HIGH" ELSE "MEDIUM"
<1>1. \A s : Metric!Level(repeats, valid, coverage, sufficiency, s) = Of(s)
  BY DEF Metric!Level
<1>2. /\ Metric!Below(y, 60) => Metric!Below(x, 60)
      /\ Metric!From(x, 80) => Metric!From(y, 80)
  BY DEF Metric!Below, Metric!From
<1>3. /\ Metric!LevelRank["INSUFFICIENT"] = 0 /\ Metric!LevelRank["LOW"] = 1
      /\ Metric!LevelRank["MEDIUM"] = 2 /\ Metric!LevelRank["HIGH"] = 3
  BY DEF Metric!LevelRank
<1> HIDE DEF Poor, Weak, Strong
<1>4. Metric!LevelRank[Of(x)] <= Metric!LevelRank[Of(y)]
  BY <1>2, <1>3
<1> QED
  BY <1>1, <1>4

(* What the repeats say of an entity. *)
LEMMA SoundOfEntity ==
    ASSUME Shown, NEW type, NEW p, NEW e \in Metric!Entity
    PROVE  Metric!ReliabilityIsSound(type, p, e)
<1> DEFINE cells == Metric!InScope(observed, type, p)
           good == Metric!Good(observed, cells)
           seen == Metric!RoundVisibility(observed, cells, e)
           whole == Metric!Share(Metric!Naming(observed, cells, e), good)
           n == trial.repeats
           x == Metric!EntityReliability(observed, type, p, e, n)
           Of(E) == Metric!Stability(observed, cells, E)
           LevelAt(s) == Metric!Level(n, Metric!Cardinality(Metric!ValidRounds(observed, cells)),
                                      Metric!Share(good, cells),
                                      Metric!Sufficiency(observed, cells), s)
<1>1. cells \in SUBSET DOMAIN observed
  BY DEF Metric!InScope
<1>2. /\ x.visibility = whole
      /\ x.lowest = (IF seen = {} THEN None ELSE Metric!Min(seen))
      /\ x.highest = (IF seen = {} THEN None ELSE Metric!Max(seen))
      /\ x.level = LevelAt(Of({e}))
  BY DEF Metric!EntityReliability, Metric!LevelOf
<1>3. Metric!OverallLevel(observed, type, p, n) = LevelAt(Of(Metric!Entity))
  BY DEF Metric!OverallLevel, Metric!LevelOf
<1>4. ASSUME x.visibility # None PROVE x.lowest <= x.visibility /\ x.visibility <= x.highest
  <2> HIDE DEF x, cells
  <2>1. IsFiniteSet(good) /\ IsFiniteSet(Metric!Naming(observed, cells, e))
    BY <1>1, ShownCounts
  <2>2. good # {}
    <3> HIDE DEF good
    <3> QED
      BY <1>2, <1>4, <2>1, Shares
  <2>3. seen # {} /\ Metric!Min(seen) <= whole /\ whole <= Metric!Max(seen)
    BY <1>1, <2>2, WithinRounds
  <2> HIDE DEF seen, whole
  <2> QED
    BY <1>2, <2>3
<1>5. \/ Of(Metric!Entity) = None /\ Of({e}) = None
      \/ Of(Metric!Entity) \in Nat /\ Of({e}) \in Nat /\ Of(Metric!Entity) <= Of({e})
  <2>1. {e} \subseteq Metric!Entity
    OBVIOUS
  <2> HIDE DEF cells
  <2> QED
    BY <1>1, <2>1, MoreAskedAgreesLess
<1>6. Metric!LevelRank[LevelAt(Of(Metric!Entity))] <= Metric!LevelRank[LevelAt(Of({e}))]
  <2>1. None \notin Int
    BY DEF Shown
  <2> HIDE DEF Of, good, cells
  <2> QED
    BY <1>5, <2>1, LevelGrows
<1> HIDE DEF LevelAt, Of, x
<1> QED
  BY <1>2, <1>3, <1>4, <1>6 DEF Metric!ReliabilityIsSound, x

(* The numbers the pages show of one evidence agree. *)
LEMMA ShownAgrees == ASSUME Shown PROVE Metric!MetricsAgree
<1>1. \A type, p : p \in Metric!Providers(observed) => Metric!BreakdownIsFilter(type, p)
  <2> SUFFICES ASSUME NEW type, NEW p \in Metric!Providers(observed)
               PROVE  Metric!BreakdownIsFilter(type, p)
    OBVIOUS
  <2>1. p # None
    BY DEF Shown, Metric!Providers
  <2> QED
    BY <2>1, ShownIsFiltered, ReliabilityIsFiltered DEF Metric!BreakdownIsFilter
<1> QED
  BY <1>1, OneStory, SoundOfEntity DEF Metric!MetricsAgree

-----------------------------------------------------------------------------
(* The modules of the parts with proofs of their own.                      *)
VerifP == INSTANCE VerificationProofs WITH MaxEdits <- MaxTransitions
OutboxP == INSTANCE EmailOutboxProofs WITH Event <- DOMAIN About
SchedP == INSTANCE ScheduledScansProofs
LiveP == INSTANCE LiveValidationProofs

(* The inductive invariants of the parts with proofs of their own. *)
VerifInv == part = "verif" => VerifP!IInv
OutboxInv == part = "outbox" => OutboxP!IInv
SchedInv == part = "sched" => SchedP!IInv
LiveInv == part = "live" => LiveP!IInv

-----------------------------------------------------------------------------
(* What was proved of Verification was proved of the part "verif". *)
LEMMA VerifIsProved ==
    /\ VerifP!VerificationAssumption = Verif!VerificationAssumption
    /\ VerifP!Init = Verif!Init
    /\ VerifP!Next = Verif!Next
    /\ VerifP!OneMeasurementPerCycle = Verif!OneMeasurementPerCycle
    /\ VerifP!NoWaitCycle = Verif!NoWaitCycle
    /\ VerifP!KeepsMeasuredOutcomes = Verif!KeepsMeasuredOutcomes
<1> USE DEF VerifP!Outcome, Verif!Outcome, VerifP!Reason, Verif!Reason,
       VerifP!VerificationRow, Verif!VerificationRow,
       VerifP!VerificationAssumption, Verif!VerificationAssumption,
       VerifP!Judge, Verif!Judge, VerifP!OppStatus, Verif!OppStatus,
       VerifP!ScanActive, Verif!ScanActive, VerifP!NoRequest, Verif!NoRequest,
       VerifP!Idle, Verif!Idle, VerifP!Init, Verif!Init, VerifP!Pending,
       Verif!Pending, VerifP!OfCycle, Verif!OfCycle, VerifP!Unlock,
       Verif!Unlock, VerifP!Allowed, Verif!Allowed, VerifP!Baseline,
       Verif!Baseline, VerifP!Transition, Verif!Transition,
       VerifP!DetectAgain, Verif!DetectAgain, VerifP!Continue, Verif!Continue,
       VerifP!EndRequest, Verif!EndRequest, VerifP!Apart, Verif!Apart,
       VerifP!FoundByKey, Verif!FoundByKey, VerifP!FindExisting,
       Verif!FindExisting, VerifP!LockOpportunity, Verif!LockOpportunity,
       VerifP!PendingInCycle, Verif!PendingInCycle, VerifP!AfterCheck,
       Verif!AfterCheck, VerifP!CheckPending, Verif!CheckPending,
       VerifP!TerminalizeFirst, Verif!TerminalizeFirst, VerifP!PreflightFails,
       Verif!PreflightFails, VerifP!Insert, Verif!Insert, VerifP!Reserve,
       Verif!Reserve, VerifP!QuotaExceeded, Verif!QuotaExceeded,
       VerifP!QuotaFailed, Verif!QuotaFailed, VerifP!Dispatch, Verif!Dispatch,
       VerifP!RequestDies, Verif!RequestDies, VerifP!Created, Verif!Created,
       VerifP!ScanEnds, Verif!ScanEnds, VerifP!Become, Verif!Become,
       VerifP!PostFinalize, Verif!PostFinalize, VerifP!Load, Verif!Load,
       VerifP!Terminalize, Verif!Terminalize, VerifP!AnalyseByHand,
       Verif!AnalyseByHand, VerifP!Decision, Verif!Decision,
       VerifP!LockVerification, Verif!LockVerification, VerifP!Evaluate,
       Verif!Evaluate, VerifP!AutoEvaluate, Verif!AutoEvaluate,
       VerifP!Written, Verif!Written, VerifP!Conclude, Verif!Conclude,
       VerifP!Resolve, Verif!Resolve, VerifP!JudgeFails, Verif!JudgeFails,
       VerifP!RequestStep, Verif!RequestStep, VerifP!HookStep, Verif!HookStep,
       VerifP!JudgeStep, Verif!JudgeStep, VerifP!Next, Verif!Next,
       VerifP!OneMeasurementPerCycle, Verif!OneMeasurementPerCycle,
       VerifP!KeepsMeasuredOutcomes, Verif!KeepsMeasuredOutcomes,
       VerifP!Measured, Verif!Measured, VerifP!HoldsFailedRow, Verif!HoldsFailedRow,
       VerifP!Analyse, Verif!Analyse, VerifP!Answered, Verif!Answered,
       VerifP!InsertAnalysis, Verif!InsertAnalysis, VerifP!Answer, Verif!Answer,
       VerifP!NoWaitCycle, Verif!NoWaitCycle,
            VerifP!Cardinality, Verif!Cardinality,
            VerifP!IsFiniteSet, Verif!IsFiniteSet
<1>1. VerifP!VerificationAssumption = Verif!VerificationAssumption
  OBVIOUS
<1>2. VerifP!Init = Verif!Init
  OBVIOUS
<1>3. VerifP!Next = Verif!Next
  OBVIOUS
<1>4. VerifP!OneMeasurementPerCycle = Verif!OneMeasurementPerCycle
  OBVIOUS
<1>5. VerifP!NoWaitCycle = Verif!NoWaitCycle
  OBVIOUS
<1>6. VerifP!KeepsMeasuredOutcomes = Verif!KeepsMeasuredOutcomes
  OBVIOUS
<1> HIDE DEF VerifP!VerificationAssumption, Verif!VerificationAssumption, VerifP!Init,
             Verif!Init, VerifP!Next, Verif!Next, VerifP!OneMeasurementPerCycle,
             Verif!OneMeasurementPerCycle, VerifP!NoWaitCycle, Verif!NoWaitCycle,
             VerifP!KeepsMeasuredOutcomes, Verif!KeepsMeasuredOutcomes
<1> QED
  BY <1>1, <1>2, <1>3, <1>4, <1>5, <1>6

(* The inductive invariant of Verification holds where the part begins.    *)
LEMMA VerifInit == Init => VerifInv
<1> SUFFICES ASSUME Init, part = "verif" PROVE VerifP!IInv
  BY DEF VerifInv
<1>1. Verif!Init
  BY DEF Init
<1> QED
  BY <1>1, ComponentsAssumption, VerifIsProved, VerifP!IInvInit

(* Every step of the composition keeps it: a step of the part is one of    *)
(* Verification, and no other part touches its variables.                  *)
LEMMA VerifStep == VerifInv /\ [Next]_vars => VerifInv'
<1> SUFFICES ASSUME VerifInv, [Next]_vars, part' = "verif" PROVE VerifP!IInv'
  BY DEF VerifInv
<1>1. part = "verif" /\ VerifP!IInv
  BY DEF VerifInv, Next, vars
<1>2. CASE Next
  BY <1>1, <1>2, ComponentsAssumption, VerifIsProved, VerifP!IInvStep DEF Next
<1>3. CASE UNCHANGED vars
  <2>1. UNCHANGED Verif!vars
    BY <1>3 DEF vars, Verif!vars, schedVars, outboxVars, verifVars, analysisVars
  <2> QED
    BY <1>1, <2>1, ComponentsAssumption, VerifIsProved, VerifP!IInvStep
       DEF VerifP!vars, Verif!vars
<1> QED
  BY <1>2, <1>3

(* What was proved of EmailOutbox was proved of the part "outbox". *)
LEMMA OutboxIsProved ==
    /\ OutboxP!OutboxAssumption = Outbox!OutboxAssumption
    /\ OutboxP!Init = Outbox!Init
    /\ OutboxP!Next = Outbox!Next
    /\ OutboxP!NoAutomaticDuplicate = Outbox!NoAutomaticDuplicate
<1> USE DEF OutboxP!Letter, Outbox!Letter, OutboxP!vars, Outbox!vars,
       OutboxP!Switches, Outbox!Switches, OutboxP!Status, Outbox!Status,
       OutboxP!Code, Outbox!Code, OutboxP!Delivery, Outbox!Delivery,
       OutboxP!OutboxAssumption, Outbox!OutboxAssumption, OutboxP!Idle,
       Outbox!Idle, OutboxP!Init, Outbox!Init, OutboxP!SwitchOf,
       Outbox!SwitchOf, OutboxP!ShouldEmail, Outbox!ShouldEmail,
       OutboxP!ScanType, Outbox!ScanType, OutboxP!OpportunityType,
       Outbox!OpportunityType, OutboxP!VerificationType,
       Outbox!VerificationType, OutboxP!TypeOf, Outbox!TypeOf,
       OutboxP!UpdatePreferences, Outbox!UpdatePreferences,
       OutboxP!LeaveOrJoin, Outbox!LeaveOrJoin, OutboxP!CreateNotification,
       Outbox!CreateNotification, OutboxP!DispatchAfterCommit,
       Outbox!DispatchAfterCommit, OutboxP!MarkRead, Outbox!MarkRead,
       OutboxP!Step, Outbox!Step, OutboxP!Tables, Outbox!Tables,
       OutboxP!HasStatus, Outbox!HasStatus, OutboxP!Claimable,
       Outbox!Claimable, OutboxP!Claim, Outbox!Claim, OutboxP!Drop,
       Outbox!Drop, OutboxP!Send, Outbox!Send, OutboxP!PersistSent,
       Outbox!PersistSent, OutboxP!PersistFailed, Outbox!PersistFailed,
       OutboxP!TaskRaises, Outbox!TaskRaises, OutboxP!WorkerDies,
       Outbox!WorkerDies, OutboxP!SweepLocks, Outbox!SweepLocks,
       OutboxP!SweepEnqueues, Outbox!SweepEnqueues, OutboxP!BrokerRefuses,
       Outbox!BrokerRefuses, OutboxP!SweepEnds, Outbox!SweepEnds,
       OutboxP!RecoverStaleSending, Outbox!RecoverStaleSending,
       OutboxP!RetryRead, Outbox!RetryRead, OutboxP!RetryWrite,
       Outbox!RetryWrite, OutboxP!Next, Outbox!Next,
       OutboxP!NoAutomaticDuplicate, Outbox!NoAutomaticDuplicate,
            OutboxP!IsFiniteSet, Outbox!IsFiniteSet
<1>1. OutboxP!OutboxAssumption = Outbox!OutboxAssumption
  OBVIOUS
<1>2. OutboxP!Init = Outbox!Init
  OBVIOUS
<1>3. OutboxP!Next = Outbox!Next
  OBVIOUS
<1>4. OutboxP!NoAutomaticDuplicate = Outbox!NoAutomaticDuplicate
  OBVIOUS
<1> HIDE DEF OutboxP!OutboxAssumption, Outbox!OutboxAssumption, OutboxP!Init, Outbox!Init,
             OutboxP!Next, Outbox!Next, OutboxP!NoAutomaticDuplicate,
             Outbox!NoAutomaticDuplicate
<1> QED
  BY <1>1, <1>2, <1>3, <1>4

(* The inductive invariant of EmailOutbox holds where the part begins.     *)
LEMMA OutboxInit == Init => OutboxInv
<1> SUFFICES ASSUME Init, part = "outbox" PROVE OutboxP!IInv
  BY DEF OutboxInv
<1>1. Outbox!Init
  BY DEF Init
<1> QED
  BY <1>1, ComponentsAssumption, OutboxIsProved, OutboxP!InvInit

(* Every step of the composition keeps it.                                 *)
LEMMA OutboxStep == OutboxInv /\ [Next]_vars => OutboxInv'
<1> SUFFICES ASSUME OutboxInv, [Next]_vars, part' = "outbox" PROVE OutboxP!IInv'
  BY DEF OutboxInv
<1>1. part = "outbox" /\ OutboxP!IInv
  BY DEF OutboxInv, Next, vars
<1>2. CASE Next
  BY <1>1, <1>2, ComponentsAssumption, OutboxIsProved, OutboxP!InvStep DEF Next
<1>3. CASE UNCHANGED vars
  <2>1. UNCHANGED Outbox!vars
    BY <1>3 DEF vars, Outbox!vars, schedVars, outboxVars, verifVars, analysisVars
  <2> QED
    BY <1>1, <2>1, ComponentsAssumption, OutboxIsProved, OutboxP!InvStep
       DEF OutboxP!vars, Outbox!vars
<1> QED
  BY <1>2, <1>3

(* What was proved of ScheduledScans was proved of the part "sched". *)
LEMMA SchedIsProved ==
    /\ SchedP!ScheduleAssumption = Sched!ScheduleAssumption
    /\ SchedP!Init = Sched!Init
    /\ SchedP!Next = Sched!Next
    /\ SchedP!NoOverlap = Sched!NoOverlap
    /\ SchedP!FirstFuture = Sched!FirstFuture
<1> USE DEF SchedP!Time, Sched!Time, SchedP!Slot, Sched!Slot, SchedP!ActiveStage,
       Sched!ActiveStage, SchedP!Stage, Sched!Stage, SchedP!Outcome,
       Sched!Outcome, SchedP!Row, Sched!Row, SchedP!ScheduleAssumption,
       Sched!ScheduleAssumption, SchedP!Idle, Sched!Idle, SchedP!Init,
       Sched!Init, SchedP!Due, Sched!Due, SchedP!Advance, Sched!Advance,
       SchedP!Entitled, Sched!Entitled, SchedP!HasActiveScan,
       Sched!HasActiveScan, SchedP!Do, Sched!Do, SchedP!Others, Sched!Others,
       SchedP!Unlocked, Sched!Unlocked, SchedP!StartSweep, Sched!StartSweep,
       SchedP!FindDue, Sched!FindDue, SchedP!EndSweep, Sched!EndSweep,
       SchedP!Visited, Sched!Visited, SchedP!PassOver, Sched!PassOver,
       SchedP!LockAndReread, Sched!LockAndReread, SchedP!Skip, Sched!Skip,
       SchedP!Refusal, Sched!Refusal, SchedP!Refuse, Sched!Refuse,
       SchedP!TheSlot, Sched!TheSlot, SchedP!Fails, Sched!Fails, SchedP!Plan,
       Sched!Plan, SchedP!PreflightFails, Sched!PreflightFails, SchedP!Reserve,
       Sched!Reserve, SchedP!QuotaExceeded, Sched!QuotaExceeded,
       SchedP!Dispatch, Sched!Dispatch, SchedP!CreationFails,
       Sched!CreationFails, SchedP!SkipFailed, Sched!SkipFailed, SchedP!Finish,
       Sched!Finish, SchedP!Crash, Sched!Crash, SchedP!Edit, Sched!Edit,
       SchedP!PutSchedule, Sched!PutSchedule, SchedP!DisableSchedule,
       Sched!DisableSchedule, SchedP!ChangePlan, Sched!ChangePlan,
       SchedP!ToggleProject, Sched!ToggleProject, SchedP!ScanEnds,
       Sched!ScanEnds, SchedP!Tick, Sched!Tick, SchedP!Sweep, Sched!Sweep,
       SchedP!Next, Sched!Next, SchedP!NoOverlap, Sched!NoOverlap,
       SchedP!FirstFuture, Sched!FirstFuture, SchedP!Cardinality,
       Sched!Cardinality, SchedP!IsFiniteSet, Sched!IsFiniteSet
<1>1. SchedP!ScheduleAssumption = Sched!ScheduleAssumption
  OBVIOUS
<1>2. SchedP!Init = Sched!Init
  OBVIOUS
<1>3. SchedP!Next = Sched!Next
  OBVIOUS
<1>4. SchedP!NoOverlap = Sched!NoOverlap
  OBVIOUS
<1>5. SchedP!FirstFuture = Sched!FirstFuture
  OBVIOUS
<1> HIDE DEF SchedP!ScheduleAssumption, Sched!ScheduleAssumption,
       SchedP!Init, Sched!Init, SchedP!Next, Sched!Next,
       SchedP!NoOverlap, Sched!NoOverlap, SchedP!FirstFuture,
       Sched!FirstFuture
<1> QED
  BY <1>1, <1>2, <1>3, <1>4, <1>5

(* The inductive invariant of ScheduledScans holds where the part begins.  *)
LEMMA SchedInit == Init => SchedInv
<1> SUFFICES ASSUME Init, part = "sched" PROVE SchedP!IInv
  BY DEF SchedInv
<1>1. Sched!Init
  BY DEF Init
<1> QED
  BY <1>1, ComponentsAssumption, SchedIsProved, SchedP!InvInit

(* Every step of the composition keeps it.                                 *)
LEMMA SchedStep == SchedInv /\ [Next]_vars => SchedInv'
<1> SUFFICES ASSUME SchedInv, [Next]_vars, part' = "sched" PROVE SchedP!IInv'
  BY DEF SchedInv
<1>1. part = "sched" /\ SchedP!IInv
  BY DEF SchedInv, Next, vars
<1>2. CASE Next
  BY <1>1, <1>2, ComponentsAssumption, SchedIsProved, SchedP!InvStep DEF Next
<1>3. CASE UNCHANGED vars
  <2>1. UNCHANGED Sched!vars
    BY <1>3 DEF vars, Sched!vars, schedVars
  <2> QED
    BY <1>1, <2>1, ComponentsAssumption, SchedIsProved, SchedP!InvStep
       DEF SchedP!vars, Sched!vars
<1> QED
  BY <1>2, <1>3

(* What was proved of LiveValidation was proved of the part "live". *)
LEMMA LiveIsProved ==
    /\ LiveP!LiveAssumption = Live!LiveAssumption
    /\ LiveP!Init = Live!Init
    /\ LiveP!Next = Live!Next
    /\ LiveP!TypeOK = Live!TypeOK
    /\ LiveP!ProvenPass = Live!ProvenPass
<1> USE DEF LiveP!Mode, Live!Mode, LiveP!Unanswered, Live!Unanswered,
       LiveP!ActionType, Live!ActionType, LiveP!Count, Live!Count,
       LiveP!Classify, Live!Classify, LiveP!Validations,
       Live!Validations, LiveP!Failed, Live!Failed,
       LiveP!Answered, Live!Answered, LiveP!ErrorCode,
       Live!ErrorCode, LiveP!Billable, Live!Billable, LiveP!Reads,
       Live!Reads, LiveP!Reported, Live!Reported,
       LiveP!TokenClass, Live!TokenClass, LiveP!Tokens,
       Live!Tokens, LiveP!Searches, Live!Searches,
       LiveP!UnknownActions, Live!UnknownActions,
       LiveP!SearchUsed, Live!SearchUsed, LiveP!Or0, Live!Or0,
       LiveP!Known, Live!Known, LiveP!Exact, Live!Exact,
       LiveP!SearchFee, Live!SearchFee, LiveP!Cost, Live!Cost,
       LiveP!Bill, Live!Bill, LiveP!Computed, Live!Computed,
       LiveP!Stage, Live!Stage, LiveP!OutcomeName,
       Live!OutcomeName, LiveP!Artifact, Live!Artifact,
       LiveP!Code, Live!Code, LiveP!Counts, Live!Counts,
       LiveP!Bundle, Live!Bundle, LiveP!Row, Live!Row,
       LiveP!LiveAssumption, Live!LiveAssumption, LiveP!Init,
       Live!Init, LiveP!Goes, Live!Goes, LiveP!Valid, Live!Valid,
       LiveP!Outcome, Live!Outcome, LiveP!Says, Live!Says,
       LiveP!Reuse, Live!Reuse, LiveP!Begin, Live!Begin,
       LiveP!Prepare, Live!Prepare, LiveP!NewRow, Live!NewRow,
       LiveP!Plan, Live!Plan, LiveP!Context, Live!Context,
       LiveP!FailedRow, Live!FailedRow, LiveP!Reserve,
       Live!Reserve, LiveP!Execute, Live!Execute, LiveP!ClaimRun,
       Live!ClaimRun, LiveP!Call, Live!Call, LiveP!CaptureQuietly,
       Live!CaptureQuietly, LiveP!Capture, Live!Capture,
       LiveP!Record, Live!Record, LiveP!Report, Live!Report,
       LiveP!Crash, Live!Crash, LiveP!Recover, Live!Recover,
       LiveP!Damage, Live!Damage, LiveP!Next, Live!Next,
       LiveP!ProvenPass, Live!ProvenPass, LiveP!Cardinality,
       Live!Cardinality, LiveP!IsFiniteSet, Live!IsFiniteSet, LiveP!TypeOK, Live!TypeOK
<1>1. LiveP!LiveAssumption = Live!LiveAssumption
  OBVIOUS
<1>2. LiveP!Init = Live!Init
  OBVIOUS
<1>3. LiveP!Next = Live!Next
  OBVIOUS
<1>4. LiveP!TypeOK = Live!TypeOK
  OBVIOUS
<1>5. LiveP!ProvenPass = Live!ProvenPass
  OBVIOUS
<1> HIDE DEF LiveP!LiveAssumption, Live!LiveAssumption, LiveP!Init, Live!Init,
       LiveP!Next, Live!Next, LiveP!TypeOK, Live!TypeOK,
       LiveP!ProvenPass, Live!ProvenPass
<1> QED
  BY <1>1, <1>2, <1>3, <1>4, <1>5

(* The inductive invariant of LiveValidation holds where the part begins.  *)
LEMMA LiveInit == Init => LiveInv
<1> SUFFICES ASSUME Init, part = "live" PROVE LiveP!IInv
  BY DEF LiveInv
<1>1. Live!Init
  BY DEF Init
<1> QED
  BY <1>1, ComponentsAssumption, LiveIsProved, LiveP!InvInit

(* Every step of the composition keeps it.                                 *)
LEMMA LiveStep == LiveInv /\ [Next]_vars => LiveInv'
<1> SUFFICES ASSUME LiveInv, [Next]_vars, part' = "live" PROVE (LiveP!IInv)'
  BY DEF LiveInv
<1>1. part = "live" /\ LiveP!IInv
  BY DEF LiveInv, Next, vars
<1>2. CASE Next
  BY <1>1, <1>2, ComponentsAssumption, LiveIsProved, LiveP!InvStep DEF Next
<1>3. CASE UNCHANGED vars
  <2>1. UNCHANGED Live!vars
    BY <1>3 DEF vars, Live!vars, liveVars
  <2> QED
    BY <1>1, <2>1, ComponentsAssumption, LiveIsProved, LiveP!InvStep
       DEF LiveP!vars, Live!vars
<1> QED
  BY <1>2, <1>3

-----------------------------------------------------------------------------
(* The inductive invariants of the parts, in the composition. *)

(* Each part satisfies its inductive invariant.                            *)
AnalysisInv == part = "analysis" => AnalysisIInv
BillingInv == part = "billing" => BillingIInv
ActionsInv == part = "actions" => ActionsIInv
SetupInv == part = "setup" => SetupIInv /\ NothingYet
MetricInv == part = "metrics" => Metric!TypeOK

(* The inductive invariant of ScanAnalysis holds where the part begins.    *)
LEMMA AnalysisPartInit == Init => AnalysisInv
<1> SUFFICES ASSUME Init, part = "analysis" PROVE AnalysisIInv
  BY DEF AnalysisInv
<1>1. Analysis!Init
  BY DEF Init
<1> QED
  BY <1>1, ComponentsAssumption, AnalysisInit DEF ComponentsAssumption

(* Every step of the composition keeps it.                                 *)
LEMMA AnalysisPartStep == AnalysisInv /\ [Next]_vars => AnalysisInv'
<1> SUFFICES ASSUME AnalysisInv, [Next]_vars, part' = "analysis" PROVE AnalysisIInv'
  BY DEF AnalysisInv
<1>1. part = "analysis" /\ AnalysisIInv
  BY DEF AnalysisInv, Next, vars
<1>2. CASE Next
  BY <1>1, <1>2, ComponentsAssumption, AnalysisStep DEF Next, ComponentsAssumption
<1>3. CASE UNCHANGED vars
  <2>1. UNCHANGED Analysis!vars
    BY <1>3 DEF vars, Analysis!vars, analysisVars
  <2> QED
    BY <1>1, <2>1, ComponentsAssumption, AnalysisStep DEF ComponentsAssumption
<1> QED
  BY <1>2, <1>3

(* The inductive invariant of ProviderBilling holds where the part begins. *)
LEMMA BillingPartInit == Init => BillingInv
<1> SUFFICES ASSUME Init, part = "billing" PROVE BillingIInv
  BY DEF BillingInv
<1>1. Billing!Init
  BY DEF Init
<1> QED
  BY <1>1, ComponentsAssumption, BillingInit DEF ComponentsAssumption

(* Every step of the composition keeps it.                                 *)
LEMMA BillingPartStep == BillingInv /\ [Next]_vars => BillingInv'
<1> SUFFICES ASSUME BillingInv, [Next]_vars, part' = "billing" PROVE BillingIInv'
  BY DEF BillingInv
<1>1. part = "billing" /\ BillingIInv
  BY DEF BillingInv, Next, vars
<1>2. CASE Next
  BY <1>1, <1>2, ComponentsAssumption, BillingStep DEF Next, ComponentsAssumption
<1>3. CASE UNCHANGED vars
  <2>1. UNCHANGED Billing!vars
    BY <1>3 DEF vars, Billing!vars, billingVars
  <2> QED
    BY <1>1, <2>1, ComponentsAssumption, BillingStep DEF ComponentsAssumption
<1> QED
  BY <1>2, <1>3

(* The inductive invariant of ActionCenter holds where the part begins.    *)
LEMMA ActionsPartInit == Init => ActionsInv
<1> SUFFICES ASSUME Init, part = "actions" PROVE ActionsIInv
  BY DEF ActionsInv
<1>1. Actions!Init
  BY DEF Init
<1> QED
  BY <1>1, ComponentsAssumption, ActionsInit DEF ComponentsAssumption

(* Every step of the composition keeps it.                                 *)
LEMMA ActionsPartStep == ActionsInv /\ [Next]_vars => ActionsInv'
<1> SUFFICES ASSUME ActionsInv, [Next]_vars, part' = "actions" PROVE ActionsIInv'
  BY DEF ActionsInv
<1>1. part = "actions" /\ ActionsIInv
  BY DEF ActionsInv, Next, vars
<1>2. CASE Next
  BY <1>1, <1>2, ComponentsAssumption, ActionsStep DEF Next, ComponentsAssumption
<1>3. CASE UNCHANGED vars
  <2>1. UNCHANGED Actions!vars
    BY <1>3 DEF vars, Actions!vars, actionVars
  <2> QED
    BY <1>1, <2>1, ComponentsAssumption, ActionsStep DEF ComponentsAssumption
<1> QED
  BY <1>2, <1>3

(* Where ProjectSetup begins there is neither a project nor a plan.        *)
LEMMA SetupPartBegins ==
    ASSUME Setup!Init PROVE SetupIInv /\ NothingYet
BY SetupInit DEF Setup!Init, NothingYet, Setup!Tracked

(* So its inductive invariant holds where the part begins.                 *)
LEMMA SetupPartInit == Init => SetupInv
<1> SUFFICES ASSUME Init, part = "setup" PROVE SetupIInv /\ NothingYet
  BY DEF SetupInv
<1>1. Setup!Init
  BY DEF Init
<1> QED
  BY <1>1, ComponentsAssumption, SetupPartBegins DEF ComponentsAssumption

(* Every step of the composition keeps it.                                 *)
LEMMA SetupPartStep == SetupInv /\ [Next]_vars => SetupInv'
<1> SUFFICES ASSUME SetupInv, [Next]_vars, part' = "setup" PROVE (SetupIInv /\ NothingYet)'
  BY DEF SetupInv
<1>1. part = "setup" /\ SetupIInv /\ NothingYet
  BY DEF SetupInv, Next, vars
<1>2. CASE Next
  BY <1>1, <1>2, ComponentsAssumption, SetupStep DEF Next, ComponentsAssumption
<1>3. CASE UNCHANGED vars
  <2>1. UNCHANGED Setup!vars
    BY <1>3 DEF vars, Setup!vars, setupVars
  <2> QED
    BY <1>1, <2>1, ComponentsAssumption, SetupStep DEF ComponentsAssumption
<1> QED
  BY <1>2, <1>3

(* The types of Metrics hold where the part begins.                        *)
LEMMA MetricPartInit == Init => MetricInv
BY DEF Init, MetricInv, Metric!Init, Metric!TypeOK

(* Every step of the composition keeps them.                               *)
LEMMA MetricPartStep == MetricInv /\ [Next]_vars => MetricInv'
<1> SUFFICES ASSUME MetricInv, [Next]_vars, part' = "metrics" PROVE Metric!TypeOK'
  BY DEF MetricInv
<1>1. part = "metrics" /\ Metric!TypeOK
  BY DEF MetricInv, Next, vars
<1>2. CASE Next
  <2>1. Metric!Analysed
    BY <1>1, <1>2 DEF Next, Metric!Next
  <2> QED
    BY <1>1, <2>1 DEF Metric!Analysed, Metric!TypeOK
<1>3. CASE UNCHANGED vars
  BY <1>1, <1>3 DEF vars, metricVars, Metric!TypeOK
<1> QED
  BY <1>2, <1>3

(* A behaviour is of one of the parts. *)
PartOK ==
    part \in {"sched", "outbox", "verif", "analysis", "actions", "setup", "billing", "live",
              "metrics"}

(* The types of the parts with proofs of their own. *)
LEMMA SchedTypes == SchedP!TypeOK = Sched!TypeOK
BY DEF SchedP!TypeOK, Sched!TypeOK, SchedP!Time, Sched!Time, SchedP!Slot, Sched!Slot,
       SchedP!Stage, Sched!Stage, SchedP!ActiveStage, Sched!ActiveStage,
       SchedP!Outcome, Sched!Outcome, SchedP!Row, Sched!Row

(* The same for EmailOutbox.                                               *)
LEMMA OutboxTypes == OutboxP!TypeOK = Outbox!TypeOK
BY DEF OutboxP!TypeOK, Outbox!TypeOK, OutboxP!Letter, Outbox!Letter, OutboxP!Switches,
       Outbox!Switches, OutboxP!Status, Outbox!Status, OutboxP!Code, Outbox!Code,
       OutboxP!Delivery, Outbox!Delivery

(* The same for Verification.                                              *)
LEMMA VerifTypes == VerifP!TypeOK = Verif!TypeOK
BY DEF VerifP!TypeOK, Verif!TypeOK, VerifP!OppState, Verif!OppState, VerifP!OppStatus,
       Verif!OppStatus, VerifP!ScanStage, Verif!ScanStage,
       VerifP!VerificationRow, Verif!VerificationRow, VerifP!Outcome, Verif!Outcome,
       VerifP!Reason, Verif!Reason, VerifP!Request, Verif!Request, VerifP!RequestPc,
       Verif!RequestPc, VerifP!Judging, Verif!Judging, VerifP!JudgePc, Verif!JudgePc,
       VerifP!Judge, Verif!Judge, VerifP!Answer, Verif!Answer

-----------------------------------------------------------------------------
(* verification_scan_creation_service.py: one implementation is measured   *)
(* by one verification at a time, whatever requests race.                  *)
THEOREM OneAtATime == Spec => []OneMeasurementPerCycle
<1>1. VerifInv => OneMeasurementPerCycle
  BY VerifIsProved, VerifP!OnePerCycle DEF VerifInv, OneMeasurementPerCycle
<1> QED
  BY <1>1, VerifInit, VerifStep, PTL DEF Spec

(* Requests and evaluations, which lock opportunities and verifications in *)
(* opposite orders, never wait for each other.                             *)
THEOREM LocksNeverMeet == Spec => []NoWaitCycle
<1>1. VerifInv => NoWaitCycle
  BY VerifIsProved, VerifP!NobodyWaits DEF VerifInv, NoWaitCycle
<1> QED
  BY <1>1, VerifInit, VerifStep, PTL DEF Spec

(* verification_evaluation_service.py: an outcome that rests on a          *)
(* completed analysis is replaced from no older copy but that of a hook    *)
(* that was given the FAILED row of another session.                       *)
THEOREM MeasuredKept == Spec => MeasuredOutcomeKept
<1>1. VerifInv /\ [Next]_vars => [part = "verif" => Verif!KeepsMeasuredOutcomes]_vars
  <2> SUFFICES ASSUME VerifInv, Next, part = "verif" PROVE Verif!KeepsMeasuredOutcomes
    OBVIOUS
  <2>1. Verif!Next /\ VerifP!IInv
    BY DEF Next, VerifInv
  <2>2. Verif!KeepsMeasuredOutcomes \/ UNCHANGED Verif!vars
    BY <2>1, ComponentsAssumption, VerifIsProved, VerifP!StepKeepsMeasured
       DEF VerifP!vars, Verif!vars
  <2> QED
    BY <2>2 DEF Verif!vars, Verif!KeepsMeasuredOutcomes, Verif!Measured
<1> QED
  BY <1>1, VerifInit, VerifStep, PTL DEF Spec, MeasuredOutcomeKept

(* notification_tasks.py: a mail is accepted at most once per delivery and *)
(* once more per manual retry, whatever happens to workers and messages.   *)
THEOREM SentOnce == Spec => []NoAutomaticDuplicate
<1>1. OutboxInv => NoAutomaticDuplicate
  BY ComponentsAssumption, OutboxIsProved, OutboxP!MailsWithinRetries
     DEF OutboxInv, NoAutomaticDuplicate
<1> QED
  BY <1>1, OutboxInit, OutboxStep, PTL DEF Spec

(* scan_analysis_service.py: a completed analysis and the evidence of its  *)
(* one pass outlive every concurrent pass and late failure.                *)
THEOREM CompletedForGood == Spec => CompletedAnalysisIsFinal
<1>1. AnalysisInv /\ [Next]_vars => [part = "analysis" => Analysis!KeepsCompleted]_vars
  <2> SUFFICES ASSUME AnalysisInv, Next, part = "analysis" PROVE Analysis!KeepsCompleted
    OBVIOUS
  <2>1. Analysis!Next /\ AnalysisIInv
    BY DEF Next, AnalysisInv
  <2>2. Analysis!KeepsCompleted \/ UNCHANGED Analysis!vars
    BY <2>1, ComponentsAssumption, StepKeepsCompleted
       DEF Analysis!vars, ComponentsAssumption
  <2> QED
    BY <2>1, <2>2 DEF Analysis!vars, Analysis!KeepsCompleted, AnalysisIInv,
       CompletedHasEvidence
<1> QED
  BY <1>1, AnalysisPartInit, AnalysisPartStep, PTL DEF Spec, CompletedAnalysisIsFinal

(* scheduled_scan_service.py: a project has at most one scheduled scan     *)
(* going, whatever sweeps overlap, crash or race with the user's changes.  *)
THEOREM OneScheduledScan == Spec => []NoOverlap
<1>1. SchedInv => NoOverlap
  BY ComponentsAssumption, SchedIsProved, SchedP!OneIsCounted DEF SchedInv, NoOverlap
<1> QED
  BY <1>1, SchedInit, SchedStep, PTL DEF Spec

(* scheduled_scan_service.py:504: a sweep moves next_run_at to the first   *)
(* boundary in its future.                                                 *)
THEOREM FutureSlot == Spec => FirstFutureSlot
<1>1. SchedInv /\ [Next]_vars => [part = "sched" => Sched!FirstFuture]_vars
  <2> SUFFICES ASSUME SchedInv, Next, part = "sched" PROVE Sched!FirstFuture
    OBVIOUS
  <2>1. Sched!Next /\ SchedP!IInv
    BY DEF Next, SchedInv
  <2> QED
    BY <2>1, ComponentsAssumption, SchedIsProved, SchedP!StepToFuture
<1> QED
  BY <1>1, SchedInit, SchedStep, PTL DEF Spec, FirstFutureSlot

(* core/verification_engine.py: an opportunity that is RESOLVED no longer  *)
(* meets the criterion that created it.                                    *)
THEOREM ResolvedForGoodReason == Spec => []ResolvedIsGone
<1>1. ActionsInv => ResolvedIsGone
  BY ComponentsAssumption, ResolvedRight DEF ActionsInv, ResolvedIsGone,
     ComponentsAssumption
<1> QED
  BY <1>1, ActionsPartInit, ActionsPartStep, PTL DEF Spec

(* competitor_explanation_service.py, verification_scope.py: detection and *)
(* evaluation see one gap in one evidence.                                 *)
THEOREM OneGap == Spec => []SameEvidenceSameGap
<1>1. ActionsInv => SameEvidenceSameGap
  BY ComponentsAssumption, SameEvidenceRight DEF ActionsInv, SameEvidenceSameGap,
     ComponentsAssumption
<1> QED
  BY <1>1, ActionsPartInit, ActionsPartStep, PTL DEF Spec

(* prompt_set_service.py: a STANDARD plan asks about what is tracked when  *)
(* it is made, if no unlocked removal tore the revision.                   *)
THEOREM AsksWhatIsTracked == Spec => []PlanMatchesInputs
<1>1. SetupInv => PlanMatchesInputs
  BY MatchesRight DEF SetupInv, SetupIInv, PlanMatchesInputs
<1> QED
  BY <1>1, SetupPartInit, SetupPartStep, PTL DEF Spec

(* confidence_scan_creation_service.py, verification_scan_creation_        *)
(* service.py: a derived scan repeats the cells of its baseline, and every *)
(* scan reserves what it runs.                                             *)
THEOREM RepeatsItsBaseline == Spec => []MeasuresBaseline
<1>1. SetupInv => MeasuresBaseline
  BY MeasuresRight DEF SetupInv, SetupIInv, MeasuresBaseline
<1> QED
  BY <1>1, SetupPartInit, SetupPartStep, PTL DEF Spec

(* pricing_service.py: a cost is recorded only where it is exact, at the   *)
(* rule in force when the run started, from counts that were reported.     *)
THEOREM ExactBill == Spec => []BilledAsServed
<1>1. BillingInv => BilledAsServed
  BY ComponentsAssumption, BilledRight DEF BillingInv, BilledAsServed, ComponentsAssumption
<1> QED
  BY <1>1, BillingPartInit, BillingPartStep, PTL DEF Spec

(* live_accounting_validation_operator.py: a validation id pays for one    *)
(* call, and passes on evidence that proves the search it counts.          *)
THEOREM PassIsProof == Spec => []ProvenPass
<1>1. LiveInv => ProvenPass
  BY ComponentsAssumption, LiveIsProved, LiveP!PassIsProven
     DEF LiveInv, ProvenPass, ComponentsAssumption
<1> QED
  BY <1>1, LiveInit, LiveStep, PTL DEF Spec

(* The numbers the pages show of one evidence agree: a provider's          *)
(* breakdown with the page filtered on it, the leaderboard with the gaps   *)
(* the opportunities are made of, a rate with those of its rounds, and the *)
(* level of all the entities with that of one.                             *)
THEOREM OneEvidence == Spec => []MetricsAgree
<1>1. MetricInv => MetricsAgree
  <2> SUFFICES ASSUME part = "metrics", Metric!TypeOK, observed # None
               PROVE  Metric!MetricsAgree
    BY DEF MetricInv, MetricsAgree, Metric!MetricsAgree
  <2>1. Shown
    BY ComponentsAssumption, TypedIsShown DEF ComponentsAssumption
  <2> QED
    BY <2>1, ShownAgrees
<1> QED
  BY <1>1, MetricPartInit, MetricPartStep, PTL DEF Spec

(* Every component keeps its rows, locks and program counters in their     *)
(* types.                                                                  *)
THEOREM TypeCorrect == Spec => []TypeOK
<1>1. Init => PartOK
  BY DEF Init, PartOK
<1>2. PartOK /\ [Next]_vars => PartOK'
  BY DEF PartOK, Next, vars
<1>3. PartOK /\ VerifInv /\ OutboxInv /\ AnalysisInv /\ SchedInv /\ ActionsInv /\ SetupInv
         /\ BillingInv /\ LiveInv /\ MetricInv => TypeOK
  <2> SUFFICES ASSUME PartOK, VerifInv, OutboxInv, AnalysisInv, SchedInv, ActionsInv, SetupInv,
                      BillingInv, LiveInv, MetricInv
               PROVE  TypeOK
    OBVIOUS
  <2>1. part = "sched" => Sched!TypeOK
    BY SchedTypes, SchedP!TypedIsTypeOK DEF SchedInv
  <2>2. part = "outbox" => Outbox!TypeOK
    BY OutboxTypes DEF OutboxInv, OutboxP!IInv
  <2>3. part = "verif" => Verif!TypeOK
    BY VerifTypes DEF VerifInv, VerifP!IInv
  <2>4. part = "analysis" => Analysis!TypeOK
    BY DEF AnalysisInv, AnalysisIInv
  <2>5. part = "actions" => Actions!TypeOK
    BY DEF ActionsInv, ActionsIInv
  <2>6. part = "setup" => Setup!TypeOK
    BY DEF SetupInv, SetupIInv
  <2>7. part = "billing" => Billing!TypeOK
    BY DEF BillingInv, BillingIInv
  <2>8. part = "live" => Live!TypeOK
    BY LiveIsProved DEF LiveInv, LiveP!IInv
  <2>9. part = "metrics" => Metric!TypeOK
    BY DEF MetricInv
  <2> QED
    BY <2>1, <2>2, <2>3, <2>4, <2>5, <2>6, <2>7, <2>8, <2>9 DEF PartOK, TypeOK
<1> QED
  BY <1>1, <1>2, <1>3, VerifInit, VerifStep, OutboxInit, OutboxStep, AnalysisPartInit,
     AnalysisPartStep, SchedInit, SchedStep, ActionsPartInit, ActionsPartStep,
     SetupPartInit,
     SetupPartStep, BillingPartInit, BillingPartStep, LiveInit, LiveStep, MetricPartInit,
     MetricPartStep, PTL DEF Spec
=============================================================================
