------------------------ MODULE LiveValidationProofs ------------------------
(***************************************************************************)
(* Proofs about LiveValidation, for any invocations, evidence roots and    *)
(* answers of the provider.                                                *)
(***************************************************************************)
EXTENDS LiveValidation, FiniteSetTheorems, TLAPS

(* Whoever planned the run goes on with it alone. *)
Owning == {"context", "reserve", "execute", "claim", "call", "capture", "record", "report"}
Owner(o) == work[o].at \in Owning

(* There is one owner, and a run.                                          *)
OneOwner ==
    /\ \A o, p \in Operator : Owner(o) /\ Owner(p) => o = p
    /\ \A o \in Operator : Owner(o) => row # None

(* A run directory is the one of the invocation that made it, and nobody's *)
(* to damage while it goes on.                                             *)
OwnBundle ==
    /\ \A o, p \in Operator :
          /\ work[o].at \in Owning \cup {"plan"} /\ work[p].at \in Owning \cup {"plan"}
          /\ work[o].root = work[p].root
          => o = p
    /\ \A o \in Operator :
          /\ work[o].at \in Owning \cup {"plan"} =>
                bundle[work[o].root] # None /\ bundle[work[o].root].intact
          /\ work[o].at \in Owning \ {"context"} => bundle[work[o].root].correlated

(* The provider is called by the owner, who claimed the run. *)
BeforeCall == {"context", "reserve", "execute", "claim"}

(* The provider was called once if at all, and its answer is kept as it    *)
(* came.                                                                   *)
OneCall ==
    /\ posts \in {0, 1}
    /\ row = None => posts = 0
    /\ row # None /\ row.run.status = "PENDING" => posts = 0
    /\ posts = 0 => got = None
    /\ posts = 1 => got \in Tried
    /\ \A o \in Operator :
          /\ work[o].at \in BeforeCall =>
                posts = 0 /\ row.run.status \in {"PENDING", "FAILED"}
          /\ work[o].at = "call" => posts = 0 /\ row.run.status = "RUNNING"
          /\ work[o].at \in {"capture", "record"} => posts = 1 /\ row.run.status = "RUNNING"

(* What is written of the answer, is written of the one there was; and all *)
(* of it, unless the owner knows better.                                   *)
Kept(b) == b.written = Len(Artifact) /\ b.actions = got.actions

(* A directory has something of the answer only after the call, and all of *)
(* it when its owner saw no error.                                         *)
Written ==
    /\ \A d \in Root :
          bundle[d] # None /\ bundle[d].written # 0 =>
             posts = 1 /\ bundle[d].actions = got.actions
    /\ \A o \in Operator :
          (posts = 1 /\ Answered(got) /\ work[o].at \in {"record", "report"} /\ ~work[o].error)
             => Kept(bundle[work[o].root])

(* A run that succeeded has the counts of an answer that is no error. *)
Succeeded ==
    row # None /\ row.run.status = "SUCCEEDED" =>
       /\ posts = 1
       /\ Answered(got) /\ ErrorCode("openai", got) = None
       /\ row.run.counts = Classify(got.actions)

(* A report that passes was made on a valid bundle of that answer. *)
SaidPass ==
    \A o \in Operator :
       said[o] # None /\ said[o].outcome = "PASS" =>
          /\ row # None /\ row.run.status = "SUCCEEDED"
          /\ ~(row.run.counts.unknown > 0)
          /\ Valid(said[o].on)
          /\ said[o].on.actions = got.actions

(* The inductive invariant.                                                *)
IInv ==
    /\ TypeOK
    /\ OneOwner
    /\ OwnBundle
    /\ OneCall
    /\ Written
    /\ Succeeded
    /\ SaidPass

-----------------------------------------------------------------------------
(* The rows an invocation writes are rows. *)
LEMMA RecordedRow ==
    ASSUME LiveAssumption, TypeOK, NEW o \in Operator, Record(o), row # None, got \in Tried
    PROVE  row' \in Row
<1> DEFINE code == ErrorCode("openai", got)
           counts == IF Answered(got) THEN Classify(got.actions) ELSE None
<1>1. code \in Code /\ "ACCOUNTING_UNRESOLVED" \in Code /\ counts \in Counts
  BY DEF Code, Counts
<1>2. row \in Row
  BY DEF TypeOK
<1>3. \/ row' = [row EXCEPT !.run = [status |-> IF code = None THEN "SUCCEEDED" ELSE "FAILED",
                                   code |-> code, counts |-> counts],
                          !.scan = IF code = None THEN "COMPLETED" ELSE "FAILED"]
      \/ row' = [row EXCEPT !.run.code = "ACCOUNTING_UNRESOLVED", !.run.counts = counts]
  BY DEF Record
<1> HIDE DEF code, counts
<1>4. \A st \in {"SUCCEEDED", "FAILED"}, end \in {"COMPLETED", "FAILED"} :
         [row EXCEPT !.run = [status |-> st, code |-> code, counts |-> counts], !.scan = end] \in Row
  BY <1>1, <1>2 DEF Row
<1>5. [row EXCEPT !.run.code = "ACCOUNTING_UNRESOLVED", !.run.counts = counts] \in Row
  BY <1>1, <1>2 DEF Row
<1> QED
  BY <1>3, <1>4, <1>5

(* The types hold initially.                                               *)
LEMMA TypeInit == ASSUME LiveAssumption PROVE Init => TypeOK
BY DEF LiveAssumption, Init, TypeOK, Stage

(* Every step writes values of these types, and rows that are there stay.  *)
Stay ==
    /\ row # None => row' \in Row
    /\ \A d \in Root : bundle[d] # None => bundle'[d] \in Bundle

(* Every step keeps the types, and no row or directory disappears.         *)
LEMMA TypeStep ==
    ASSUME LiveAssumption, TypeOK, OneOwner, OwnBundle, OneCall, [Next]_vars
    PROVE  TypeOK' /\ Stay
<1> DEFINE Work == [Operator -> [at: Stage, root: Root, error: BOOLEAN]]
           Bundles == [Root -> Bundle \cup {None}]
           Said == [Operator -> [outcome: OutcomeName, on: Bundle \cup {None}] \cup {None}]
<1>0. TypeOK = /\ work \in Work /\ bundle \in Bundles /\ row \in Row \cup {None}
               /\ posts \in Nat /\ got \in Tried \cup {None} /\ said \in Said
  BY DEF TypeOK
<1>t. work \in Work /\ bundle \in Bundles /\ row \in Row \cup {None}
      /\ posts \in Nat /\ got \in Tried \cup {None} /\ said \in Said
  BY <1>0
<1>p. SUFFICES /\ work' \in Work /\ bundle' \in Bundles /\ row' \in Row \cup {None}
               /\ posts' \in Nat /\ got' \in Tried \cup {None} /\ said' \in Said
               /\ row # None => row' \in Row
               /\ \A d \in Root : bundle[d] # None => bundle'[d] \in Bundle
  BY DEF TypeOK, Stay
<1>1. Len(Artifact) = 6 /\ NewRow \in Row
  BY DEF Artifact, NewRow, Row, Code, Counts
<1>g. \A o \in Operator, at \in Stage : Goes(o, at) => work' \in Work
  BY <1>t DEF Goes
<1>b. \A o \in Operator : work[o].root \in Root
  BY <1>t
<1>s. /\ {"start", "prepare", "plan", "context", "reserve", "execute", "claim"} \subseteq Stage
      /\ {"call", "capture", "record", "report", "done"} \subseteq Stage
  BY DEF Stage
<1>f. \A code \in Code : row # None => FailedRow(code) \in Row
  BY <1>t DEF FailedRow, Row
<1>c. None \in Code /\ "SCAN_RECOVERY" \in Code
  BY DEF Code
<1> HIDE DEF Work
<1>2. ASSUME NEW o \in Operator, Reuse(o) \/ Report(o), row # None
      PROVE  work' \in Work /\ said' \in Said /\ UNCHANGED <<bundle, row, posts, got>>
  <2>1. \A e \in BOOLEAN : Outcome(row.run, e) \in OutcomeName
    BY DEF Outcome, OutcomeName
  <2>2. Valid(bundle[work[o].root]) \in BOOLEAN /\ work[o].error \in BOOLEAN
    BY <1>t DEF Valid, Work
  <2>3. bundle[work[o].root] \in Bundle \cup {None}
    BY <1>t, <1>b
  <2>4. \A e \in BOOLEAN : Says(o, e) => said' \in Said
    BY <1>t, <2>1, <2>3 DEF Says
  <2> HIDE DEF Said
  <2> QED
    BY <1>2, <1>t, <2>2, <2>4, <1>g, <1>s DEF Reuse, Report
<1> HIDE DEF Said
<1>3. ASSUME NEW o \in Operator, Begin(o) PROVE work' \in Work
  BY <1>3, <1>g, <1>s DEF Begin
<1>4. ASSUME NEW o \in Operator, Prepare(o) 
       PROVE  /\ work' \in Work /\ bundle' \in Bundles
              /\ \A d \in Root : bundle[d] # None => bundle'[d] \in Bundle
  <2>1. [written |-> 0, correlated |-> FALSE, intact |-> TRUE, actions |-> <<>>] \in Bundle
    BY <1>1 DEF Bundle
  <2> QED
    BY <1>4, <1>t, <1>g, <1>b, <1>s, <2>1 DEF Prepare
<1>5. ASSUME NEW o \in Operator, Plan(o) 
      PROVE  work' \in Work /\ row' \in Row \cup {None} /\ (row # None => row' \in Row)
  BY <1>1, <1>5, <1>t, <1>g, <1>s DEF Plan
<1>6. ASSUME NEW o \in Operator, Context(o) 
       PROVE  /\ work' \in Work /\ bundle' \in Bundles
              /\ \A d \in Root : bundle[d] # None => bundle'[d] \in Bundle
  <2>1. bundle[work[o].root] \in Bundle
    BY <1>6, <1>t, <1>b DEF Context, OwnBundle, Owning
  <2>2. [bundle[work[o].root] EXCEPT !.correlated = TRUE] \in Bundle
    BY <2>1 DEF Bundle
  <2> QED
    BY <1>6, <1>t, <1>g, <1>b, <1>s, <2>2 DEF Context
<1>7. ASSUME NEW o \in Operator, Reserve(o), row # None
      PROVE  work' \in Work /\ row' \in Row
  <2>1. [row EXCEPT !.reserved = TRUE] \in Row
    BY <1>t, <1>7 DEF Row
  <2> QED
    BY <1>7, <1>g, <1>s, <1>f, <1>c, <2>1 DEF Reserve
<1>8. ASSUME NEW o \in Operator, Execute(o), row # None
      PROVE  work' \in Work /\ row' \in Row
  <2>1. [row EXCEPT !.scan = "RUNNING"] \in Row
    BY <1>t, <1>8 DEF Row
  <2> QED
    BY <1>8, <1>t, <1>g, <1>s, <2>1 DEF Execute
<1>9. ASSUME NEW o \in Operator, ClaimRun(o), row # None
      PROVE  work' \in Work /\ row' \in Row
  <2>1. [row EXCEPT !.run.status = "RUNNING"] \in Row
    BY <1>t, <1>9 DEF Row
  <2> QED
    BY <1>9, <1>t, <1>g, <1>s, <2>1 DEF ClaimRun
<1>10. ASSUME NEW o \in Operator, Call(o)
       PROVE  work' \in Work /\ posts' \in Nat /\ got' \in Tried \cup {None}
  BY <1>10, <1>t, <1>g, <1>s DEF Call
<1>11. ASSUME NEW o \in Operator, Capture(o) 
       PROVE  /\ work' \in Work /\ bundle' \in Bundles
              /\ \A d \in Root : bundle[d] # None => bundle'[d] \in Bundle
  <2>1. bundle[work[o].root] \in Bundle /\ got \in Tried
    BY <1>11, <1>t, <1>b DEF Capture, OwnBundle, Owning, OneCall
  <2>2. \A n \in 0 .. Len(Artifact) :
           [bundle[work[o].root] EXCEPT !.written = n, !.actions = got.actions] \in Bundle
    BY <2>1 DEF Bundle
  <2>3. PICK n \in 0 .. Len(Artifact) :
           /\ bundle' = [bundle EXCEPT ![work[o].root] =
                            [@ EXCEPT !.written = n, !.actions = got.actions]]
           /\ work' = [work EXCEPT ![o].at = "record", ![o].error = n < Len(Artifact)]
    BY <1>11 DEF Capture
  <2>4. bundle' \in Bundles /\ \A d \in Root : bundle[d] # None => bundle'[d] \in Bundle
    BY <1>t, <1>b, <2>2, <2>3
  <2>5. \A e \in BOOLEAN : [work EXCEPT ![o].at = "record", ![o].error = e] \in Work
    BY <1>t, <1>s DEF Work
  <2>6. (n < Len(Artifact)) \in BOOLEAN
    OBVIOUS
  <2>7. work' \in Work
    BY <2>3, <2>5, <2>6, Zenon
  <2> QED
    BY <2>4, <2>7
<1>12. ASSUME NEW o \in Operator, Record(o), row # None
       PROVE  work' \in Work /\ row' \in Row
  <2>1. got \in Tried
    BY <1>12 DEF Record, OneCall
  <2>2. row' \in Row
    BY <1>12, <1>t, <2>1, RecordedRow
  <2> QED
    BY <1>12, <2>2, <1>g, <1>s DEF Record
<1>13. ASSUME NEW o \in Operator, Crash(o) PROVE work' \in Work
  BY <1>13, <1>g, <1>s DEF Crash
<1>14. ASSUME Recover PROVE row' \in Row
  BY <1>14, <1>f, <1>c DEF Recover
<1>15. ASSUME NEW d \in Root, Damage(d) 
       PROVE  /\ bundle' \in Bundles
              /\ \A e \in Root : bundle[e] # None => bundle'[e] \in Bundle
  <2>1. [bundle[d] EXCEPT !.intact = FALSE] \in Bundle
    BY <1>15, <1>t DEF Damage, Bundle
  <2> QED
    BY <1>15, <1>t, <2>1 DEF Damage
<1>d. /\ UNCHANGED row => (row # None => row' \in Row)
      /\ UNCHANGED bundle => \A d \in Root : bundle[d] # None => bundle'[d] \in Bundle
  BY <1>t
<1> HIDE DEF Bundles
<1>17. \A o \in Operator : Owner(o) => row # None
  BY DEF OneOwner
<1>18. CASE UNCHANGED vars
  BY <1>18, <1>t, <1>d DEF vars
<1>19. ASSUME NEW o \in Operator,
              Reuse(o) \/ Begin(o) \/ Prepare(o) \/ Plan(o) \/ Context(o) \/ Report(o)
       PROVE  /\ work' \in Work /\ bundle' \in Bundles /\ row' \in Row \cup {None}
              /\ posts' \in Nat /\ got' \in Tried \cup {None} /\ said' \in Said
              /\ row # None => row' \in Row
              /\ \A d \in Root : bundle[d] # None => bundle'[d] \in Bundle
  BY <1>t, <1>d, <1>2, <1>3, <1>4, <1>5, <1>6, <1>17, <1>19
     DEF Owner, Owning, Reuse, Begin, Prepare, Plan, Context, Report
<1>20. ASSUME NEW o \in Operator, Reserve(o) \/ Execute(o) \/ ClaimRun(o) \/ Call(o)
                                  \/ Capture(o) \/ Record(o) \/ Crash(o)
       PROVE  /\ work' \in Work /\ bundle' \in Bundles /\ row' \in Row \cup {None}
              /\ posts' \in Nat /\ got' \in Tried \cup {None} /\ said' \in Said
              /\ row # None => row' \in Row
              /\ \A d \in Root : bundle[d] # None => bundle'[d] \in Bundle
  BY <1>t, <1>d, <1>7, <1>8, <1>9, <1>10, <1>11, <1>12, <1>13, <1>17, <1>20
     DEF Owner, Owning, Reserve, Execute, ClaimRun, Call, Capture, Record, Crash
<1>21. CASE Recover \/ \E d \in Root : Damage(d)
  BY <1>t, <1>d, <1>14, <1>15, <1>21 DEF Recover, Damage
<1> QED
  BY <1>18, <1>19, <1>20, <1>21 DEF Next

(* An invocation that goes on leaves the others where they are. *)
LEMMA Moved ==
    ASSUME TypeOK, NEW o \in Operator, NEW at, Goes(o, at)
    PROVE  /\ work'[o].at = at
           /\ \A p \in Operator : p # o => work'[p] = work[p]
           /\ \A p \in Operator : work'[p].root = work[p].root /\ work'[p].error = work[p].error
BY DEF TypeOK, Goes

(* The one invocation that writes while it goes on, is the capture. *)
LEMMA Captured ==
    ASSUME TypeOK, NEW o \in Operator, Capture(o), bundle[work[o].root] # None, got \in Tried
    PROVE  /\ work'[o].at = "record"
           /\ \A p \in Operator : p # o => work'[p] = work[p]
           /\ \A p \in Operator : work'[p].root = work[p].root
           /\ \A d \in Root : d # work[o].root => bundle'[d] = bundle[d]
           /\ bundle'[work[o].root] \in Bundle
           /\ bundle'[work[o].root].actions = got.actions
           /\ bundle'[work[o].root].correlated = bundle[work[o].root].correlated
           /\ bundle'[work[o].root].intact = bundle[work[o].root].intact
           /\ ~work'[o].error => bundle'[work[o].root].written = Len(Artifact)
<1> DEFINE b == bundle[work[o].root]
<1>1. b \in Bundle /\ work[o].root \in Root
  BY DEF TypeOK
<1>2. PICK n \in 0 .. Len(Artifact) :
         /\ bundle' = [bundle EXCEPT ![work[o].root] =
                          [@ EXCEPT !.written = n, !.actions = got.actions]]
         /\ work' = [work EXCEPT ![o].at = "record", ![o].error = n < Len(Artifact)]
  BY DEF Capture
<1>3. bundle'[work[o].root] = [b EXCEPT !.written = n, !.actions = got.actions]
  BY <1>1, <1>2 DEF TypeOK
<1>4. Len(Artifact) = 6
  BY DEF Artifact
<1>5. [b EXCEPT !.written = n, !.actions = got.actions] \in Bundle
  BY <1>1 DEF Bundle
<1>6. /\ bundle'[work[o].root].actions = got.actions
      /\ bundle'[work[o].root].correlated = b.correlated
      /\ bundle'[work[o].root].intact = b.intact
      /\ bundle'[work[o].root].written = n
  BY <1>1, <1>3 DEF Bundle
<1>7. /\ work'[o].at = "record" /\ work'[o].error = (n < Len(Artifact))
      /\ \A p \in Operator : p # o => work'[p] = work[p]
      /\ \A p \in Operator : work'[p].root = work[p].root
  BY <1>2 DEF TypeOK
<1>8. \A d \in Root : d # work[o].root => bundle'[d] = bundle[d]
  BY <1>2 DEF TypeOK
<1> HIDE DEF b
<1>9. ~work'[o].error => n = Len(Artifact)
  <2> SUFFICES ASSUME n # Len(Artifact) PROVE work'[o].error
    OBVIOUS
  <2>1. n \in 0 .. Len(Artifact)
    OBVIOUS
  <2>2. n < Len(Artifact)
    BY <1>4, <2>1
  <2> QED
    BY <1>7, <2>2, Zenon
<1> QED
  BY <1>3, <1>5, <1>6, <1>7, <1>8, <1>9 DEF b

(* None is no row, no directory, no answer and no code.                    *)
LEMMA NoneIsNone ==
    ASSUME LiveAssumption
    PROVE  /\ None \notin Row /\ None \notin Bundle /\ None \notin Tried
           /\ \A f \in DOMAIN Unanswered : Unanswered[f] # None
           /\ None \notin {"SEARCH_ERROR", "PROVIDER_CONTRACT_VIOLATION"}
BY DEF LiveAssumption

(* The plan is made once, so whoever made it is alone. *)
LEMMA OwnerStep == ASSUME LiveAssumption, IInv, [Next]_vars, TypeOK', Stay PROVE OneOwner'
<1> USE DEF OneOwner, Owner, Owning
<1>0. row # None => row' # None
  BY NoneIsNone DEF Stay
<1>1. ASSUME NEW o \in Operator, NEW at, Goes(o, at), at \in Owning => Owner(o) PROVE OneOwner'
  BY <1>0, <1>1, Moved DEF IInv
<1>2. ASSUME NEW o \in Operator, Plan(o) PROVE OneOwner'
  <2>1. CASE row = None
    <3>1. \A p \in Operator : ~Owner(p)
      BY <2>1 DEF IInv
    <3>2. row' # None
      <4>1. NewRow \in Row
        BY DEF NewRow, Row, Code, Counts
      <4> QED
        BY <1>2, <2>1, <4>1, NoneIsNone DEF Plan
    <3>3. \A p \in Operator : p # o => work'[p] = work[p]
      BY <1>2, <2>1, Moved DEF Plan, IInv
    <3> QED
      BY <3>1, <3>2, <3>3
  <2>2. CASE row # None
    BY <1>1, <1>2, <2>2 DEF Plan
  <2> QED
    BY <2>1, <2>2
<1>3. ASSUME NEW o \in Operator,
             Reuse(o) \/ Begin(o) \/ Prepare(o) \/ Context(o) \/ Reserve(o) \/ Execute(o)
             \/ ClaimRun(o) \/ Call(o) \/ Record(o) \/ Report(o) \/ Crash(o)
      PROVE  OneOwner'
  BY <1>1, <1>3 DEF Reuse, Begin, Prepare, Context, Reserve, Execute, ClaimRun, Call, Record,
                    Report, Crash
<1>4. ASSUME NEW o \in Operator, Capture(o) PROVE OneOwner'
  <2>1. bundle[work[o].root] # None /\ got \in Tried
    BY <1>4 DEF Capture, IInv, OwnBundle, OneCall
  <2>2. Owner(o)
    BY <1>4 DEF Capture
  <2>3. /\ work'[o].at = "record"
        /\ \A p \in Operator : p # o => work'[p] = work[p]
    BY <1>4, <2>1, Captured DEF IInv
  <2> QED
    BY <1>0, <2>2, <2>3 DEF IInv
<1>5. CASE Recover \/ (\E d \in Root : Damage(d)) \/ UNCHANGED vars
  BY <1>0, <1>5 DEF IInv, Recover, Damage, vars
<1> QED
  BY <1>2, <1>3, <1>4, <1>5 DEF Next

(* Nobody makes the directory another has made, and nobody damages it.     *)
LEMMA BundleStep == ASSUME LiveAssumption, IInv, [Next]_vars, TypeOK', Stay PROVE OwnBundle'
<1> USE DEF Owning
<1> DEFINE Has(o) == work[o].at \in Owning \cup {"plan"}
<1>0. TypeOK /\ OwnBundle /\ OneCall
  BY DEF IInv
<1>s. \A o \in Operator : work[o].root \in Root
  BY <1>0 DEF TypeOK
<1>1. ASSUME NEW o \in Operator, NEW at, Goes(o, at), at \in Owning \cup {"plan"} => Has(o),
             at \in Owning \ {"context"} => work[o].at \in Owning \ {"context"},
             UNCHANGED bundle
      PROVE  OwnBundle'
  BY <1>0, <1>1, Moved DEF OwnBundle
<1>2. ASSUME NEW o \in Operator, Prepare(o) PROVE OwnBundle'
  <2>1. CASE bundle[work[o].root] = None
    <3>1. \A p \in Operator : Has(p) => work[p].root # work[o].root
      BY <1>0, <2>1 DEF OwnBundle
    <3>2. /\ \A p \in Operator : p # o => work'[p] = work[p]
          /\ \A p \in Operator : work'[p].root = work[p].root
          /\ work'[o].at = "plan"
      BY <1>0, <1>2, <2>1, Moved DEF Prepare
    <3>3. /\ \A d \in Root : d # work[o].root => bundle'[d] = bundle[d]
          /\ bundle'[work[o].root] =
                [written |-> 0, correlated |-> FALSE, intact |-> TRUE, actions |-> <<>>]
      BY <1>0, <1>2, <1>s, <2>1 DEF Prepare, TypeOK
    <3>4. bundle'[work[o].root] # None /\ bundle'[work[o].root].intact
      <4>1. [written |-> 0, correlated |-> FALSE, intact |-> TRUE, actions |-> <<>>] \in Bundle
        BY DEF Bundle, Artifact
      <4>2. bundle'[work[o].root] \in Bundle
        BY <3>3, <4>1, Zenon
      <4>3. bundle'[work[o].root].intact
        BY <3>3
      <4> QED
        BY <4>2, <4>3, NoneIsNone
    <3> QED
      BY <1>0, <1>s, <3>1, <3>2, <3>3, <3>4 DEF OwnBundle
  <2>2. CASE bundle[work[o].root] # None
    BY <1>1, <1>2, <2>2 DEF Prepare
  <2> QED
    BY <2>1, <2>2
<1>3. ASSUME NEW o \in Operator, Context(o) PROVE OwnBundle'
  <2>1. CASE Goes(o, "done") /\ UNCHANGED bundle
    BY <1>1, <2>1
  <2>2. CASE Goes(o, "reserve") /\ bundle' = [bundle EXCEPT ![work[o].root].correlated = TRUE]
    <3>1. bundle[work[o].root] \in Bundle /\ bundle[work[o].root].intact
      BY <1>0, <1>3, <1>s DEF Context, OwnBundle, TypeOK
    <3>2. /\ \A p \in Operator : p # o => work'[p] = work[p]
          /\ \A p \in Operator : work'[p].root = work[p].root
          /\ work'[o].at = "reserve"
      BY <1>0, <2>2, Moved
    <3>3. /\ \A d \in Root : d # work[o].root => bundle'[d] = bundle[d]
          /\ bundle'[work[o].root].correlated /\ bundle'[work[o].root].intact
      BY <1>0, <1>s, <2>2, <3>1 DEF TypeOK, Bundle
    <3>4. bundle'[work[o].root] # None
      BY <1>s, <3>1, NoneIsNone DEF Stay
    <3> QED
      BY <1>0, <1>3, <1>s, <3>2, <3>3, <3>4 DEF OwnBundle, Context
  <2> QED
    BY <1>3, <2>1, <2>2 DEF Context
<1>4. ASSUME NEW o \in Operator, Capture(o) PROVE OwnBundle'
  <2>1. bundle[work[o].root] # None /\ got \in Tried
    BY <1>0, <1>4 DEF Capture, OwnBundle, OneCall
  <2>2. bundle'[work[o].root] # None
    BY <1>s, <2>1, NoneIsNone DEF Stay
  <2>3. work[o].at = "capture"
    BY <1>4 DEF Capture
  <2> QED
    BY <1>0, <1>4, <1>s, <2>1, <2>2, <2>3, Captured DEF OwnBundle
<1>5. ASSUME NEW o \in Operator,
             Reuse(o) \/ Begin(o) \/ Plan(o) \/ Reserve(o) \/ Execute(o)
             \/ ClaimRun(o) \/ Call(o) \/ Record(o) \/ Report(o) \/ Crash(o)
      PROVE  OwnBundle'
  BY <1>1, <1>5 DEF Reuse, Begin, Plan, Reserve, Execute, ClaimRun, Call, Record, Report, Crash
<1>6. ASSUME NEW d \in Root, Damage(d) PROVE OwnBundle'
  BY <1>0, <1>6 DEF OwnBundle, Damage
<1>7. CASE Recover \/ UNCHANGED vars
  BY <1>0, <1>7 DEF OwnBundle, Recover, vars
<1> QED
  BY <1>2, <1>3, <1>4, <1>5, <1>6, <1>7 DEF Next

(* What a failure and what the recorder make of the run. *)
LEMMA FailedRun ==
    ASSUME row \in Row, NEW code PROVE FailedRow(code).run.status = "FAILED"
<1>1. FailedRow(code).run = [row.run EXCEPT !.status = "FAILED", !.code = code]
  BY DEF Row, FailedRow
<1> QED
  BY <1>1 DEF Row

(* A record ends the run as its answer says, or leaves its status alone.   *)
LEMMA RecordedRun ==
    ASSUME row \in Row, NEW o \in Operator, Record(o)
    PROVE  \/ /\ row'.run.status = "SUCCEEDED" /\ ErrorCode("openai", got) = None
              /\ row'.run.counts = IF Answered(got) THEN Classify(got.actions) ELSE None
           \/ row'.run.status = "FAILED"
           \/ row'.run.status = row.run.status
<1> DEFINE code == ErrorCode("openai", got)
           counts == IF Answered(got) THEN Classify(got.actions) ELSE None
           run == [status |-> IF code = None THEN "SUCCEEDED" ELSE "FAILED",
                   code |-> code, counts |-> counts]
<1>1. \/ \E end : row' = [row EXCEPT !.run = run, !.scan = end]
      \/ row' = [row EXCEPT !.run.code = "ACCOUNTING_UNRESOLVED", !.run.counts = counts]
  BY DEF Record
<1>2. /\ run.counts = counts
      /\ run.status = IF code = None THEN "SUCCEEDED" ELSE "FAILED"
  OBVIOUS
<1> HIDE DEF run, counts, code
<1>3. \A r, end : [row EXCEPT !.run = r, !.scan = end].run = r
  BY DEF Row
<1>4. \A c, n : [row EXCEPT !.run.code = c, !.run.counts = n].run.status = row.run.status
  BY DEF Row
<1>5. row'.run = run \/ row'.run.status = row.run.status
  <2>1. ASSUME NEW end, row' = [row EXCEPT !.run = run, !.scan = end] PROVE row'.run = run
    BY <1>3, <2>1
  <2>2. ASSUME row' = [row EXCEPT !.run.code = "ACCOUNTING_UNRESOLVED", !.run.counts = counts]
        PROVE  row'.run.status = row.run.status
    BY <1>4, <2>2
  <2> QED
    BY <1>1, <2>1, <2>2
<1> QED
  BY <1>2, <1>5 DEF counts, code

(* The owner claimed a run that was PENDING, so it alone calls, and once.  *)
LEMMA CallStep == ASSUME LiveAssumption, IInv, [Next]_vars, TypeOK', Stay PROVE OneCall'
<1> USE DEF Owning, BeforeCall
<1>0. TypeOK /\ OneOwner /\ OneCall /\ (row # None => row' # None)
  BY NoneIsNone DEF IInv, Stay
<1>r. row # None => row \in Row
  BY <1>0 DEF TypeOK
<1>1. ASSUME NEW o \in Operator, NEW at, Goes(o, at), UNCHANGED <<row, posts, got>>,
             at \in BeforeCall => work[o].at \in BeforeCall,
             at \notin {"call", "capture", "record"}
      PROVE  OneCall'
  BY <1>0, <1>1, Moved DEF OneCall
<1>2. ASSUME NEW o \in Operator,
             Reuse(o) \/ Begin(o) \/ Prepare(o) \/ Context(o) \/ Report(o) \/ Crash(o)
      PROVE  OneCall'
  BY <1>1, <1>2 DEF Reuse, Begin, Prepare, Context, Report, Crash
<1>3. ASSUME NEW o \in Operator, Plan(o) PROVE OneCall'
  <2>1. CASE row = None
    <3>1. posts = 0 /\ \A p \in Operator : work[p].at \notin Owning
      BY <1>0, <2>1 DEF OneCall, OneOwner, Owner
    <3>2. row'.run.status = "PENDING"
      BY <1>3, <2>1 DEF Plan, NewRow
    <3>3. /\ work'[o].at = "context"
          /\ \A p \in Operator : p # o => work'[p] = work[p]
      BY <1>0, <1>3, <2>1, Moved DEF Plan
    <3> QED
      BY <1>0, <1>3, <2>1, <3>1, <3>2, <3>3 DEF OneCall, Plan
  <2>2. CASE row # None
    BY <1>1, <1>3, <2>2 DEF Plan
  <2> QED
    BY <2>1, <2>2
<1>4. ASSUME NEW o \in Operator, NEW at, Goes(o, at), Owner(o), UNCHANGED <<posts, got>>,
             row'.run.status = "PENDING" => posts = 0,
             at \in BeforeCall => posts = 0 /\ row'.run.status \in {"PENDING", "FAILED"},
             at = "call" => posts = 0 /\ row'.run.status = "RUNNING",
             at \notin {"capture", "record"}
      PROVE  OneCall'
  <2>1. \A p \in Operator : p # o => work[p].at \notin Owning /\ work'[p] = work[p]
    BY <1>0, <1>4, Moved DEF OneOwner, Owner
  <2>2. work'[o].at = at /\ row # None
    BY <1>0, <1>4, Moved DEF OneOwner
  <2> QED
    BY <1>0, <1>4, <2>1, <2>2 DEF OneCall
<1>5. ASSUME NEW o \in Operator, Reserve(o) PROVE OneCall'
  <2>1. row \in Row /\ Owner(o) /\ posts = 0 /\ row.run.status \in {"PENDING", "FAILED"}
    BY <1>0, <1>5, <1>r DEF Reserve, OneCall, OneOwner, Owner
  <2>2. \/ row'.run.status = row.run.status /\ Goes(o, "execute")
        \/ row'.run.status = "FAILED" /\ Goes(o, "done")
    BY <1>5, <2>1, FailedRun DEF Reserve, Row
  <2> QED
    BY <1>4, <1>5, <2>1, <2>2 DEF Reserve
<1>6. ASSUME NEW o \in Operator, Execute(o) PROVE OneCall'
  <2>1. row \in Row /\ Owner(o) /\ posts = 0 /\ row.run.status \in {"PENDING", "FAILED"}
    BY <1>0, <1>6, <1>r DEF Execute, OneCall, OneOwner, Owner
  <2>2. row'.run.status = row.run.status /\ (Goes(o, "claim") \/ Goes(o, "report"))
    BY <1>6, <2>1 DEF Execute, Row
  <2> QED
    BY <1>4, <1>6, <2>1, <2>2 DEF Execute
<1>7. ASSUME NEW o \in Operator, ClaimRun(o) PROVE OneCall'
  <2>1. row \in Row /\ Owner(o) /\ posts = 0 /\ row.run.status \in {"PENDING", "FAILED"}
    BY <1>0, <1>7, <1>r DEF ClaimRun, OneCall, OneOwner, Owner
  <2>2. \/ row'.run.status = "RUNNING" /\ Goes(o, "call")
        \/ row'.run.status = row.run.status /\ Goes(o, "report")
    BY <1>7, <2>1 DEF ClaimRun, Row
  <2> QED
    BY <1>4, <1>7, <2>1, <2>2 DEF ClaimRun
<1>8. ASSUME NEW o \in Operator, Call(o) PROVE OneCall'
  <2>1. posts = 0 /\ posts' = 1 /\ got' \in Tried /\ UNCHANGED row
        /\ row.run.status = "RUNNING" /\ row # None /\ Owner(o)
    BY <1>0, <1>8 DEF Call, OneCall, OneOwner, Owner
  <2>2. PICK at \in {"capture", "record"} : Goes(o, at)
    BY <1>8 DEF Call
  <2>3. \A p \in Operator : p # o => work[p].at \notin Owning /\ work'[p] = work[p]
    BY <1>0, <2>1, <2>2, Moved DEF OneOwner, Owner
  <2>4. work'[o].at \in {"capture", "record"}
    BY <1>0, <2>2, Moved
  <2> QED
    BY <1>0, <2>1, <2>3, <2>4 DEF OneCall
<1>9. ASSUME NEW o \in Operator, Capture(o) PROVE OneCall'
  <2>1. bundle[work[o].root] # None /\ got \in Tried /\ work[o].at = "capture"
    BY <1>9 DEF Capture, IInv, OwnBundle, OneCall
  <2>2. /\ work'[o].at = "record"
        /\ \A p \in Operator : p # o => work'[p] = work[p]
    BY <1>0, <1>9, <2>1, Captured
  <2> QED
    BY <1>0, <1>9, <2>1, <2>2 DEF OneCall, Capture
<1>10. ASSUME NEW o \in Operator, Record(o) PROVE OneCall'
  <2>1. row \in Row /\ Owner(o) /\ posts = 1 /\ row.run.status = "RUNNING"
    BY <1>0, <1>10, <1>r DEF Record, OneCall, OneOwner, Owner
  <2>2. row'.run.status \in {"SUCCEEDED", "FAILED", "RUNNING"} /\ Goes(o, "report")
    BY <1>10, <2>1, RecordedRun DEF Record
  <2> QED
    BY <1>4, <1>10, <2>1, <2>2 DEF Record
<1>11. CASE Recover
  <2>1. row \in Row /\ row.run.status = "PENDING" /\ row'.run.status = "FAILED"
    BY <1>r, <1>11 DEF Recover, FailedRow, Row
  <2> QED
    BY <1>0, <1>11, <2>1 DEF OneCall, Recover
<1>12. CASE (\E d \in Root : Damage(d)) \/ UNCHANGED vars
  BY <1>0, <1>12 DEF OneCall, Damage, vars
<1> QED
  BY <1>2, <1>3, <1>5, <1>6, <1>7, <1>8, <1>9, <1>10, <1>11, <1>12 DEF Next

(* What is not an answer has a code: it is no success. *)
LEMMA ErrorsAreNamed ==
    ASSUME LiveAssumption, NEW a \in Tried, ErrorCode("openai", a) = None PROVE Answered(a)
<1> SUFFICES ASSUME ~Answered(a) PROVE FALSE
  OBVIOUS
<1> DEFINE f == CHOOSE f \in a.faults : f \in DOMAIN Unanswered
<1>1. PICK g : g \in a.faults /\ g \in DOMAIN Unanswered
  BY DEF Answered
<1>2. f \in DOMAIN Unanswered
  BY <1>1
<1>3. ErrorCode("openai", a) = Unanswered[f]
  BY DEF ErrorCode
<1> QED
  BY <1>2, <1>3, NoneIsNone

(* A run that is not RUNNING any more stays as it is. *)
Same == row # None /\ row.run.status = "SUCCEEDED" => row'.run = row.run

(* A run succeeds with the counts of its answer, and stays as it ended.    *)
LEMMA RunStep ==
    ASSUME LiveAssumption, IInv, [Next]_vars, TypeOK', Stay PROVE Succeeded' /\ Same
<1>0. TypeOK /\ OneOwner /\ OneCall /\ Succeeded /\ (row # None => row' # None)
  BY NoneIsNone DEF IInv, Stay
<1>r. row # None => row \in Row
  BY <1>0 DEF TypeOK
<1>1. ASSUME NEW o \in Operator, Reuse(o) \/ Begin(o) \/ Prepare(o) \/ Context(o) \/ Capture(o)
                                 \/ Report(o) \/ Crash(o)
      PROVE  UNCHANGED <<row, posts, got>>
  BY <1>1 DEF Reuse, Begin, Prepare, Context, Capture, Report, Crash
<1>2. ASSUME UNCHANGED <<row, posts, got>> PROVE Succeeded' /\ Same
  BY <1>0, <1>2 DEF Succeeded, Same
<1>3. ASSUME NEW o \in Operator, Plan(o) PROVE Succeeded' /\ Same
  BY <1>0, <1>3 DEF Plan, NewRow, Succeeded, Same
<1>4. ASSUME NEW o \in Operator, Call(o) PROVE Succeeded' /\ Same
  <2>1. UNCHANGED row /\ row.run.status = "RUNNING"
    BY <1>0, <1>4 DEF Call, OneCall
  <2> QED
    BY <2>1 DEF Succeeded, Same
<1>5. ASSUME row # None, row.run.status # "SUCCEEDED", row'.run.status # "SUCCEEDED"
      PROVE  Succeeded' /\ Same
  BY <1>5 DEF Succeeded, Same
<1>6. ASSUME NEW o \in Operator, Reserve(o) \/ Execute(o) \/ ClaimRun(o) PROVE Succeeded' /\ Same
  <2>1. row # None /\ row.run.status \in {"PENDING", "FAILED"}
    BY <1>0, <1>6 DEF Reserve, Execute, ClaimRun, OneCall, BeforeCall, OneOwner, Owner, Owning
  <2>2. row \in Row
    BY <1>r, <2>1
  <2>3. row'.run.status \in {row.run.status, "FAILED", "RUNNING"}
    <3>1. CASE Reserve(o)
      BY <2>2, <3>1, FailedRun DEF Reserve, Row
    <3>2. CASE Execute(o)
      BY <2>2, <3>2 DEF Execute, Row
    <3>3. CASE ClaimRun(o)
      BY <2>2, <3>3 DEF ClaimRun, Row
    <3> QED
      BY <1>6, <3>1, <3>2, <3>3
  <2> QED
    BY <1>5, <2>1, <2>3
<1>7. ASSUME NEW o \in Operator, Record(o) PROVE Succeeded' /\ Same
  <2>1. row \in Row /\ row # None /\ row.run.status = "RUNNING" /\ posts = 1 /\ got \in Tried
    BY <1>0, <1>7, <1>r DEF Record, OneCall, OneOwner, Owner, Owning
  <2>2. posts' = posts /\ got' = got
    BY <1>7 DEF Record
  <2>3. CASE row'.run.status # "SUCCEEDED"
    BY <1>5, <2>1, <2>3
  <2>4. CASE row'.run.status = "SUCCEEDED"
    <3>1. /\ ErrorCode("openai", got) = None
          /\ row'.run.counts = IF Answered(got) THEN Classify(got.actions) ELSE None
      BY <1>7, <2>1, <2>4, RecordedRun
    <3>2. Answered(got)
      BY <2>1, <3>1, ErrorsAreNamed
    <3>3. row'.run.counts = Classify(got'.actions) /\ Answered(got')
          /\ ErrorCode("openai", got') = None /\ posts' = 1
      BY <2>1, <2>2, <3>1, <3>2
    <3> QED
      BY <2>1, <3>3 DEF Succeeded, Same
  <2> QED
    BY <2>3, <2>4
<1>8. CASE Recover
  <2>1. row # None /\ row \in Row /\ row.run.status = "PENDING" /\ row'.run.status = "FAILED"
    BY <1>r, <1>8, FailedRun DEF Recover
  <2> QED
    BY <1>5, <2>1
<1>9. CASE (\E d \in Root : Damage(d)) \/ UNCHANGED vars
  BY <1>2, <1>9 DEF Damage, vars
<1> QED
  BY <1>1, <1>2, <1>3, <1>4, <1>6, <1>7, <1>8, <1>9 DEF Next

(* One answer there is, and all that is written is of it. *)
LEMMA WrittenStep ==
    ASSUME LiveAssumption, IInv, [Next]_vars, TypeOK', Stay PROVE Written'
<1>0. TypeOK /\ OneOwner /\ OwnBundle /\ OneCall /\ Written /\ Len(Artifact) = 6
  BY DEF IInv, Artifact
<1>s. \A o \in Operator : work[o].root \in Root
  BY <1>0 DEF TypeOK
<1>1. ASSUME NEW o \in Operator, NEW at, Goes(o, at), UNCHANGED <<bundle, posts, got>>,
             at \in {"record", "report"} => work[o].at = "record" \/ posts = 0 \/ ~Answered(got)
      PROVE  Written'
  BY <1>0, <1>1, Moved DEF Written, Kept
<1>2. ASSUME NEW o \in Operator,
             Reuse(o) \/ Begin(o) \/ Plan(o) \/ Reserve(o) \/ Execute(o) \/ ClaimRun(o)
             \/ Record(o) \/ Report(o) \/ Crash(o)
      PROVE  Written'
  BY <1>0, <1>1, <1>2 DEF Reuse, Begin, Plan, Reserve, Execute, ClaimRun, Record, Report, Crash,
                          OneCall, BeforeCall
<1>3. ASSUME NEW o \in Operator, Prepare(o) PROVE Written'
  <2>1. CASE bundle[work[o].root] = None
    <3>1. \A p \in Operator : work[p].at \in {"record", "report"} => work[p].root # work[o].root
      BY <1>0, <2>1 DEF OwnBundle, Owning
    <3>2. /\ \A p \in Operator : p # o => work'[p] = work[p]
          /\ work'[o].at = "plan"
      BY <1>0, <1>3, <2>1, Moved DEF Prepare
    <3>3. /\ \A d \in Root : d # work[o].root => bundle'[d] = bundle[d]
          /\ bundle'[work[o].root].written = 0
      BY <1>0, <1>3, <1>s, <2>1 DEF Prepare, TypeOK
    <3>4. UNCHANGED <<posts, got>>
      BY <1>3 DEF Prepare
    <3> QED
      BY <1>0, <1>s, <3>1, <3>2, <3>3, <3>4 DEF Written, Kept
  <2>2. CASE bundle[work[o].root] # None
    BY <1>1, <1>3, <2>2 DEF Prepare
  <2> QED
    BY <2>1, <2>2
<1>4. ASSUME NEW o \in Operator, Context(o) PROVE Written'
  <2>1. CASE Goes(o, "done") /\ UNCHANGED bundle
    BY <1>1, <1>4, <2>1 DEF Context
  <2>2. CASE Goes(o, "reserve") /\ bundle' = [bundle EXCEPT ![work[o].root].correlated = TRUE]
    <3>1. bundle[work[o].root] \in Bundle /\ UNCHANGED <<posts, got>>
      BY <1>0, <1>4, <1>s DEF Context, OwnBundle, Owning, TypeOK
    <3>2. /\ \A p \in Operator : p # o => work'[p] = work[p]
          /\ work'[o].at = "reserve"
      BY <1>0, <2>2, Moved
    <3>3. /\ \A d \in Root : d # work[o].root => bundle'[d] = bundle[d]
          /\ bundle'[work[o].root].written = bundle[work[o].root].written
          /\ bundle'[work[o].root].actions = bundle[work[o].root].actions
      BY <1>0, <1>s, <2>2, <3>1 DEF TypeOK, Bundle
    <3>4. bundle[work[o].root] # None
      BY <3>1, NoneIsNone
    <3> QED
      BY <1>0, <1>s, <3>1, <3>2, <3>3, <3>4 DEF Written, Kept
  <2> QED
    BY <1>4, <2>1, <2>2 DEF Context
<1>5. ASSUME NEW o \in Operator, Call(o) PROVE Written'
  <2>1. posts = 0 /\ UNCHANGED bundle /\ posts' = 1
    BY <1>0, <1>5 DEF Call, OneCall
  <2>2. \A d \in Root : bundle[d] # None => bundle[d].written = 0
    BY <1>0, <2>1 DEF Written
  <2>3. PICK at \in {"capture", "record"} : Goes(o, at) /\ (at = "record" => ~Answered(got'))
    <3>1. PICK a \in Tried :
             /\ got' = a
             /\ Goes(o, IF a.faults \cap {"timeout", "down"} = {} THEN "capture" ELSE "record")
      BY <1>5 DEF Call
    <3>2. a.faults \cap {"timeout", "down"} # {} => ~Answered(a)
      BY DEF Answered, Unanswered
    <3> QED
      BY <3>1, <3>2
  <2>4. \A p \in Operator : p # o => work[p].at \notin Owning /\ work'[p] = work[p]
    BY <1>0, <1>5, <2>3, Moved DEF OneOwner, Owner, Owning, Call
  <2>5. work'[o].at = "record" => ~Answered(got')
    BY <1>0, <2>3, Moved
  <2>6. work'[o].at \in {"capture", "record"}
    BY <1>0, <2>3, Moved
  <2> QED
    BY <2>1, <2>2, <2>4, <2>5, <2>6 DEF Written, Owning
<1>6. ASSUME NEW o \in Operator, Capture(o) PROVE Written'
  <2>1. bundle[work[o].root] # None /\ got \in Tried /\ posts = 1 /\ work[o].at = "capture"
    BY <1>0, <1>6 DEF Capture, OwnBundle, OneCall, Owning
  <2>2. \A p \in Operator : p # o => work[p].at \notin Owning /\ work'[p] = work[p]
    BY <1>0, <1>6, <2>1, Captured DEF OneOwner, Owner, Owning
  <2>3. UNCHANGED <<posts, got>>
    BY <1>6 DEF Capture
  <2>4. /\ \A d \in Root : d # work[o].root => bundle'[d] = bundle[d]
        /\ bundle'[work[o].root].actions = got.actions
        /\ ~work'[o].error => bundle'[work[o].root].written = Len(Artifact)
        /\ work'[o].root = work[o].root
    BY <1>0, <1>6, <2>1, Captured
  <2> QED
    BY <1>0, <1>s, <2>1, <2>2, <2>3, <2>4 DEF Written, Kept, Owning
<1>7. ASSUME NEW d \in Root, Damage(d) PROVE Written'
  <2>1. bundle[d] \in Bundle /\ bundle[d] # None
    BY <1>0, <1>7 DEF Damage, TypeOK
  <2>2. /\ bundle'[d].written = bundle[d].written /\ bundle'[d].actions = bundle[d].actions
        /\ \A e \in Root : e # d => bundle'[e] = bundle[e]
    BY <1>0, <1>7, <2>1 DEF Damage, TypeOK, Bundle
  <2> QED
    BY <1>0, <1>7, <2>1, <2>2 DEF Written, Kept, Damage
<1>8. CASE Recover \/ UNCHANGED vars
  BY <1>0, <1>8 DEF Written, Kept, Recover, vars
<1> QED
  BY <1>2, <1>3, <1>4, <1>5, <1>6, <1>7, <1>8 DEF Next

(* The codes of a run that failed its validations. *)
LEMMA NoErrorIsBounded ==
    ASSUME LiveAssumption, NEW a \in Tried, Answered(a), ErrorCode("openai", a) = None
    PROVE  a.actions # <<>> /\ Len(a.actions) <= MaxToolCalls
<1> DEFINE v == Validations("openai", a)
           least == CHOOSE i \in Failed("openai", a) : \A j \in Failed("openai", a) : i <= j
<1>1. v = << <<"incomplete" \notin a.faults, "MALFORMED_RESPONSE">>,
             <<"empty" \notin a.faults, "MALFORMED_RESPONSE">>,
             <<Mode("openai") # "WEB_GROUNDED" \/ a.actions # <<>>, "SEARCH_ERROR">>,
             <<Len(a.actions) <= MaxToolCalls, "PROVIDER_CONTRACT_VIOLATION">> >>
  BY DEF Validations
<1>2. Failed("openai", a) \subseteq 1 .. 4
  BY <1>1 DEF Failed
<1>3. Failed("openai", a) # {} => least \in Failed("openai", a)
  <2> SUFFICES ASSUME Failed("openai", a) # {}
               PROVE  \E i \in Failed("openai", a) : \A j \in Failed("openai", a) : i <= j
    OBVIOUS
  <2> QED
    BY <1>2
<1>4. \A i \in 1 .. 4 : v[i][2] # None
  <2>1. Unanswered["unparseable"] = "MALFORMED_RESPONSE" /\ "unparseable" \in DOMAIN Unanswered
    BY DEF Unanswered
  <2>2. "MALFORMED_RESPONSE" # None
    BY <2>1, NoneIsNone
  <2> QED
    BY <1>1, <2>2, NoneIsNone
<1>5. Failed("openai", a) = {}
  BY <1>2, <1>3, <1>4 DEF ErrorCode
<1>6. v[3][1] /\ v[4][1]
  BY <1>1, <1>5 DEF Failed
<1>7. /\ v[3][1] = (Mode("openai") # "WEB_GROUNDED" \/ a.actions # <<>>)
      /\ v[4][1] = (Len(a.actions) <= MaxToolCalls)
  BY <1>1
<1>8. Mode("openai") = "WEB_GROUNDED"
  BY DEF Mode
<1> HIDE DEF v
<1> QED
  BY <1>6, <1>7, <1>8, Zenon

(* A passing report is one of a run that succeeded and of evidence that    *)
(* was kept: the counts it looks at are not unknown.                       *)
LEMMA PassNeeds ==
    ASSUME NEW run, NEW error, Outcome(run, error) = "PASS"
    PROVE  ~error /\ run.status = "SUCCEEDED" /\ ~(run.counts.unknown > 0)
BY DEF Outcome

(* A report passes only on a valid bundle of the run's answer.             *)
LEMMA SaidStep ==
    ASSUME LiveAssumption, IInv, [Next]_vars, TypeOK', Stay PROVE SaidPass'
<1>0. TypeOK /\ OneOwner /\ OwnBundle /\ OneCall /\ Written /\ Succeeded /\ SaidPass
      /\ (row # None => row' # None)
  BY NoneIsNone DEF IInv, Stay
<1>1. Same
  BY RunStep
<1>2. posts = 1 => got' = got
  <2>1. ASSUME NEW o \in Operator, Call(o) PROVE posts = 0
    BY <1>0, <2>1 DEF Call, OneCall
  <2>2. ASSUME NEW o \in Operator,
               Reuse(o) \/ Begin(o) \/ Prepare(o) \/ Plan(o) \/ Context(o) \/ Reserve(o)
               \/ Execute(o) \/ ClaimRun(o) \/ Capture(o) \/ Record(o) \/ Report(o) \/ Crash(o)
        PROVE  got' = got
    BY <2>2 DEF Reuse, Begin, Prepare, Plan, Context, Reserve, Execute, ClaimRun, Capture,
                Record, Report, Crash
  <2> QED
    BY <2>1, <2>2 DEF Next, vars, Recover, Damage
<1>3. ASSUME UNCHANGED said PROVE SaidPass'
  BY <1>0, <1>1, <1>2, <1>3 DEF SaidPass, Same, Succeeded
<1>4. ASSUME NEW o \in Operator, NEW error, Says(o, error), row # None,
             UNCHANGED <<bundle, row, posts, got>>,
             /\ row.run.status = "SUCCEEDED" /\ ~error =>
                   Valid(bundle[work[o].root]) /\ bundle[work[o].root].actions = got.actions
      PROVE  SaidPass'
  <2>1. /\ said'[o] = [outcome |-> Outcome(row.run, error), on |-> bundle[work[o].root]]
        /\ \A p \in Operator : p # o => said'[p] = said[p]
    BY <1>0, <1>4 DEF Says, TypeOK
  <2>2. ASSUME said'[o].outcome = "PASS"
        PROVE  /\ row.run.status = "SUCCEEDED" /\ ~(row.run.counts.unknown > 0)
               /\ Valid(said'[o].on) /\ said'[o].on.actions = got.actions
    BY <1>4, <2>1, <2>2, PassNeeds
  <2> QED
    BY <1>0, <1>4, <2>1, <2>2 DEF SaidPass
<1>5. ASSUME NEW o \in Operator, Reuse(o) PROVE SaidPass'
  <2>1. CASE UNCHANGED said
    BY <1>3, <2>1
  <2>2. CASE Says(o, ~Valid(bundle[work[o].root]))
    <3>1. Valid(bundle[work[o].root]) => bundle[work[o].root].actions = got.actions
      BY <1>0 DEF Valid, Written, Artifact, TypeOK
    <3> QED
      BY <1>4, <1>5, <2>2, <3>1 DEF Reuse
  <2> QED
    BY <1>5, <2>1, <2>2 DEF Reuse
<1>6. ASSUME NEW o \in Operator, Report(o) PROVE SaidPass'
  <2>1. row # None /\ bundle[work[o].root] # None /\ bundle[work[o].root].intact
        /\ bundle[work[o].root].correlated
    BY <1>0, <1>6 DEF Report, OneOwner, Owner, OwnBundle, Owning
  <2>2. ASSUME row.run.status = "SUCCEEDED", ~work[o].error
        PROVE  Valid(bundle[work[o].root]) /\ bundle[work[o].root].actions = got.actions
    <3>1. posts = 1 /\ Answered(got) /\ ErrorCode("openai", got) = None /\ got \in Tried
      BY <1>0, <2>1, <2>2 DEF Succeeded, OneCall
    <3>2. Kept(bundle[work[o].root])
      BY <1>0, <1>6, <2>2, <3>1 DEF Written, Report
    <3>3. Classify(got.actions) # None
      BY <3>1, NoErrorIsBounded DEF LiveAssumption
    <3> QED
      BY <2>1, <3>2, <3>3 DEF Kept, Valid
  <2> QED
    BY <1>4, <1>6, <2>1, <2>2 DEF Report
<1>7. ASSUME NEW o \in Operator,
             Begin(o) \/ Prepare(o) \/ Plan(o) \/ Context(o) \/ Reserve(o) \/ Execute(o)
             \/ ClaimRun(o) \/ Call(o) \/ Capture(o) \/ Record(o) \/ Crash(o)
      PROVE  SaidPass'
  BY <1>3, <1>7 DEF Begin, Prepare, Plan, Context, Reserve, Execute, ClaimRun, Call, Capture,
                    Record, Crash
<1>8. CASE Recover \/ (\E d \in Root : Damage(d)) \/ UNCHANGED vars
  BY <1>3, <1>8 DEF Recover, Damage, vars
<1> QED
  BY <1>5, <1>6, <1>7, <1>8 DEF Next

-----------------------------------------------------------------------------
(* Nobody has begun, and nothing is there. *)
LEMMA InvInit == ASSUME LiveAssumption PROVE Init => IInv
<1> SUFFICES ASSUME Init PROVE IInv
  OBVIOUS
<1>1. PICK root \in [Operator -> Root] :
         work = [o \in Operator |-> [at |-> "start", root |-> root[o], error |-> FALSE]]
  BY DEF Init
<1>2. \A o \in Operator : work[o].at = "start" /\ said[o] = None
  BY <1>1 DEF Init
<1>3. bundle = [d \in Root |-> None] /\ row = None /\ posts = 0 /\ got = None
  BY DEF Init
<1> QED
  BY <1>2, <1>3, TypeInit DEF IInv, OneOwner, Owner, Owning, OwnBundle, OneCall, BeforeCall,
     Written, Succeeded, SaidPass

(* Every step of an invocation keeps IInv. *)
LEMMA InvStep == ASSUME LiveAssumption PROVE IInv /\ [Next]_vars => IInv'
<1> SUFFICES ASSUME IInv, [Next]_vars PROVE IInv'
  OBVIOUS
<1>1. TypeOK' /\ Stay
  BY TypeStep DEF IInv
<1> QED
  BY <1>1, OwnerStep, BundleStep, CallStep, RunStep, WrittenStep, SaidStep DEF IInv

(* Rows, directories, answers and reports keep their types. *)
THEOREM TypeCorrect == ASSUME LiveAssumption PROVE Spec => []TypeOK
<1>1. IInv => TypeOK
  BY DEF IInv
<1> QED
  BY <1>1, InvInit, InvStep, PTL DEF Spec

(* What IInv says of a passing report is what it has to prove: an answer   *)
(* with no unknown action counts nothing but actions of known types.       *)
LEMMA PassIsProven == ASSUME LiveAssumption PROVE IInv => ProvenPass
<1> SUFFICES ASSUME IInv PROVE ProvenPass
  OBVIOUS
<1>1. posts <= 1
  BY DEF IInv, OneCall
<1>2. ASSUME NEW o \in Operator, said[o] # None, said[o].outcome = "PASS"
      PROVE  /\ posts = 1
             /\ Valid(said[o].on)
             /\ Classify(said[o].on.actions) = row.run.counts
             /\ Count(got.actions, ActionType) = Len(got.actions)
             /\ Len(got.actions) <= MaxToolCalls
  <2>1. /\ row # None /\ row.run.status = "SUCCEEDED" /\ ~(row.run.counts.unknown > 0)
        /\ Valid(said[o].on) /\ said[o].on.actions = got.actions
    BY <1>2 DEF IInv, SaidPass
  <2>2. /\ posts = 1 /\ got \in Tried /\ Answered(got) /\ ErrorCode("openai", got) = None
        /\ row.run.counts = Classify(got.actions)
    BY <2>1 DEF IInv, Succeeded, OneCall
  <2>3. got.actions # <<>> /\ Len(got.actions) <= MaxToolCalls
    BY <2>2, NoErrorIsBounded
  <2>4. row.run.counts.unknown = Len(got.actions) - Count(got.actions, ActionType)
    BY <2>2, <2>3 DEF Classify
  <2>5. Len(got.actions) \in Nat /\ DOMAIN got.actions = 1 .. Len(got.actions)
    BY <2>2 DEF LiveAssumption
  <2>6. /\ Count(got.actions, ActionType) \in Nat
        /\ Count(got.actions, ActionType) <= Len(got.actions)
    <3> DEFINE known == {i \in DOMAIN got.actions : got.actions[i] \in ActionType}
    <3>1. /\ IsFiniteSet(1 .. Len(got.actions))
          /\ Cardinality(1 .. Len(got.actions)) = Len(got.actions)
      BY <2>5, FS_Interval
    <3>2. known \subseteq 1 .. Len(got.actions)
      BY <2>5
    <3>3. IsFiniteSet(known) /\ Cardinality(known) <= Len(got.actions)
      BY <3>1, <3>2, FS_Subset
    <3>4. Cardinality(known) \in Nat
      BY <3>3, FS_CardinalityType
    <3> QED
      BY <3>3, <3>4 DEF Count
  <2>7. Count(got.actions, ActionType) = Len(got.actions)
    BY <2>1, <2>4, <2>5, <2>6
  <2> QED
    BY <2>1, <2>2, <2>3, <2>7
<1> QED
  BY <1>1, <1>2 DEF ProvenPass

(* docs/LIVE_PROVIDER_VALIDATION.md: a validation id pays for one call,    *)
(* and passes only on a bundle that validates and holds the actions that   *)
(* were counted, whatever invocations race, die or are repeated.           *)
THEOREM PassProven == ASSUME LiveAssumption PROVE Spec => []ProvenPass
BY InvInit, InvStep, PassIsProven, PTL DEF Spec
=============================================================================
