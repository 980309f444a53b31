------------------------- MODULE QuotaLedgerProofs -------------------------
(***************************************************************************)
(* Proofs about QuotaLedger, for any number of workspaces, months, keys,   *)
(* checks and any limit.                                                   *)
(*                                                                         *)
(* Core is inductive.  The counters are compared with sets of checks: an   *)
(* action adds to, or takes from, such a set one slice of one reservation, *)
(* whose cardinality is the number of checks the action moves.             *)
(***************************************************************************)
EXTENDS QuotaLedger, FiniteSetTheorems, TLAPS

Core == TypeOK /\ CommittedWithin /\ StatusMatchesChecks

(* Checks a+1 .. b of reservation k. *)
Slice(k, a, b) == {k} \X ((a + 1)..b)

-----------------------------------------------------------------------------
(* Rows *)

(* The row updates of the service keep the types of rows. *)
LEMMA RowTypes ==
    ASSUME NEW r \in Reservation, NEW c \in Counters,
           NEW q \in 1..MaxChecks, r.committed <= r.reserved
    PROVE  /\ Remaining(r) \in Nat
           /\ q <= Remaining(r) => Consume(r, q) \in Reservation
           /\ GiveBack(r) \in Reservation
           /\ [r EXCEPT !.status = "EXPIRED"] \in Reservation
           /\ Debit(c, q) \in Counters
           /\ Transfer(c, q) \in Counters
           /\ Credit(c, Remaining(r)) \in Counters
<1>1. Remaining(r) \in Nat
  BY LedgerAssumption DEF Reservation, Remaining
<1>2. q <= Remaining(r) => Consume(r, q) \in Reservation
  <2> SUFFICES ASSUME q <= Remaining(r) PROVE Consume(r, q) \in Reservation
    OBVIOUS
  <2>1. r.committed + q \in 0..MaxChecks
    BY LedgerAssumption DEF Reservation, Remaining
  <2>2. (IF r.committed + q >= r.reserved THEN "COMMITTED" ELSE r.status) \in Status
    BY DEF Reservation, Status
  <2> QED
    BY <2>1, <2>2 DEF Reservation, Consume
<1>3. GiveBack(r) \in Reservation /\ [r EXCEPT !.status = "EXPIRED"] \in Reservation
  BY DEF Reservation, Status, GiveBack
<1>4. Debit(c, q) \in Counters /\ Transfer(c, q) \in Counters
  <2>1. q \in Int
    BY LedgerAssumption
  <2>2. Debit(c, q) \in Counters
    BY <2>1 DEF Counters, Debit
  <2>3. Transfer(c, q) \in Counters
    BY <2>1 DEF Counters, Transfer
  <2> QED
    BY <2>2, <2>3
<1>5. Credit(c, Remaining(r)) \in Counters
  BY <1>1 DEF Counters, Credit
<1> QED
  BY <1>1, <1>2, <1>3, <1>4, <1>5

(* A new reservation is a row. *)
LEMMA NewRowType ==
    ASSUME NEW p \in Period, NEW n \in 1..MaxChecks
    PROVE  NewReservation(p, n) \in Reservation
BY LedgerAssumption DEF NewReservation, Reservation, Status

-----------------------------------------------------------------------------
(* The core invariant *)

(* Init establishes the core invariant. *)
LEMMA CoreInit == Init => Core
<1> SUFFICES ASSUME Init PROVE Core
  OBVIOUS
<1>1. TypeOK
  BY LedgerAssumption DEF Init, TypeOK, Counters
<1>2. Reserved = {}
  BY DEF Init, Reserved
<1> QED
  BY <1>1, <1>2 DEF Core, CommittedWithin, StatusMatchesChecks

(* A grant leaves the rows alone. *)
LEMMA CoreGrant ==
    ASSUME Core, NEW w \in Workspace, NEW l \in 0..MaxLimit, GrantPlan(w, l)
    PROVE  Core'
BY DEF Core, GrantPlan, TypeOK, CommittedWithin, StatusMatchesChecks, Reserved

(* A new reservation keeps the core invariant. *)
LEMMA CoreReserve ==
    ASSUME Core, NEW k \in Key, NEW p \in Period, NEW n \in 1..MaxChecks, Reserve(k, p, n)
    PROVE  Core'
<1> USE DEF Core
<1>1. /\ period' = [period EXCEPT ![p] = Debit(@, n)]
      /\ resv' = [resv EXCEPT ![k] = NewReservation(p, n)]
      /\ UNCHANGED <<usage, peak>>
  BY DEF Reserve
<1>2. Debit(period[p], n) \in Counters
  BY LedgerAssumption DEF TypeOK, Counters, Debit
<1>3. TypeOK'
  BY <1>1, <1>2, NewRowType DEF TypeOK
<1>4. \A j \in Key : resv'[j] = IF j = k THEN NewReservation(p, n) ELSE resv[j]
  BY <1>1 DEF TypeOK
<1>5. CommittedWithin' /\ StatusMatchesChecks'
  BY <1>4, LedgerAssumption
     DEF CommittedWithin, StatusMatchesChecks, Reserved, NewReservation, Remaining
<1> QED
  BY <1>3, <1>5

(* A commit keeps the core invariant. *)
LEMMA CoreCommit ==
    ASSUME Core, NEW k \in Key, NEW q \in 1..MaxChecks, NEW u \in UsageKey, Commit(k, q, u)
    PROVE  Core'
<1> USE DEF Core
<1> DEFINE r == resv[k]
<1>1. /\ period' = [period EXCEPT ![r.period] = Transfer(@, q)]
      /\ resv' = [resv EXCEPT ![k] = Consume(@, q)]
      /\ usage' = [usage EXCEPT ![u] = [key |-> k, checks |-> q]]
      /\ UNCHANGED peak
      /\ q <= Remaining(r)
      /\ k \in Reserved
  BY DEF Commit, Settle, Reserved
<1>2. r \in Reservation /\ r.period \in Period /\ r.committed <= r.reserved
  BY <1>1 DEF TypeOK, CommittedWithin, Reserved, Reservation
<1>3. Consume(r, q) \in Reservation /\ Transfer(period[r.period], q) \in Counters
  BY <1>1, <1>2, RowTypes DEF TypeOK
<1>4. TypeOK'
  BY <1>1, <1>2, <1>3 DEF TypeOK, UsageEvent
<1>5. \A j \in Key : resv'[j] = IF j = k THEN Consume(r, q) ELSE resv[j]
  BY <1>1 DEF TypeOK
<1>6. /\ Consume(r, q).committed <= Consume(r, q).reserved
      /\ Consume(r, q).status = "COMMITTED" <=> Remaining(Consume(r, q)) = 0
  <2>1. r.status = "COMMITTED" <=> Remaining(r) = 0
    BY <1>1 DEF StatusMatchesChecks
  <2> QED
    BY <1>1, <1>2, <2>1, LedgerAssumption DEF Consume, Remaining, Reservation
<1>7. CommittedWithin' /\ StatusMatchesChecks'
  BY <1>1, <1>5, <1>6 DEF CommittedWithin, StatusMatchesChecks, Reserved
<1> QED
  BY <1>4, <1>7

(* A release keeps the core invariant. *)
LEMMA CoreRelease ==
    ASSUME Core, NEW k \in Key, Release(k)
    PROVE  Core'
<1> USE DEF Core
<1> DEFINE r == resv[k]
<1>1. /\ period' = [period EXCEPT ![r.period] = Credit(@, Remaining(r))]
      /\ resv' = [resv EXCEPT ![k] = GiveBack(@)]
      /\ UNCHANGED <<usage, peak>>
      /\ k \in Reserved
      /\ r.status = "ACTIVE"
  BY DEF Release, Refund, Active
<1>2. r \in Reservation /\ r.period \in Period /\ r.committed <= r.reserved
  BY <1>1 DEF TypeOK, CommittedWithin, Reserved, Reservation
<1>3. GiveBack(r) \in Reservation /\ Credit(period[r.period], Remaining(r)) \in Counters
  BY <1>2, LedgerAssumption
     DEF TypeOK, Reservation, Counters, Status, Remaining, GiveBack, Credit
<1>4. TypeOK'
  BY <1>1, <1>2, <1>3 DEF TypeOK
<1>5. \A j \in Key : resv'[j] = IF j = k THEN GiveBack(r) ELSE resv[j]
  BY <1>1 DEF TypeOK
<1>6. /\ GiveBack(r).committed <= GiveBack(r).reserved
      /\ GiveBack(r).status = "COMMITTED" <=> Remaining(GiveBack(r)) = 0
  BY <1>2, LedgerAssumption DEF GiveBack, Remaining, Reservation
<1>7. CommittedWithin' /\ StatusMatchesChecks'
  BY <1>1, <1>5, <1>6 DEF CommittedWithin, StatusMatchesChecks, Reserved
<1> QED
  BY <1>4, <1>7

(* An expiry keeps the core invariant, whichever credits it drops. *)
LEMMA CoreExpire ==
    ASSUME Core, NEW S \in SUBSET Key, NEW last \in [Period -> Key], Expire(S, last)
    PROVE  Core'
<1> USE DEF Core
<1>1. /\ period' = [p \in Period |->
                      IF p \in Periods(S) THEN Credit(period[p], Remaining(resv[last[p]]))
                                          ELSE period[p]]
      /\ resv' = [k \in Key |-> IF k \in S THEN [resv[k] EXCEPT !.status = "EXPIRED"]
                                           ELSE resv[k]]
      /\ UNCHANGED <<usage, peak>>
      /\ S \subseteq Active
      /\ \A p \in Periods(S) : last[p] \in S
  BY DEF Expire, Lapse
<1>2. \A k \in S : resv[k] \in Reservation /\ resv[k].committed <= resv[k].reserved
  BY <1>1 DEF TypeOK, CommittedWithin, Active, Reserved
<1>3. period' \in [Period -> Counters]
  <2>1. ASSUME NEW p \in Period PROVE period'[p] \in Counters
    <3>1. CASE p \in Periods(S)
      BY <1>1, <1>2, <3>1, LedgerAssumption
         DEF TypeOK, Reservation, Counters, Remaining, Credit
    <3>2. CASE p \notin Periods(S)
      BY <1>1, <3>2 DEF TypeOK
    <3> QED
      BY <3>1, <3>2
  <2> QED
    BY <1>1, <2>1
<1>4. resv' \in [Key -> Reservation \cup {NoRow}]
  <2>1. \A k \in S : [resv[k] EXCEPT !.status = "EXPIRED"] \in Reservation
    BY <1>2 DEF Reservation, Status
  <2> QED
    BY <1>1, <2>1 DEF TypeOK
<1>5. TypeOK'
  BY <1>1, <1>3, <1>4 DEF TypeOK
<1>6. ASSUME NEW k \in S
      PROVE  /\ resv'[k].committed = resv[k].committed
             /\ resv'[k].reserved = resv[k].reserved
             /\ resv'[k].status = "EXPIRED"
             /\ Remaining(resv[k]) # 0
             /\ k \in Reserved
  BY <1>1, <1>2 DEF Reservation, Active, StatusMatchesChecks
<1>7. \A k \in Key \ S : resv'[k] = resv[k]
  BY <1>1
<1>8. CommittedWithin'
  BY <1>2, <1>6, <1>7 DEF CommittedWithin, Reserved
<1>9. StatusMatchesChecks'
  BY <1>6, <1>7 DEF StatusMatchesChecks, Reserved, Remaining
<1> QED
  BY <1>5, <1>8, <1>9

(* A step that changes nothing keeps the core invariant. *)
LEMMA CoreStutter == Core /\ UNCHANGED vars => Core'
BY DEF Core, TypeOK, CommittedWithin, StatusMatchesChecks, Reserved, vars

(* The core invariant is inductive. *)
LEMMA CoreStep == Core /\ [Next]_vars => Core'
<1> SUFFICES ASSUME Core, [Next]_vars PROVE Core'
  OBVIOUS
<1>1. ASSUME NEW w \in Workspace, NEW l \in 0..MaxLimit, GrantPlan(w, l) PROVE Core'
  BY <1>1, CoreGrant
<1>2. ASSUME NEW k \in Key, NEW p \in Period, NEW n \in 1..MaxChecks, Reserve(k, p, n)
      PROVE  Core'
  BY <1>2, CoreReserve
<1>3. ASSUME NEW k \in Key, NEW q \in 1..MaxChecks, NEW u \in UsageKey, Commit(k, q, u)
      PROVE  Core'
  BY <1>3, CoreCommit
<1>4. ASSUME NEW k \in Key, Release(k) PROVE Core'
  BY <1>4, CoreRelease
<1>5. ASSUME NEW S \in SUBSET Key, NEW last \in [Period -> Key], Expire(S, last) PROVE Core'
  BY <1>5, CoreExpire
<1>6. CASE UNCHANGED vars
  BY <1>6, CoreStutter
<1> QED
  BY <1>1, <1>2, <1>3, <1>4, <1>5, <1>6 DEF Next, AppNext

(* The rows of the quota tables keep their types: no operation commits     *)
(* more checks than one reservation may hold.                              *)
THEOREM TypeCorrect == Spec => []TypeOK
<1>1. Init => Core
  BY CoreInit
<1>2. Core /\ [Next]_vars => Core'
  BY CoreStep
<1>3. Core => TypeOK
  BY DEF Core
<1> QED
  BY <1>1, <1>2, <1>3, PTL DEF Spec

(* COMMITTED says exactly that every check of the reservation was used.    *)
THEOREM StatusCorrect == Spec => []StatusMatchesChecks
<1>1. Core => StatusMatchesChecks
  BY DEF Core
<1> QED
  BY CoreInit, CoreStep, <1>1, PTL DEF Spec

-----------------------------------------------------------------------------
(* Finality *)

(* No operation rebinds a reservation, resizes it, or changes one that is  *)
(* over: a commit needs checks that a COMMITTED reservation has not.       *)
THEOREM ReservationFinality == Spec => ReservationIsFinal
<1> DEFINE Final == \A k \in Reserved :
                      /\ resv'[k] # NoRow
                      /\ resv'[k].period = resv[k].period
                      /\ resv'[k].reserved = resv[k].reserved
                      /\ resv[k].status # "ACTIVE" => resv'[k] = resv[k]
<1>1. Core /\ [Next]_vars => [Final]_vars
  <2> SUFFICES ASSUME Core, Next PROVE Final
    BY DEF Final
  <2>0. \A j \in Reserved : j \in Key /\ resv[j] \in Reservation /\ resv[j] # NoRow
    BY DEF Core, TypeOK, Reserved
  <2>1. ASSUME NEW w \in Workspace, NEW l \in 0..MaxLimit, GrantPlan(w, l) PROVE Final
    BY <2>0, <2>1 DEF GrantPlan
  <2>2. ASSUME NEW k \in Key, NEW p \in Period, NEW n \in 1..MaxChecks, Reserve(k, p, n)
        PROVE  Final
    BY <2>0, <2>2 DEF Reserve, Reserved, Core, TypeOK
  <2>3. ASSUME NEW k \in Key, NEW q \in 1..MaxChecks, NEW u \in UsageKey, Commit(k, q, u)
        PROVE  Final
    <3>1. /\ \A j \in Reserved : resv'[j] = IF j = k THEN Consume(resv[k], q) ELSE resv[j]
          /\ k \in Reserved
          /\ resv[k].status \in {"ACTIVE", "COMMITTED"}
          /\ q <= Remaining(resv[k])
      BY <2>3 DEF Commit, Settle, Reserved, Core, TypeOK
    <3>2. resv[k].status = "ACTIVE"
      BY <3>1, LedgerAssumption DEF Core, StatusMatchesChecks
    <3>3. /\ Consume(resv[k], q) # NoRow
          /\ Consume(resv[k], q).period = resv[k].period
          /\ Consume(resv[k], q).reserved = resv[k].reserved
      <4>1. Consume(resv[k], q) \in Reservation
        BY <2>0, <3>1, RowTypes DEF Core, CommittedWithin, TypeOK, Reservation
      <4> QED
        BY <2>0, <3>1, <4>1, NoRowAssumption DEF Consume, Reservation
    <3> QED
      BY <2>0, <3>1, <3>2, <3>3
  <2>4. ASSUME NEW k \in Key, Release(k) PROVE Final
    BY <2>0, <2>4, NoRowAssumption
       DEF Release, Refund, Active, Reserved, GiveBack, Reservation, Core, TypeOK, Status
  <2>5. ASSUME NEW S \in SUBSET Key, NEW last \in [Period -> Key], Expire(S, last)
        PROVE  Final
    BY <2>0, <2>5, NoRowAssumption
       DEF Expire, Lapse, Active, Reserved, Reservation, Core, TypeOK, Status
  <2> QED
    BY <2>1, <2>2, <2>3, <2>4, <2>5 DEF Next, AppNext
<1> QED
  BY CoreInit, CoreStep, <1>1, PTL DEF Spec, ReservationIsFinal

-----------------------------------------------------------------------------
(* Sets of checks *)

Check == Key \X (1..MaxChecks)

(* A check is in a slice when its reservation and its index say so. *)
LEMMA InSlice ==
    ASSUME NEW c \in Check, NEW k \in Key, NEW a \in Nat, NEW b \in Nat
    PROVE  c \in Slice(k, a, b) <=> c[1] = k /\ a < c[2] /\ c[2] <= b
<1>1. PICK j \in Key, i \in 1..MaxChecks : c = <<j, i>>
  BY DEF Check
<1> QED
  BY <1>1, LedgerAssumption DEF Slice

(* A slice holds as many checks as its bounds say. *)
LEMMA SliceCardinality ==
    ASSUME NEW k, NEW a \in Nat, NEW b \in Nat, a <= b
    PROVE  IsFiniteSet(Slice(k, a, b)) /\ Cardinality(Slice(k, a, b)) = b - a
<1>1. IsFiniteSet({k}) /\ Cardinality({k}) = 1
  BY FS_Singleton
<1>2. IsFiniteSet((a + 1)..b) /\ Cardinality((a + 1)..b) = b - a
  <2>1. a + 1 \in Int /\ b \in Int
    OBVIOUS
  <2>2. /\ IsFiniteSet((a + 1)..b)
        /\ Cardinality((a + 1)..b) = IF a + 1 > b THEN 0 ELSE b - (a + 1) + 1
    BY <2>1, FS_Interval, Zenon
  <2> QED
    BY <2>2
<1>3. /\ IsFiniteSet({k} \X ((a + 1)..b))
      /\ Cardinality({k} \X ((a + 1)..b)) = Cardinality({k}) * Cardinality((a + 1)..b)
  BY <1>1, <1>2, FS_Product, Zenon
<1> QED
  BY <1>1, <1>2, <1>3 DEF Slice

(* A slice of checks that were not in the set adds its number. *)
LEMMA AddSlice ==
    ASSUME NEW S, IsFiniteSet(S), NEW k, NEW a \in Nat, NEW b \in Nat, a <= b,
           S \cap Slice(k, a, b) = {}
    PROVE  Cardinality(S \cup Slice(k, a, b)) = Cardinality(S) + (b - a)
<1>1. IsFiniteSet(Slice(k, a, b)) /\ Cardinality(Slice(k, a, b)) = b - a
  BY SliceCardinality
<1>2. Cardinality(S \cup Slice(k, a, b))
        = Cardinality(S) + Cardinality(Slice(k, a, b)) - Cardinality(S \cap Slice(k, a, b))
  BY <1>1, FS_Union
<1>3. Cardinality(S \cap Slice(k, a, b)) = 0 /\ Cardinality(S) \in Nat
  BY FS_EmptySet, FS_CardinalityType
<1> QED
  BY <1>1, <1>2, <1>3

(* A slice of checks of the set, taken away, subtracts its number. *)
LEMMA DropSlice ==
    ASSUME NEW S, IsFiniteSet(S), NEW k, NEW a \in Nat, NEW b \in Nat, a <= b,
           Slice(k, a, b) \subseteq S
    PROVE  Cardinality(S \ Slice(k, a, b)) = Cardinality(S) - (b - a)
<1>1. Cardinality(Slice(k, a, b)) = b - a
  BY SliceCardinality
<1>2. Cardinality(S \ Slice(k, a, b))
        = Cardinality(S) - Cardinality(S \cap Slice(k, a, b))
  BY FS_Difference
<1>3. S \cap Slice(k, a, b) = Slice(k, a, b)
  OBVIOUS
<1> QED
  BY <1>1, <1>2, <1>3

(* There are finitely many checks. *)
LEMMA CheckFinite == IsFiniteSet(Check)
<1>1. IsFiniteSet(1..MaxChecks)
  BY LedgerAssumption, FS_Interval
<1> QED
  BY <1>1, LedgerAssumption, FS_Product, Zenon DEF Check

(* Every set of checks is finite. *)
LEMMA ChecksFinite ==
    ASSUME NEW p
    PROVE  /\ IsFiniteSet(CommittedChecks(p))
           /\ IsFiniteSet(HeldChecks(p))
           /\ CommittedChecks(p) \subseteq Check
           /\ HeldChecks(p) \subseteq Check
<1>1. CommittedChecks(p) \in SUBSET Check /\ HeldChecks(p) \in SUBSET Check
  BY DEF CommittedChecks, HeldChecks, Check
<1> QED
  BY <1>1, CheckFinite, FS_Subset

(* A reservation adds its checks to those held of its period. *)
LEMMA ReserveChecks ==
    ASSUME Core, NEW k \in Key, NEW p \in Period, NEW n \in 1..MaxChecks, Reserve(k, p, n)
    PROVE  /\ \A x \in Period : CommittedChecks(x)' = CommittedChecks(x)
           /\ \A x \in Period : HeldChecks(x)' =
                 IF x = p THEN HeldChecks(x) \cup Slice(k, 0, n) ELSE HeldChecks(x)
           /\ HeldChecks(p) \cap Slice(k, 0, n) = {}
<1>1. /\ \A j \in Key : resv'[j] = IF j = k THEN NewReservation(p, n) ELSE resv[j]
      /\ resv[k] = NoRow
      /\ NewReservation(p, n) # NoRow
  BY NewRowType, NoRowAssumption DEF Reserve, Core, TypeOK
<1>2. ASSUME NEW c \in Check, NEW x \in Period
      PROVE  /\ c \in CommittedChecks(x)' <=> c \in CommittedChecks(x)
             /\ c \in HeldChecks(x)' <=>
                   c \in HeldChecks(x) \/ (x = p /\ c \in Slice(k, 0, n))
             /\ c \in Slice(k, 0, n) => c \notin HeldChecks(x)
  <2>1. c[1] \in Key /\ c[2] \in 1..MaxChecks
    BY DEF Check
  <2>2. c \in Slice(k, 0, n) <=> c[1] = k /\ 0 < c[2] /\ c[2] <= n
    BY InSlice, LedgerAssumption
  <2>3. CASE c[1] = k
    BY <1>1, <2>1, <2>2, <2>3, LedgerAssumption
       DEF CommittedChecks, HeldChecks, Reserved, Active, NewReservation, Check
  <2>4. CASE c[1] # k
    BY <1>1, <2>1, <2>2, <2>4
       DEF CommittedChecks, HeldChecks, Reserved, Active, Check
  <2> QED
    BY <2>3, <2>4
<1>3. Slice(k, 0, n) \subseteq Check
  BY LedgerAssumption DEF Slice, Check
<1>4. \A x \in Period : CommittedChecks(x)' \subseteq Check /\ HeldChecks(x)' \subseteq Check
  BY DEF CommittedChecks, HeldChecks, Check
<1> QED
  BY <1>2, <1>3, <1>4, ChecksFinite

(* A commit turns a slice of the held checks of the original period into   *)
(* committed ones.                                                         *)
LEMMA CommitChecks ==
    ASSUME Core, NEW k \in Key, NEW q \in 1..MaxChecks, NEW u \in UsageKey, Commit(k, q, u)
    PROVE  LET a == resv[k].committed
               s == Slice(k, a, a + q)
               p == resv[k].period
           IN  /\ a \in Nat
               /\ p \in Period
               /\ \A x \in Period : CommittedChecks(x)' =
                     IF x = p THEN CommittedChecks(x) \cup s ELSE CommittedChecks(x)
               /\ \A x \in Period : HeldChecks(x)' =
                     IF x = p THEN HeldChecks(x) \ s ELSE HeldChecks(x)
               /\ CommittedChecks(p) \cap s = {}
               /\ s \subseteq HeldChecks(p)
<1> DEFINE r == resv[k]
           a == r.committed
           s == Slice(k, a, a + q)
<1>1. /\ \A j \in Key : resv'[j] = IF j = k THEN Consume(r, q) ELSE resv[j]
      /\ r \in Reservation
      /\ r # NoRow
      /\ q <= Remaining(r)
      /\ r.status \in {"ACTIVE", "COMMITTED"}
      /\ r.committed <= r.reserved
      /\ r.status = "COMMITTED" <=> Remaining(r) = 0
  BY DEF Commit, Settle, Core, TypeOK, Reserved, CommittedWithin, StatusMatchesChecks
<1>2. /\ a \in Nat /\ r.reserved \in 1..MaxChecks /\ r.period \in Period
      /\ a + q <= r.reserved
      /\ r.status = "ACTIVE"
  BY <1>1, LedgerAssumption DEF Reservation, Remaining
<1>3. /\ Consume(r, q).committed = a + q
      /\ Consume(r, q).reserved = r.reserved
      /\ Consume(r, q).period = r.period
      /\ Consume(r, q).status = IF a + q >= r.reserved THEN "COMMITTED" ELSE "ACTIVE"
  BY <1>1, <1>2 DEF Consume, Reservation
<1>4. Consume(r, q) # NoRow
  BY <1>1, <1>2, RowTypes, NoRowAssumption DEF Core, TypeOK
<1>5. ASSUME NEW c \in Check, NEW x \in Period
      PROVE  /\ c \in CommittedChecks(x)' <=>
                   c \in CommittedChecks(x) \/ (x = r.period /\ c \in s)
             /\ c \in HeldChecks(x)' <=>
                   c \in HeldChecks(x) /\ ~(x = r.period /\ c \in s)
             /\ c \in s => c \notin CommittedChecks(x)
             /\ c \in s /\ x = r.period => c \in HeldChecks(x)
  <2>1. c[1] \in Key /\ c[2] \in 1..MaxChecks
    BY DEF Check
  <2>2. c \in s <=> c[1] = k /\ a < c[2] /\ c[2] <= a + q
    BY <1>2, InSlice, LedgerAssumption
  <2>3. CASE c[1] = k
    BY <1>1, <1>2, <1>3, <1>4, <2>1, <2>2, <2>3, LedgerAssumption
       DEF CommittedChecks, HeldChecks, Reserved, Active, Check
  <2>4. CASE c[1] # k
    BY <1>1, <2>1, <2>2, <2>4
       DEF CommittedChecks, HeldChecks, Reserved, Active, Check
  <2> QED
    BY <2>3, <2>4
<1>6. s \subseteq Check
  BY <1>2, LedgerAssumption DEF Slice, Check
<1>7. \A x \in Period : CommittedChecks(x)' \subseteq Check /\ HeldChecks(x)' \subseteq Check
  BY DEF CommittedChecks, HeldChecks, Check
<1>8. \A x \in Period : CommittedChecks(x)' =
        IF x = r.period THEN CommittedChecks(x) \cup s ELSE CommittedChecks(x)
  BY <1>5, <1>6, <1>7, ChecksFinite
<1>9. \A x \in Period : HeldChecks(x)' =
        IF x = r.period THEN HeldChecks(x) \ s ELSE HeldChecks(x)
  BY <1>5, <1>6, <1>7, ChecksFinite
<1>10. CommittedChecks(r.period) \cap s = {} /\ s \subseteq HeldChecks(r.period)
  BY <1>2, <1>5, <1>6
<1> QED
  BY <1>2, <1>8, <1>9, <1>10

(* A release takes what the reservation still held. *)
LEMMA ReleaseChecks ==
    ASSUME Core, NEW k \in Key, Release(k)
    PROVE  LET a == resv[k].committed
               b == resv[k].reserved
               s == Slice(k, a, b)
               p == resv[k].period
           IN  /\ a \in Nat /\ b \in Nat /\ a <= b
               /\ p \in Period
               /\ \A x \in Period : CommittedChecks(x)' = CommittedChecks(x)
               /\ \A x \in Period : HeldChecks(x)' =
                     IF x = p THEN HeldChecks(x) \ s ELSE HeldChecks(x)
               /\ s \subseteq HeldChecks(p)
<1> DEFINE r == resv[k]
           s == Slice(k, r.committed, r.reserved)
<1>1. /\ \A j \in Key : resv'[j] = IF j = k THEN GiveBack(r) ELSE resv[j]
      /\ r \in Reservation
      /\ r # NoRow
      /\ r.status = "ACTIVE"
      /\ r.committed <= r.reserved
  BY DEF Release, Refund, Core, TypeOK, Active, Reserved, CommittedWithin
<1>2. r.committed \in Nat /\ r.reserved \in 1..MaxChecks /\ r.period \in Period
  BY <1>1, LedgerAssumption DEF Reservation
<1>3. /\ GiveBack(r).committed = r.committed
      /\ GiveBack(r).reserved = r.reserved
      /\ GiveBack(r).period = r.period
      /\ GiveBack(r).status # "ACTIVE"
  BY <1>1 DEF GiveBack, Reservation
<1>4. GiveBack(r) # NoRow
  BY <1>1, NoRowAssumption DEF GiveBack, Reservation, Status
<1>5. ASSUME NEW c \in Check, NEW x \in Period
      PROVE  /\ c \in CommittedChecks(x)' <=> c \in CommittedChecks(x)
             /\ c \in HeldChecks(x)' <=>
                   c \in HeldChecks(x) /\ ~(x = r.period /\ c \in s)
             /\ c \in s /\ x = r.period => c \in HeldChecks(x)
  <2>1. c[1] \in Key /\ c[2] \in 1..MaxChecks
    BY DEF Check
  <2>2. c \in s <=> c[1] = k /\ r.committed < c[2] /\ c[2] <= r.reserved
    BY <1>2, InSlice, LedgerAssumption
  <2>3. CASE c[1] = k
    BY <1>1, <1>2, <1>3, <1>4, <2>1, <2>2, <2>3, LedgerAssumption
       DEF CommittedChecks, HeldChecks, Reserved, Active, Check
  <2>4. CASE c[1] # k
    BY <1>1, <2>1, <2>2, <2>4
       DEF CommittedChecks, HeldChecks, Reserved, Active, Check
  <2> QED
    BY <2>3, <2>4
<1>6. s \subseteq Check
  BY <1>2, LedgerAssumption DEF Slice, Check
<1>7. \A x \in Period : CommittedChecks(x)' \subseteq Check /\ HeldChecks(x)' \subseteq Check
  BY DEF CommittedChecks, HeldChecks, Check
<1>8. \A x \in Period : CommittedChecks(x)' = CommittedChecks(x)
  BY <1>5, <1>7, ChecksFinite
<1>9. \A x \in Period : HeldChecks(x)' =
        IF x = r.period THEN HeldChecks(x) \ s ELSE HeldChecks(x)
  BY <1>5, <1>6, <1>7, ChecksFinite
<1>10. s \subseteq HeldChecks(r.period)
  BY <1>2, <1>5, <1>6
<1> QED
  BY <1>1, <1>2, <1>8, <1>9, <1>10, LedgerAssumption

(* An expiry takes from each period it visits at least what the last       *)
(* reservation of the period held: the amount it credits.                  *)
LEMMA ExpireChecks ==
    ASSUME Core, NEW S \in SUBSET Key, NEW last \in [Period -> Key], Expire(S, last)
    PROVE  /\ \A x \in Period : CommittedChecks(x)' = CommittedChecks(x)
           /\ \A x \in Period \ Periods(S) : HeldChecks(x)' = HeldChecks(x)
           /\ \A x \in Period \cap Periods(S) :
                 LET a == resv[last[x]].committed
                     b == resv[last[x]].reserved
                     s == Slice(last[x], a, b)
                 IN  /\ a \in Nat /\ b \in Nat /\ a <= b
                     /\ HeldChecks(x)' \subseteq HeldChecks(x) \ s
                     /\ s \subseteq HeldChecks(x)
<1>1. /\ \A k \in Key : resv'[k] =
           IF k \in S THEN [resv[k] EXCEPT !.status = "EXPIRED"] ELSE resv[k]
      /\ S \subseteq Active
      /\ \A p \in Periods(S) : last[p] \in S /\ resv[last[p]].period = p
  BY DEF Expire, Lapse
<1>2. \A k \in S : /\ resv[k] \in Reservation
                    /\ resv[k] # NoRow
                    /\ resv[k].committed <= resv[k].reserved
                    /\ resv[k].status = "ACTIVE"
                    /\ resv[k].period \in Periods(S)
  BY <1>1 DEF Core, TypeOK, CommittedWithin, Active, Reserved, Periods
<1>3. \A k \in S : /\ resv'[k] # NoRow
                    /\ resv'[k].committed = resv[k].committed
                    /\ resv'[k].period = resv[k].period
                    /\ resv'[k].status = "EXPIRED"
  <2> SUFFICES ASSUME NEW k \in S
               PROVE  /\ resv'[k] # NoRow
                      /\ resv'[k].committed = resv[k].committed
                      /\ resv'[k].period = resv[k].period
                      /\ resv'[k].status = "EXPIRED"
    OBVIOUS
  <2>1. resv'[k] = [resv[k] EXCEPT !.status = "EXPIRED"]
    BY <1>1
  <2>2. [resv[k] EXCEPT !.status = "EXPIRED"] \in Reservation
    BY <1>2 DEF Reservation, Status
  <2> QED
    BY <1>2, <2>1, <2>2, NoRowAssumption DEF Reservation
<1>4. ASSUME NEW c \in Check, NEW x \in Period
      PROVE  /\ c \in CommittedChecks(x)' <=> c \in CommittedChecks(x)
             /\ c \in HeldChecks(x)' <=> c \in HeldChecks(x) /\ c[1] \notin S
             /\ x \notin Periods(S) /\ c \in HeldChecks(x) => c[1] \notin S
  <2>1. c[1] \in Key
    BY DEF Check
  <2>2. CASE c[1] \in S
    BY <1>1, <1>2, <1>3, <2>1, <2>2
       DEF CommittedChecks, HeldChecks, Reserved, Active, Check
  <2>3. CASE c[1] \notin S
    BY <1>1, <2>1, <2>3
       DEF CommittedChecks, HeldChecks, Reserved, Active, Check
  <2> QED
    BY <2>2, <2>3
<1>5. \A x \in Period : CommittedChecks(x)' \subseteq Check /\ HeldChecks(x)' \subseteq Check
  BY DEF CommittedChecks, HeldChecks, Check
<1>6. \A x \in Period : CommittedChecks(x)' = CommittedChecks(x)
  BY <1>4, <1>5, ChecksFinite
<1>7. \A x \in Period \ Periods(S) : HeldChecks(x)' = HeldChecks(x)
  BY <1>4, <1>5, ChecksFinite
<1>8. ASSUME NEW x \in Period \cap Periods(S)
      PROVE  LET a == resv[last[x]].committed
                 b == resv[last[x]].reserved
                 s == Slice(last[x], a, b)
             IN  /\ a \in Nat /\ b \in Nat /\ a <= b
                 /\ HeldChecks(x)' \subseteq HeldChecks(x) \ s
                 /\ s \subseteq HeldChecks(x)
  <2> DEFINE k == last[x]
             a == resv[k].committed
             b == resv[k].reserved
             s == Slice(k, a, b)
  <2>1. k \in S /\ k \in Key /\ resv[k].period = x
    BY <1>1
  <2>2. a \in Nat /\ b \in 1..MaxChecks /\ b \in Nat /\ a <= b
    BY <1>2, <2>1, LedgerAssumption DEF Reservation
  <2>3. \A c \in Check : c \in s <=> c[1] = k /\ a < c[2] /\ c[2] <= b
    BY <2>1, <2>2, InSlice
  <2>4. s \subseteq Check
    BY <2>1, <2>2, LedgerAssumption DEF Slice, Check
  <2>5. s \subseteq HeldChecks(x)
    <3>1. ASSUME NEW c \in s PROVE c \in HeldChecks(x)
      BY <1>1, <2>1, <2>3, <2>4 DEF HeldChecks, Check
    <3> QED
      BY <3>1
  <2>6. HeldChecks(x)' \subseteq HeldChecks(x) \ s
    <3>1. ASSUME NEW c \in HeldChecks(x)' PROVE c \in HeldChecks(x) /\ c \notin s
      BY <1>4, <1>5, <2>1, <2>3
    <3> QED
      BY <3>1
  <2> QED
    BY <2>2, <2>5, <2>6
<1> QED
  BY <1>6, <1>7, <1>8

-----------------------------------------------------------------------------
(* The counters *)

(* Counters and numbers of checks are integers. *)
LEMMA CounterTypes ==
    ASSUME Core, NEW p \in Period
    PROVE  /\ period[p].used \in Int /\ period[p].reserved \in Int
           /\ Cardinality(CommittedChecks(p)) \in Nat
           /\ Cardinality(HeldChecks(p)) \in Nat
BY ChecksFinite, FS_CardinalityType DEF Core, TypeOK, Counters

(* Init satisfies the counter invariants. *)
LEMMA CountersInit == Init => UsedExact /\ HeldExact /\ HeldCovered
<1> SUFFICES ASSUME Init, NEW p \in Period
             PROVE  /\ period[p].used = Cardinality(CommittedChecks(p))
                    /\ period[p].reserved = Cardinality(HeldChecks(p))
                    /\ period[p].reserved >= Cardinality(HeldChecks(p))
  BY DEF UsedExact, HeldExact, HeldCovered
<1>1. CommittedChecks(p) = {} /\ HeldChecks(p) = {}
  BY DEF Init, CommittedChecks, HeldChecks, Active, Reserved
<1>2. period[p].used = 0 /\ period[p].reserved = 0
  BY DEF Init
<1> QED
  BY <1>1, <1>2, FS_EmptySet

(* Each step keeps `used` equal to the checks committed. *)
LEMMA UsedStep == Core /\ UsedExact /\ [Next]_vars => UsedExact'
<1> SUFFICES ASSUME Core, UsedExact, [Next]_vars, NEW p \in Period
             PROVE  period'[p].used = Cardinality(CommittedChecks(p)')
  BY DEF UsedExact
<1>0. /\ period[p].used = Cardinality(CommittedChecks(p))
      /\ IsFiniteSet(CommittedChecks(p))
      /\ Cardinality(CommittedChecks(p)) \in Nat
  BY CounterTypes, ChecksFinite DEF UsedExact
<1>1. ASSUME NEW w \in Workspace, NEW l \in 0..MaxLimit, GrantPlan(w, l)
      PROVE  period'[p].used = Cardinality(CommittedChecks(p)')
  BY <1>0, <1>1 DEF GrantPlan, CommittedChecks, Reserved
<1>2. ASSUME NEW k \in Key, NEW x \in Period, NEW n \in 1..MaxChecks, Reserve(k, x, n)
      PROVE  period'[p].used = Cardinality(CommittedChecks(p)')
  <2>1. CommittedChecks(p)' = CommittedChecks(p)
    BY <1>2, ReserveChecks
  <2>2. period'[p].used = period[p].used
    BY <1>2 DEF Reserve, Core, TypeOK, Debit
  <2> QED
    BY <1>0, <2>1, <2>2
<1>3. ASSUME NEW k \in Key, NEW q \in 1..MaxChecks, NEW u \in UsageKey, Commit(k, q, u)
      PROVE  period'[p].used = Cardinality(CommittedChecks(p)')
  <2> DEFINE a == resv[k].committed
             x == resv[k].period
             s == Slice(k, a, a + q)
  <2>1. /\ a \in Nat /\ x \in Period
        /\ CommittedChecks(p)' = IF p = x THEN CommittedChecks(p) \cup s ELSE CommittedChecks(p)
        /\ CommittedChecks(x) \cap s = {}
    BY <1>3, CommitChecks
  <2>2. period'[p].used = IF p = x THEN period[p].used + q ELSE period[p].used
    BY <1>3, <2>1 DEF Commit, Settle, Core, TypeOK, Transfer
  <2>3. a + q \in Nat /\ a <= a + q /\ (a + q) - a = q
    BY <2>1, LedgerAssumption
  <2>4. p = x => Cardinality(CommittedChecks(p) \cup s)
                   = Cardinality(CommittedChecks(p)) + ((a + q) - a)
    BY <1>0, <2>1, <2>3, AddSlice
  <2> QED
    BY <1>0, <2>1, <2>2, <2>3, <2>4
<1>4. ASSUME NEW k \in Key, Release(k)
      PROVE  period'[p].used = Cardinality(CommittedChecks(p)')
  <2>1. CommittedChecks(p)' = CommittedChecks(p) /\ resv[k].period \in Period
    BY <1>4, ReleaseChecks
  <2>2. period'[p].used = period[p].used
    BY <1>4, <2>1 DEF Release, Refund, Core, TypeOK, Credit
  <2> QED
    BY <1>0, <2>1, <2>2
<1>5. ASSUME NEW S \in SUBSET Key, NEW last \in [Period -> Key], Expire(S, last)
      PROVE  period'[p].used = Cardinality(CommittedChecks(p)')
  <2>1. CommittedChecks(p)' = CommittedChecks(p)
    BY <1>5, ExpireChecks
  <2>2. period'[p].used = period[p].used
    BY <1>5 DEF Expire, Lapse, Core, TypeOK, Credit
  <2> QED
    BY <1>0, <2>1, <2>2
<1>6. CASE UNCHANGED vars
  BY <1>0, <1>6 DEF vars, CommittedChecks, Reserved
<1> QED
  BY <1>1, <1>2, <1>3, <1>4, <1>5, <1>6 DEF Next, AppNext

(* The `used` counter of every period is the number of checks committed    *)
(* against the reservations bound to it.                                   *)
THEOREM UsedIsExact == Spec => []UsedExact
<1>1. Init => Core /\ UsedExact
  BY CoreInit, CountersInit
<1>2. Core /\ UsedExact /\ [Next]_vars => (Core /\ UsedExact)'
  BY CoreStep, UsedStep
<1> QED
  BY <1>1, <1>2, PTL DEF Spec

(* What `reserved` says beyond the checks that are held. *)
Lost(p) == period[p].reserved - Cardinality(HeldChecks(p))

(* The operations the application calls move the `reserved` counter with   *)
(* the checks that are held.                                               *)
LEMMA HeldAppStep ==
    ASSUME Core, [AppNext]_vars, NEW p \in Period
    PROVE  Lost(p)' = Lost(p)
<1>0. /\ IsFiniteSet(HeldChecks(p))
      /\ Cardinality(HeldChecks(p)) \in Nat
      /\ period[p].reserved \in Int
  BY CounterTypes, ChecksFinite
<1>1. ASSUME NEW w \in Workspace, NEW l \in 0..MaxLimit, GrantPlan(w, l)
      PROVE  Lost(p)' = Lost(p)
  BY <1>1 DEF GrantPlan, Lost, HeldChecks, Active, Reserved
<1>2. ASSUME NEW k \in Key, NEW x \in Period, NEW n \in 1..MaxChecks, Reserve(k, x, n)
      PROVE  Lost(p)' = Lost(p)
  <2>1. /\ HeldChecks(p)' = IF p = x THEN HeldChecks(p) \cup Slice(k, 0, n) ELSE HeldChecks(p)
        /\ HeldChecks(x) \cap Slice(k, 0, n) = {}
    BY <1>2, ReserveChecks
  <2>2. period'[p].reserved = IF p = x THEN period[p].reserved + n ELSE period[p].reserved
    BY <1>2 DEF Reserve, Core, TypeOK, Debit
  <2>3. n \in Nat /\ 0 <= n /\ n - 0 = n
    BY LedgerAssumption
  <2>4. p = x => Cardinality(HeldChecks(p) \cup Slice(k, 0, n))
                   = Cardinality(HeldChecks(p)) + (n - 0)
    BY <1>0, <2>1, <2>3, AddSlice
  <2> QED
    BY <1>0, <2>1, <2>2, <2>3, <2>4 DEF Lost
<1>3. ASSUME NEW k \in Key, NEW q \in 1..MaxChecks, NEW u \in UsageKey, Commit(k, q, u)
      PROVE  Lost(p)' = Lost(p)
  <2> DEFINE a == resv[k].committed
             x == resv[k].period
             s == Slice(k, a, a + q)
  <2>1. /\ a \in Nat /\ x \in Period
        /\ HeldChecks(p)' = IF p = x THEN HeldChecks(p) \ s ELSE HeldChecks(p)
        /\ s \subseteq HeldChecks(x)
    BY <1>3, CommitChecks
  <2>2. period'[p].reserved = IF p = x THEN period[p].reserved - q ELSE period[p].reserved
    BY <1>3, <2>1 DEF Commit, Settle, Core, TypeOK, Transfer
  <2>3. q \in Nat /\ a + q \in Nat /\ a <= a + q /\ (a + q) - a = q
    BY <2>1, LedgerAssumption
  <2>4. p = x => Cardinality(HeldChecks(p) \ s) = Cardinality(HeldChecks(p)) - ((a + q) - a)
    BY <1>0, <2>1, <2>3, DropSlice
  <2> QED
    BY <1>0, <2>1, <2>2, <2>3, <2>4 DEF Lost
<1>4. ASSUME NEW k \in Key, Release(k)
      PROVE  Lost(p)' = Lost(p)
  <2> DEFINE a == resv[k].committed
             b == resv[k].reserved
             x == resv[k].period
             s == Slice(k, a, b)
  <2>1. /\ a \in Nat /\ b \in Nat /\ a <= b /\ x \in Period
        /\ HeldChecks(p)' = IF p = x THEN HeldChecks(p) \ s ELSE HeldChecks(p)
        /\ s \subseteq HeldChecks(x)
    BY <1>4, ReleaseChecks
  <2>2. period'[p].reserved = IF p = x THEN period[p].reserved - (b - a) ELSE period[p].reserved
    BY <1>4, <2>1 DEF Release, Refund, Core, TypeOK, Credit, Remaining
  <2>3. p = x => Cardinality(HeldChecks(p) \ s) = Cardinality(HeldChecks(p)) - (b - a)
    BY <1>0, <2>1, DropSlice
  <2> QED
    BY <1>0, <2>1, <2>2, <2>3 DEF Lost
<1>5. CASE UNCHANGED vars
  BY <1>5 DEF vars, Lost, HeldChecks, Active, Reserved
<1> QED
  BY <1>1, <1>2, <1>3, <1>4, <1>5 DEF AppNext

(* An expiry may only make the `reserved` counter overstate what is held.  *)
LEMMA HeldExpireStep ==
    ASSUME Core, NEW S \in SUBSET Key, NEW last \in [Period -> Key], Expire(S, last),
           NEW p \in Period
    PROVE  Lost(p)' >= Lost(p)
<1>0. /\ IsFiniteSet(HeldChecks(p))
      /\ Cardinality(HeldChecks(p)) \in Nat
      /\ period[p].reserved \in Int
  BY CounterTypes, ChecksFinite
<1>1. CASE p \notin Periods(S)
  <2>1. HeldChecks(p)' = HeldChecks(p)
    BY <1>1, ExpireChecks
  <2>2. period'[p] = period[p]
    BY <1>1 DEF Expire, Lapse
  <2> QED
    BY <1>0, <2>1, <2>2 DEF Lost
<1>2. CASE p \in Periods(S)
  <2> DEFINE a == resv[last[p]].committed
             b == resv[last[p]].reserved
             s == Slice(last[p], a, b)
  <2>1. /\ a \in Nat /\ b \in Nat /\ a <= b
        /\ HeldChecks(p)' \subseteq HeldChecks(p) \ s
        /\ s \subseteq HeldChecks(p)
    BY <1>2, ExpireChecks
  <2>2. period'[p].reserved = period[p].reserved - (b - a)
    BY <1>2, <2>1 DEF Expire, Lapse, Credit, Remaining
  <2>3. Cardinality(HeldChecks(p) \ s) = Cardinality(HeldChecks(p)) - (b - a)
    BY <1>0, <2>1, DropSlice
  <2>4. IsFiniteSet(HeldChecks(p) \ s)
    BY <1>0, FS_Difference
  <2>5. /\ Cardinality(HeldChecks(p)') <= Cardinality(HeldChecks(p) \ s)
        /\ IsFiniteSet(HeldChecks(p)')
    BY <2>1, <2>4, FS_Subset
  <2>6. Cardinality(HeldChecks(p)') \in Nat
    BY <2>5, FS_CardinalityType
  <2> QED
    BY <1>0, <2>1, <2>2, <2>3, <2>5, <2>6 DEF Lost
<1> QED
  BY <1>1, <1>2

(* Under the operations the application calls, `reserved` is exactly what  *)
(* active reservations hold: no check is lost to a reservation that is     *)
(* over.  (It is not under Spec: expiries may drop a credit.)              *)
THEOREM HeldIsExact == AppSpec => []HeldExact
<1>1. Init => Core /\ HeldExact
  BY CoreInit, CountersInit
<1>2. Core /\ HeldExact /\ [AppNext]_vars => (Core /\ HeldExact)'
  <2> SUFFICES ASSUME Core, HeldExact, [AppNext]_vars PROVE Core' /\ HeldExact'
    OBVIOUS
  <2>1. Core'
    BY CoreStep DEF Next
  <2>2. ASSUME NEW p \in Period
        PROVE  period'[p].reserved = Cardinality(HeldChecks(p)')
    <3>1. Lost(p)' = Lost(p)
      BY HeldAppStep
    <3>2. /\ period[p].reserved \in Int
          /\ Cardinality(HeldChecks(p)) \in Nat
      BY CounterTypes
    <3>3. period'[p].reserved \in Int
      BY <2>1 DEF Core, TypeOK, Counters
    <3>4. Cardinality(HeldChecks(p)') \in Nat
      <4>1. HeldChecks(p)' \in SUBSET Check
        BY DEF HeldChecks, Check
      <4> QED
        BY <4>1, CheckFinite, FS_Subset, FS_CardinalityType
    <3> QED
      BY <3>1, <3>2, <3>3, <3>4 DEF Lost, HeldExact
  <2> QED
    BY <2>1, <2>2 DEF HeldExact
<1> QED
  BY <1>1, <1>2, PTL DEF AppSpec

(* Under every operation, `reserved` never understates what active         *)
(* reservations hold: nothing held is sold a second time.                  *)
THEOREM HeldIsCovered == Spec => []HeldCovered
<1>1. Init => Core /\ HeldCovered
  BY CoreInit, CountersInit
<1>2. Core /\ HeldCovered /\ [Next]_vars => (Core /\ HeldCovered)'
  <2> SUFFICES ASSUME Core, HeldCovered, [Next]_vars PROVE Core' /\ HeldCovered'
    OBVIOUS
  <2>1. Core'
    BY CoreStep
  <2>2. ASSUME NEW p \in Period
        PROVE  period'[p].reserved >= Cardinality(HeldChecks(p)')
    <3>1. Lost(p)' >= Lost(p)
      <4>1. Lost(p) \in Int
        BY CounterTypes DEF Lost
      <4>2. CASE [AppNext]_vars
        BY <4>1, <4>2, HeldAppStep
      <4>3. ASSUME NEW S \in SUBSET Key, NEW last \in [Period -> Key], Expire(S, last)
            PROVE  Lost(p)' >= Lost(p)
        BY <4>3, HeldExpireStep
      <4> QED
        BY <4>2, <4>3 DEF Next
    <3>2. /\ period[p].reserved \in Int
          /\ Cardinality(HeldChecks(p)) \in Nat
      BY CounterTypes
    <3>3. period'[p].reserved \in Int
      BY <2>1 DEF Core, TypeOK, Counters
    <3>4. Cardinality(HeldChecks(p)') \in Nat
      <4>1. HeldChecks(p)' \in SUBSET Check
        BY DEF HeldChecks, Check
      <4> QED
        BY <4>1, CheckFinite, FS_Subset, FS_CardinalityType
    <3> QED
      BY <3>1, <3>2, <3>3, <3>4 DEF Lost, HeldCovered
  <2> QED
    BY <2>1, <2>2 DEF HeldCovered
<1> QED
  BY <1>1, <1>2, PTL DEF Spec

-----------------------------------------------------------------------------
(* The limit *)

(* No operation sells a period beyond the largest limit its workspace was  *)
(* ever granted, whatever was committed, released or expired before.       *)
THEOREM NothingOversold == Spec => []NoOversell
<1>1. Init => Core /\ NoOversell
  <2> SUFFICES ASSUME Init PROVE NoOversell
    BY CoreInit
  <2> QED
    BY LedgerAssumption DEF Init, NoOversell, Period
<1>2. Core /\ NoOversell /\ [Next]_vars => (Core /\ NoOversell)'
  <2> SUFFICES ASSUME Core, NoOversell, [Next]_vars, NEW p \in Period
               PROVE  period'[p].used + period'[p].reserved <= peak'[p[1]]
    BY CoreStep DEF NoOversell
  <2>0. /\ period[p].used \in Int /\ period[p].reserved \in Int
        /\ p[1] \in Workspace /\ peak[p[1]] \in 0..MaxLimit
        /\ period[p].used + period[p].reserved <= peak[p[1]]
    BY DEF Core, TypeOK, Counters, Period, NoOversell
  <2>1. ASSUME NEW w \in Workspace, NEW l \in 0..MaxLimit, GrantPlan(w, l)
        PROVE  period'[p].used + period'[p].reserved <= peak'[p[1]]
    BY <2>0, <2>1, LedgerAssumption DEF GrantPlan, Core, TypeOK
  <2>2. ASSUME NEW k \in Key, NEW x \in Period, NEW n \in 1..MaxChecks, Reserve(k, x, n)
        PROVE  period'[p].used + period'[p].reserved <= peak'[p[1]]
    <3>1. CASE p = x
      BY <2>0, <2>2, <3>1, LedgerAssumption DEF Reserve, Core, TypeOK, Debit
    <3>2. CASE p # x
      BY <2>0, <2>2, <3>2 DEF Reserve, Core, TypeOK
    <3> QED
      BY <3>1, <3>2
  <2>3. ASSUME NEW k \in Key, NEW q \in 1..MaxChecks, NEW u \in UsageKey, Commit(k, q, u)
        PROVE  period'[p].used + period'[p].reserved <= peak'[p[1]]
    <3>1. CASE p = resv[k].period
      BY <2>0, <2>3, <3>1, LedgerAssumption DEF Commit, Settle, Core, TypeOK, Transfer
    <3>2. CASE p # resv[k].period
      BY <2>0, <2>3, <3>2 DEF Commit, Settle, Core, TypeOK
    <3> QED
      BY <3>1, <3>2
  <2>4. ASSUME NEW k \in Key, Release(k)
        PROVE  period'[p].used + period'[p].reserved <= peak'[p[1]]
    <3>1. Remaining(resv[k]) \in Nat
      BY <2>4, LedgerAssumption
         DEF Release, Active, Reserved, Core, TypeOK, CommittedWithin, Reservation, Remaining
    <3>2. CASE p = resv[k].period
      BY <2>0, <2>4, <3>1, <3>2 DEF Release, Refund, Core, TypeOK, Credit
    <3>3. CASE p # resv[k].period
      BY <2>0, <2>4, <3>3 DEF Release, Refund, Core, TypeOK
    <3> QED
      BY <3>2, <3>3
  <2>5. ASSUME NEW S \in SUBSET Key, NEW last \in [Period -> Key], Expire(S, last)
        PROVE  period'[p].used + period'[p].reserved <= peak'[p[1]]
    <3>1. CASE p \in Periods(S)
      <4>1. Remaining(resv[last[p]]) \in Nat
        BY <2>5, <3>1, LedgerAssumption
           DEF Expire, Lapse, Active, Reserved, Core, TypeOK, CommittedWithin, Reservation,
               Remaining
      <4> QED
        BY <2>0, <2>5, <3>1, <4>1 DEF Expire, Lapse, Credit
    <3>2. CASE p \notin Periods(S)
      BY <2>0, <2>5, <3>2 DEF Expire, Lapse
    <3> QED
      BY <3>1, <3>2
  <2>6. CASE UNCHANGED vars
    BY <2>0, <2>6 DEF vars
  <2> QED
    BY <2>1, <2>2, <2>3, <2>4, <2>5, <2>6 DEF Next, AppNext
<1> QED
  BY <1>1, <1>2, PTL DEF Spec

-----------------------------------------------------------------------------
(* The event ledger *)

EventCheck == UsageKey \X (1..MaxChecks)

(* The checks of usage events are finitely many. *)
LEMMA EventsFinite ==
    ASSUME NEW k
    PROVE  IsFiniteSet(EventChecks(k)) /\ EventChecks(k) \subseteq EventCheck
<1>1. IsFiniteSet(1..MaxChecks)
  BY LedgerAssumption, FS_Interval
<1>2. IsFiniteSet(EventCheck)
  BY <1>1, LedgerAssumption, FS_Product, Zenon DEF EventCheck
<1>3. EventChecks(k) \in SUBSET EventCheck
  BY DEF EventChecks, EventCheck
<1> QED
  BY <1>2, <1>3, FS_Subset

(* A commit adds the checks of its event to those of its reservation. *)
LEMMA CommitEvents ==
    ASSUME Core, NEW k \in Key, NEW q \in 1..MaxChecks, NEW u \in UsageKey, Commit(k, q, u)
    PROVE  /\ \A j \in Key : EventChecks(j)' =
                 IF j = k THEN EventChecks(j) \cup Slice(u, 0, q) ELSE EventChecks(j)
           /\ EventChecks(k) \cap Slice(u, 0, q) = {}
<1> DEFINE e == [key |-> k, checks |-> q]
<1>1. /\ \A v \in UsageKey : usage'[v] = IF v = u THEN e ELSE usage[v]
      /\ usage[u] = NoRow
  BY DEF Commit, Settle, Core, TypeOK
<1>2. e # NoRow
  BY NoRowAssumption DEF UsageEvent
<1>3. ASSUME NEW c \in EventCheck, NEW j \in Key
      PROVE  /\ c \in EventChecks(j)' <=>
                   c \in EventChecks(j) \/ (j = k /\ c \in Slice(u, 0, q))
             /\ c \in Slice(u, 0, q) => c \notin EventChecks(j)
  <2>1. PICK v \in UsageKey, i \in 1..MaxChecks : c = <<v, i>>
    BY DEF EventCheck
  <2>2. c \in Slice(u, 0, q) <=> v = u /\ i <= q
    BY <2>1, LedgerAssumption DEF Slice
  <2>3. c \in EventChecks(j) <=> usage[v] # NoRow /\ usage[v].key = j /\ i <= usage[v].checks
    BY <2>1 DEF EventChecks
  <2>4. c \in EventChecks(j)' <=> usage'[v] # NoRow /\ usage'[v].key = j /\ i <= usage'[v].checks
    BY <2>1 DEF EventChecks
  <2> QED
    BY <1>1, <1>2, <2>1, <2>2, <2>3, <2>4
<1>4. Slice(u, 0, q) \subseteq EventCheck
  BY LedgerAssumption DEF Slice, EventCheck
<1>5. \A j \in Key : EventChecks(j)' \subseteq EventCheck
  BY DEF EventChecks, EventCheck
<1> QED
  BY <1>3, <1>4, <1>5, EventsFinite

(* Each step keeps the events of a reservation equal to what it committed. *)
LEMMA EventsStep == Core /\ EventsMatch /\ [Next]_vars => EventsMatch'
<1> DEFINE Done(j) == IF resv[j] = NoRow THEN 0 ELSE resv[j].committed
<1> SUFFICES ASSUME Core, EventsMatch, [Next]_vars, NEW j \in Key
             PROVE  Cardinality(EventChecks(j)') = Done(j)'
  BY DEF EventsMatch
<1>0. Cardinality(EventChecks(j)) = Done(j)
  BY DEF EventsMatch
<1>1. ASSUME UNCHANGED usage PROVE EventChecks(j)' = EventChecks(j)
  BY <1>1 DEF EventChecks
<1>2. ASSUME NEW w \in Workspace, NEW l \in 0..MaxLimit, GrantPlan(w, l)
      PROVE  Cardinality(EventChecks(j)') = Done(j)'
  BY <1>0, <1>1, <1>2 DEF GrantPlan
<1>3. ASSUME NEW k \in Key, NEW p \in Period, NEW n \in 1..MaxChecks, Reserve(k, p, n)
      PROVE  Cardinality(EventChecks(j)') = Done(j)'
  <2>1. UNCHANGED usage /\ resv'[j] = IF j = k THEN NewReservation(p, n) ELSE resv[j]
    BY <1>3 DEF Reserve, Core, TypeOK
  <2>2. j = k => Done(j) = 0
    BY <1>3 DEF Reserve
  <2>3. NewReservation(p, n).committed = 0
    BY DEF NewReservation
  <2>4. Done(j)' = Done(j)
    BY <2>1, <2>2, <2>3
  <2> QED
    BY <1>0, <1>1, <2>1, <2>4
<1>4. ASSUME NEW k \in Key, NEW q \in 1..MaxChecks, NEW u \in UsageKey, Commit(k, q, u)
      PROVE  Cardinality(EventChecks(j)') = Done(j)'
  <2>1. /\ resv'[j] = IF j = k THEN Consume(resv[k], q) ELSE resv[j]
        /\ resv[k] \in Reservation /\ resv[k] # NoRow
        /\ resv[k].committed <= resv[k].reserved
        /\ q <= Remaining(resv[k])
    BY <1>4 DEF Commit, Settle, Core, TypeOK, Reserved, CommittedWithin
  <2>2. EventChecks(j)' = IF j = k THEN EventChecks(j) \cup Slice(u, 0, q) ELSE EventChecks(j)
    BY <1>4, CommitEvents
  <2>3. CASE j # k
    BY <1>0, <2>1, <2>2, <2>3
  <2>4. CASE j = k
    <3>1. EventChecks(k) \cap Slice(u, 0, q) = {}
      BY <1>4, CommitEvents
    <3>2. 0 \in Nat /\ q \in Nat /\ 0 <= q
      BY LedgerAssumption
    <3>3. IsFiniteSet(EventChecks(k))
      BY EventsFinite
    <3>4. Cardinality(EventChecks(k) \cup Slice(u, 0, q)) = Cardinality(EventChecks(k)) + (q - 0)
      BY <3>1, <3>2, <3>3, AddSlice
    <3>5. Consume(resv[k], q).committed = resv[k].committed + q
      BY <2>1 DEF Consume, Reservation
    <3>6. Consume(resv[k], q) # NoRow
      <4>1. period[resv[k].period] \in Counters
        BY <2>1 DEF Core, TypeOK, Reservation
      <4>2. Consume(resv[k], q) \in Reservation
        BY <2>1, <4>1, RowTypes
      <4> QED
        BY <4>2, NoRowAssumption
    <3> QED
      BY <1>0, <2>1, <2>2, <2>4, <3>2, <3>4, <3>5, <3>6
  <2> QED
    BY <2>3, <2>4
<1>5. ASSUME NEW k \in Key, Release(k) PROVE Cardinality(EventChecks(j)') = Done(j)'
  <2>1. /\ UNCHANGED usage
        /\ resv'[j] = IF j = k THEN GiveBack(resv[k]) ELSE resv[j]
        /\ resv[k] \in Reservation /\ resv[k] # NoRow
    BY <1>5 DEF Release, Refund, Core, TypeOK, Active, Reserved
  <2>2. GiveBack(resv[k]).committed = resv[k].committed /\ GiveBack(resv[k]) # NoRow
    BY <2>1, NoRowAssumption DEF GiveBack, Reservation, Status
  <2>3. Done(j)' = Done(j)
    BY <2>1, <2>2
  <2> QED
    BY <1>0, <1>1, <2>1, <2>3
<1>6. ASSUME NEW S \in SUBSET Key, NEW last \in [Period -> Key], Expire(S, last)
      PROVE  Cardinality(EventChecks(j)') = Done(j)'
  <2>1. /\ UNCHANGED usage
        /\ resv'[j] = IF j \in S THEN [resv[j] EXCEPT !.status = "EXPIRED"] ELSE resv[j]
        /\ j \in S => resv[j] \in Reservation /\ resv[j] # NoRow
    BY <1>6 DEF Expire, Lapse, Core, TypeOK, Active, Reserved
  <2>2. ASSUME j \in S
        PROVE  /\ [resv[j] EXCEPT !.status = "EXPIRED"].committed = resv[j].committed
               /\ [resv[j] EXCEPT !.status = "EXPIRED"] # NoRow
    BY <2>1, <2>2, NoRowAssumption DEF Reservation, Status
  <2>3. Done(j)' = Done(j)
    BY <2>1, <2>2
  <2> QED
    BY <1>0, <1>1, <2>1, <2>3
<1>7. CASE UNCHANGED vars
  BY <1>0, <1>1, <1>7 DEF vars
<1> QED
  BY <1>2, <1>3, <1>4, <1>5, <1>6, <1>7 DEF Next, AppNext

(* The usage events of a reservation add up to what it has committed: no   *)
(* retry, release or expiry makes a check counted twice or not at all.     *)
THEOREM EventsAddUp == Spec => []EventsMatch
<1>1. Init => EventsMatch
  <2> SUFFICES ASSUME Init, NEW k \in Key PROVE Cardinality(EventChecks(k)) = 0
    BY DEF Init, EventsMatch
  <2>1. EventChecks(k) = {}
    BY DEF Init, EventChecks
  <2> QED
    BY <2>1, FS_EmptySet
<1> QED
  BY <1>1, CoreInit, CoreStep, EventsStep, PTL DEF Spec
=============================================================================
