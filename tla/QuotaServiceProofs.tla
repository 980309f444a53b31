------------------------- MODULE QuotaServiceProofs -------------------------
(***************************************************************************)
(* Proofs about QuotaService, for any number of sessions, keys, periods    *)
(* and checks.                                                             *)
(*                                                                         *)
(* IInv says of each session what its call is (CallPlaced), what its       *)
(* copies are worth (HandPlaced: each is computed from the row as it still *)
(* is in the table) and what it was told (Told); and of any two sessions   *)
(* that they hold no row in common (Apart), which is why one's commit      *)
(* leaves the other's copies true.  What a transaction writes at its end   *)
(* is then one operation of QuotaLedger.                                   *)
(***************************************************************************)
EXTENDS QuotaService, FiniteSetTheorems, TLAPS

(* The rows a session has copied. *)
Blank(S) == [x \in S |-> NoRow]

Single(S, e, row) == [x \in S |-> IF x = e THEN row ELSE NoRow]

Hand(s, periods, reservations, events) ==
    periodRow[s] = periods /\ resvRow[s] = reservations /\ usageRow[s] = events

Nothing(s) == Hand(s, Blank(Period), Blank(Key), Blank(UsageKey))

(* The arguments of the three calls. *)
ReserveCall(a) ==
    a.key \in Key /\ a.period \in Period /\ a.checks \in 1..MaxChecks /\ a.event = NoRow

CommitCall(a) ==
    /\ a.key \in Key /\ a.period = NoRow /\ a.checks \in 1..MaxChecks /\ a.event \in UsageKey
    /\ resv[a.key] # NoRow

ReleaseCall(a) ==
    a.key \in Key /\ a.period = NoRow /\ a.event = NoRow /\ resv[a.key] # NoRow

Reading == {"idle", "rsv_period", "use_resv", "rel_resv"} \cup Answers

CallPlaced(s) ==
    LET a == arg[s] IN
    /\ pc[s] \in {"rsv_period", "rsv_insert"} => ReserveCall(a)
    /\ pc[s] \in {"use_resv", "use_period", "use_insert"} => CommitCall(a)
    /\ pc[s] \in {"rel_resv", "rel_period"} => ReleaseCall(a)
    /\ pc[s] \in {"idle", "exp_loop"} => a = NoArg
    /\ pc[s] = "exp_loop" => s \in Cleaner

(* A reservation in the making fits the plan, whose limit only grows. *)
Affordable(a) ==
    period[a.period].used + period[a.period].reserved + a.checks <= peak[a.period[1]]

ReserveHand(s, reservations) ==
    LET a == arg[s] IN
    /\ Hand(s, Single(Period, a.period, Ledger!Debit(period[a.period], a.checks)),
            reservations, Blank(UsageKey))
    /\ Affordable(a)

CommitHand(s, events) ==
    LET a == arg[s]
        r == resv[a.key]
    IN
    /\ Hand(s, Single(Period, r.period, Ledger!Transfer(period[r.period], a.checks)),
            Single(Key, a.key, Ledger!Consume(r, a.checks)), events)
    /\ Committable(r, a.checks)

ReleaseHand(s, periods) ==
    LET k == arg[s].key IN
    /\ Hand(s, periods, Single(Key, k, Ledger!GiveBack(resv[k])), Blank(UsageKey))
    /\ k \in Ledger!Active

(* The reservations an expiry has locked are active; those it has visited  *)
(* are EXPIRED in its copies, and their period is the last copy it made.   *)
Locked(s, k) == resvRow[s][k] # NoRow

Items(q) == {q[i] : i \in 1..Len(q)}

Distinct(q) == \A i, j \in 1..Len(q) : q[i] = q[j] => i = j

Left(s) == Items(todo[s])

Visited(s, k) == Locked(s, k) /\ k \notin Left(s)

ExpireHand(s) ==
    /\ usageRow[s] = Blank(UsageKey)
    /\ \E k \in Key : Locked(s, k)
    /\ \A k \in Left(s) : Locked(s, k)
    /\ Distinct(todo[s])
    /\ \A k \in Key :
        Locked(s, k) =>
            /\ k \in Ledger!Active
            /\ resvRow[s][k] = IF k \in Left(s) THEN resv[k]
                               ELSE [resv[k] EXCEPT !.status = "EXPIRED"]
            /\ k \notin Left(s) => periodRow[s][resv[k].period] # NoRow
    /\ \A p \in Period :
        periodRow[s][p] # NoRow =>
            \E k \in Key :
                /\ Visited(s, k) /\ resv[k].period = p
                /\ periodRow[s][p] = Ledger!Credit(period[p], Ledger!Remaining(resv[k]))

(* What a session is about to write. *)
WriteHand(s) ==
    LET a == arg[s] IN
    \/ /\ ReserveCall(a) /\ resv[a.key] = NoRow
       /\ ReserveHand(s, Single(Key, a.key, Ledger!NewReservation(a.period, a.checks)))
    \/ /\ CommitCall(a) /\ usage[a.event] = NoRow
       /\ CommitHand(s, Single(UsageKey, a.event, [key |-> a.key, checks |-> a.checks]))
    \/ /\ ReleaseCall(a) /\ Ledger!Remaining(resv[a.key]) = 0
       /\ ReleaseHand(s, Blank(Period))
    \/ /\ ReleaseCall(a)
       /\ LET r == resv[a.key] IN
          ReleaseHand(s, Single(Period, r.period,
                                Ledger!Credit(period[r.period], Ledger!Remaining(r))))
    \/ a = NoArg /\ todo[s] = <<>> /\ ExpireHand(s)

HandPlaced(s) ==
    LET a == arg[s] IN
    /\ pc[s] \in Reading => Nothing(s)
    /\ pc[s] = "rsv_period" => lim[s] <= peak[a.period[1]]
    /\ pc[s] = "rsv_insert" => ReserveHand(s, Blank(Key))
    /\ pc[s] = "use_period" =>
        /\ Hand(s, Blank(Period), Single(Key, a.key, resv[a.key]), Blank(UsageKey))
        /\ Committable(resv[a.key], a.checks)
    /\ pc[s] = "use_insert" => CommitHand(s, Blank(UsageKey))
    /\ pc[s] = "rel_period" => ReleaseHand(s, Blank(Period))
    /\ pc[s] = "exp_loop" => todo[s] # <<>> /\ ExpireHand(s)
    /\ pc[s] = "commit" => WriteHand(s)

(* ReplyTruthful, of one session: what an "ok" to a call means. *)
Done(a) ==
    /\ a.period # NoRow => resv[a.key] # NoRow /\ SameRequest(a, resv[a.key])
    /\ a.event # NoRow => usage[a.event] # NoRow /\ SameUsage(a, usage[a.event])
    /\ a.period = NoRow /\ a.event = NoRow /\ a.key # NoRow
          => resv[a.key].status # "ACTIVE"

Told(s) == pc[s] = "ok" => Done(arg[s])

(* A reply of a session, or its arguments, are those of a call. *)
Replied(s) ==
    pc[s] \in Answers =>
        \/ ReserveCall(arg[s]) \/ CommitCall(arg[s]) \/ ReleaseCall(arg[s])
        \/ arg[s] = NoArg

Placed(s) == CallPlaced(s) /\ HandPlaced(s) /\ Told(s) /\ Replied(s)

(* No row is held twice. *)
Apart(s, t) ==
    /\ \A p \in Period : periodRow[s][p] = NoRow \/ periodRow[t][p] = NoRow
    /\ \A k \in Key : resvRow[s][k] = NoRow \/ resvRow[t][k] = NoRow
    /\ \A u \in UsageKey : usageRow[s][u] = NoRow \/ usageRow[t][u] = NoRow

AllApart == \A s, t \in Session : s # t => Apart(s, t)

IInv ==
    /\ TypeOK
    /\ Ledger!CommittedWithin
    /\ \A s \in Session : Placed(s)
    /\ AllApart

-----------------------------------------------------------------------------
(* Rows *)

(* A period is a workspace and a month. *)
LEMMA PeriodOf == ASSUME NEW p \in Period PROVE p[1] \in Workspace
BY DEF Period

(* The row updates of the service keep the types of rows. *)
LEMMA RowTypes ==
    ASSUME NEW r \in Ledger!Reservation, NEW c \in Ledger!Counters,
           NEW q \in 1..MaxChecks, r.committed <= r.reserved
    PROVE  /\ Ledger!Remaining(r) \in Nat
           /\ q <= Ledger!Remaining(r) => Ledger!Consume(r, q) \in Ledger!Reservation
           /\ Ledger!GiveBack(r) \in Ledger!Reservation
           /\ [r EXCEPT !.status = "EXPIRED"] \in Ledger!Reservation
           /\ Ledger!Debit(c, q) \in Ledger!Counters
           /\ Ledger!Transfer(c, q) \in Ledger!Counters
           /\ Ledger!Credit(c, Ledger!Remaining(r)) \in Ledger!Counters
<1> USE DEF Ledger!Reservation, Ledger!Remaining
<1>1. Ledger!Remaining(r) \in Nat
  BY ServiceAssumption
<1>2. q <= Ledger!Remaining(r) => Ledger!Consume(r, q) \in Ledger!Reservation
  <2> SUFFICES ASSUME q <= Ledger!Remaining(r)
               PROVE  Ledger!Consume(r, q) \in Ledger!Reservation
    OBVIOUS
  <2>1. r.committed + q \in 0..MaxChecks
    BY ServiceAssumption
  <2>2. (IF r.committed + q >= r.reserved THEN "COMMITTED" ELSE r.status) \in Ledger!Status
    BY DEF Ledger!Status
  <2> QED
    BY <2>1, <2>2 DEF Ledger!Consume
<1>3. /\ Ledger!GiveBack(r) \in Ledger!Reservation
      /\ [r EXCEPT !.status = "EXPIRED"] \in Ledger!Reservation
  BY DEF Ledger!Status, Ledger!GiveBack
<1>4. Ledger!Debit(c, q) \in Ledger!Counters /\ Ledger!Transfer(c, q) \in Ledger!Counters
  <2>1. q \in Int
    BY ServiceAssumption
  <2>2. Ledger!Debit(c, q) \in Ledger!Counters
    BY <2>1 DEF Ledger!Counters, Ledger!Debit
  <2>3. Ledger!Transfer(c, q) \in Ledger!Counters
    BY <2>1 DEF Ledger!Counters, Ledger!Transfer
  <2> QED
    BY <2>2, <2>3
<1>5. Ledger!Credit(c, Ledger!Remaining(r)) \in Ledger!Counters
  BY <1>1 DEF Ledger!Counters, Ledger!Credit
<1> QED
  BY <1>1, <1>2, <1>3, <1>4, <1>5

(* A new reservation is a row. *)
LEMMA NewRowType ==
    ASSUME NEW p \in Period, NEW n \in 1..MaxChecks
    PROVE  Ledger!NewReservation(p, n) \in Ledger!Reservation
BY ServiceAssumption
   DEF Ledger!NewReservation, Ledger!Reservation, Ledger!Status, Ledger!Period, Period

(* A row that exists is a reservation of a period, within its bounds. *)
LEMMA RowOf ==
    ASSUME IInv, NEW k \in Key, resv[k] # NoRow
    PROVE  /\ resv[k] \in Ledger!Reservation
           /\ resv[k].period \in Period
           /\ resv[k].committed <= resv[k].reserved
           /\ period[resv[k].period] \in Ledger!Counters
BY DEF IInv, TypeOK, Ledger!TypeOK, Ledger!CommittedWithin, Ledger!Reserved,
       Ledger!Reservation, Ledger!Period, Period

(* The arguments of no call are arguments. *)
LEMMA NoArgType == NoArg \in Args
BY ServiceAssumption DEF NoArg, Args

(* Merging no row changes no table. *)
LEMMA MergeNone ==
    ASSUME NEW S, NEW T, NEW table \in [S -> T]
    PROVE  Merge(Blank(S), table) = table
BY DEF Merge, Blank

(* Copying a first row. *)
LEMMA CopyOne ==
    ASSUME NEW S, NEW e \in S, NEW row
    PROVE  [Blank(S) EXCEPT ![e] = row] = Single(S, e, row)
BY DEF Blank, Single

-----------------------------------------------------------------------------
(* One session moves *)

Row(s) == <<pc[s], arg[s], lim[s], periodRow[s], resvRow[s], usageRow[s], todo[s]>>

Shaped(s) ==
    /\ pc[s] \in Labels
    /\ arg[s] \in Args
    /\ lim[s] \in 0..MaxLimit
    /\ periodRow[s] \in [Period -> Ledger!Counters \cup {NoRow}]
    /\ resvRow[s] \in [Key -> Ledger!Reservation \cup {NoRow}]
    /\ usageRow[s] \in [UsageKey -> Ledger!UsageEvent \cup {NoRow}]
    /\ todo[s] \in Seq(Key)

OnlyMoves(s) ==
    /\ pc' = [pc EXCEPT ![s] = pc'[s]]
    /\ arg' = [arg EXCEPT ![s] = arg'[s]]
    /\ lim' = [lim EXCEPT ![s] = lim'[s]]
    /\ periodRow' = [periodRow EXCEPT ![s] = periodRow'[s]]
    /\ resvRow' = [resvRow EXCEPT ![s] = resvRow'[s]]
    /\ usageRow' = [usageRow EXCEPT ![s] = usageRow'[s]]
    /\ todo' = [todo EXCEPT ![s] = todo'[s]]

(* The values of a session have their types. *)
LEMMA EachShaped == ASSUME TypeOK, NEW s \in Session PROVE Shaped(s)
BY DEF TypeOK, Shaped

(* When one session moves, the values of the others stay. *)
LEMMA OthersStill ==
    ASSUME TypeOK, NEW s \in Session, OnlyMoves(s), NEW t \in Session \ {s}
    PROVE  Row(t)' = Row(t)
<1>1. pc'[t] = pc[t] /\ arg'[t] = arg[t] /\ lim'[t] = lim[t] /\ todo'[t] = todo[t]
  BY DEF TypeOK, OnlyMoves
<1>2. periodRow'[t] = periodRow[t] /\ resvRow'[t] = resvRow[t] /\ usageRow'[t] = usageRow[t]
  BY DEF TypeOK, OnlyMoves
<1> QED
  BY <1>1, <1>2 DEF Row

(* When one session moves, the variables keep their types. *)
LEMMA StillTyped ==
    ASSUME TypeOK, NEW s \in Session, OnlyMoves(s), Shaped(s)', Ledger!TypeOK'
    PROVE  TypeOK'
<1>1. pc' \in [Session -> Labels] /\ arg' \in [Session -> Args]
  BY DEF TypeOK, OnlyMoves, Shaped
<1>2. lim' \in [Session -> 0..MaxLimit] /\ todo' \in [Session -> Seq(Key)]
  BY DEF TypeOK, OnlyMoves, Shaped
<1>3. periodRow' \in [Session -> [Period -> Ledger!Counters \cup {NoRow}]]
  BY DEF TypeOK, OnlyMoves, Shaped
<1>4. resvRow' \in [Session -> [Key -> Ledger!Reservation \cup {NoRow}]]
  BY DEF TypeOK, OnlyMoves, Shaped
<1>5. usageRow' \in [Session -> [UsageKey -> Ledger!UsageEvent \cup {NoRow}]]
  BY DEF TypeOK, OnlyMoves, Shaped
<1> QED
  BY <1>1, <1>2, <1>3, <1>4, <1>5 DEF TypeOK

-----------------------------------------------------------------------------
(* The others stay *)

(* Rows never vanish, and keep what a caller was told of them. *)
TablesGrow ==
    /\ \A w \in Workspace : peak'[w] \in Nat /\ peak[w] <= peak'[w]
    /\ \A k \in Key :
        resv[k] # NoRow =>
            /\ resv'[k] # NoRow
            /\ resv'[k].period = resv[k].period
            /\ resv'[k].reserved = resv[k].reserved
            /\ resv[k].status # "ACTIVE" => resv'[k].status # "ACTIVE"
    /\ \A u \in UsageKey : usage[u] # NoRow => usage'[u] = usage[u]

(* The rows a session has copied are written by no other. *)
Kept(s) ==
    /\ \A p \in Period : periodRow[s][p] # NoRow => period'[p] = period[p]
    /\ \A k \in Key : resvRow[s][k] # NoRow => resv'[k] = resv[k]
    /\ \A u \in UsageKey : usageRow[s][u] # NoRow => usage'[u] = usage[u]

(* What each copy of a session is made of is a row, never NoRow. *)
LEMMA HeldReserve ==
    ASSUME IInv, NEW s \in Session, ReserveCall(arg[s]), NEW rs, ReserveHand(s, rs)
    PROVE  periodRow[s][arg[s].period] # NoRow
BY NoRowAssumption, ServiceAssumption
   DEF IInv, TypeOK, Ledger!TypeOK, ReserveCall, ReserveHand, Hand, Single, Ledger!Counters,
       Ledger!Debit, Ledger!Period, Period

LEMMA HeldCommit ==
    ASSUME IInv, NEW s \in Session, CommitCall(arg[s]), NEW es, CommitHand(s, es)
    PROVE  LET a == arg[s] IN
           periodRow[s][resv[a.key].period] # NoRow /\ resvRow[s][a.key] # NoRow
<1> DEFINE a == arg[s]
           r == resv[a.key]
<1>1. r \in Ledger!Reservation /\ r.period \in Period /\ r.committed <= r.reserved
      /\ period[r.period] \in Ledger!Counters
  BY RowOf DEF CommitCall
<1>2. a.checks \in 1..MaxChecks /\ a.checks <= Ledger!Remaining(r) /\ a.key \in Key
  BY DEF CommitCall, CommitHand, Committable
<1>3. /\ Ledger!Consume(r, a.checks) \in Ledger!Reservation
      /\ Ledger!Transfer(period[r.period], a.checks) \in Ledger!Counters
  BY <1>1, <1>2, RowTypes
<1>4. /\ Ledger!Consume(r, a.checks) # NoRow
      /\ Ledger!Transfer(period[r.period], a.checks) # NoRow
  BY <1>3, NoRowAssumption
<1> QED
  BY <1>1, <1>2, <1>4 DEF CommitHand, Hand, Single

LEMMA HeldRelease ==
    ASSUME IInv, NEW s \in Session, ReleaseCall(arg[s]), NEW ps, ReleaseHand(s, ps)
    PROVE  resvRow[s][arg[s].key] # NoRow
<1> DEFINE k == arg[s].key
<1>1. k \in Key /\ resv[k] \in Ledger!Reservation /\ resv[k].committed <= resv[k].reserved
  BY RowOf DEF ReleaseCall
<1>2. Ledger!GiveBack(resv[k]) # NoRow
  BY <1>1, NoRowAssumption DEF Ledger!GiveBack, Ledger!Reservation, Ledger!Status
<1> QED
  BY <1>1, <1>2 DEF ReleaseHand, Hand, Single

(* The call of a session, and what it was told, stand as the tables grow. *)
LEMMA TellingStands ==
    ASSUME IInv, NEW t \in Session, TablesGrow, Row(t)' = Row(t)
    PROVE  CallPlaced(t)' /\ Told(t)' /\ Replied(t)'
<1> USE DEF Row, TablesGrow
<1>0. Placed(t) /\ pc[t] \in Labels /\ arg[t] \in Args
  BY EachShaped DEF IInv, Shaped
<1>1. CallPlaced(t)'
  BY <1>0 DEF Placed, CallPlaced, ReserveCall, CommitCall, ReleaseCall
<1>2. Replied(t)'
  BY <1>0 DEF Placed, Replied, ReserveCall, CommitCall, ReleaseCall
<1>3. Told(t)'
  <2> DEFINE a == arg[t]
  <2> SUFFICES ASSUME pc[t] = "ok"
               PROVE  /\ a.period # NoRow => resv'[a.key] # NoRow /\ SameRequest(a, resv'[a.key])
                      /\ a.event # NoRow => usage'[a.event] # NoRow /\ SameUsage(a, usage'[a.event])
                      /\ a.period = NoRow /\ a.event = NoRow /\ a.key # NoRow
                            => resv'[a.key].status # "ACTIVE"
    BY DEF Told, Done, SameRequest, SameUsage
  <2>1. \/ ReserveCall(a) \/ CommitCall(a) \/ ReleaseCall(a) \/ a = NoArg
    BY <1>0 DEF Placed, Replied, Answers
  <2>2. Told(t)
    BY <1>0 DEF Placed
  <2>3. CASE ReserveCall(a)
    BY <2>2, <2>3, NoRowAssumption DEF Told, Done, ReserveCall, SameRequest
  <2>4. CASE CommitCall(a)
    BY <2>2, <2>4, NoRowAssumption DEF Told, Done, CommitCall, SameUsage
  <2>5. CASE ReleaseCall(a)
    BY <2>2, <2>5, NoRowAssumption DEF Told, Done, ReleaseCall
  <2>6. CASE a = NoArg
    BY <2>6 DEF NoArg
  <2> QED
    BY <2>1, <2>3, <2>4, <2>5, <2>6
<1> QED
  BY <1>1, <1>2, <1>3

(* So does what it is about to write: it was computed from rows no other   *)
(* session writes, and a limit that only grows.                            *)
LEMMA ReserveStands ==
    ASSUME IInv, NEW t \in Session, TablesGrow, Kept(t), Row(t)' = Row(t),
           ReserveCall(arg[t]), NEW rs, ReserveHand(t, rs)
    PROVE  ReserveHand(t, rs)'
<1> DEFINE a == arg[t]
<1>1. a.period \in Period /\ periodRow[t][a.period] # NoRow /\ a.checks \in Nat
  BY HeldReserve, ServiceAssumption DEF ReserveCall
<1>2. period'[a.period] = period[a.period] /\ arg'[t] = a
  BY <1>1 DEF Kept, Row
<1>3. Hand(t, Single(Period, a.period, Ledger!Debit(period[a.period], a.checks)),
           rs, Blank(UsageKey))'
  BY <1>2 DEF ReserveHand, Hand, Row
<1>4. Affordable(a)'
  <2>1. /\ peak[a.period[1]] \in Int /\ peak'[a.period[1]] \in Int
        /\ peak[a.period[1]] <= peak'[a.period[1]]
        /\ period[a.period] \in Ledger!Counters
    BY <1>1, PeriodOf
       DEF IInv, TypeOK, Ledger!TypeOK, TablesGrow, Ledger!Period, Period
  <2>2. Affordable(a)
    BY DEF ReserveHand
  <2> QED
    BY <1>1, <1>2, <2>1, <2>2 DEF Affordable, Ledger!Counters
<1> QED
  BY <1>2, <1>3, <1>4 DEF ReserveHand

LEMMA CommitStands ==
    ASSUME IInv, NEW t \in Session, TablesGrow, Kept(t), Row(t)' = Row(t),
           CommitCall(arg[t]), NEW es, CommitHand(t, es)
    PROVE  CommitHand(t, es)'
<1> DEFINE a == arg[t]
<1>1. /\ a.key \in Key /\ resv[a.key].period \in Period
      /\ periodRow[t][resv[a.key].period] # NoRow /\ resvRow[t][a.key] # NoRow
  BY HeldCommit, RowOf DEF CommitCall
<1>2. /\ period'[resv[a.key].period] = period[resv[a.key].period]
      /\ resv'[a.key] = resv[a.key]
      /\ arg'[t] = a
  BY <1>1 DEF Kept, Row
<1> QED
  BY <1>2 DEF CommitHand, Hand, Row

LEMMA ReleaseStands ==
    ASSUME IInv, NEW t \in Session, TablesGrow, Kept(t), Row(t)' = Row(t),
           ReleaseCall(arg[t]), NEW ps, ReleaseHand(t, ps)
    PROVE  ReleaseHand(t, ps)' /\ resv'[arg[t].key] = resv[arg[t].key]
<1> DEFINE k == arg[t].key
<1>1. resv'[k] = resv[k] /\ arg'[t] = arg[t] /\ k \in Key
  BY HeldRelease DEF Kept, Row, ReleaseCall
<1> QED
  BY <1>1 DEF ReleaseHand, Hand, Row, Ledger!Active, Ledger!Reserved

LEMMA ExpireStands ==
    ASSUME IInv, NEW t \in Session, Kept(t), Row(t)' = Row(t), ExpireHand(t)
    PROVE  ExpireHand(t)'
<1>1. /\ usageRow'[t] = usageRow[t] /\ resvRow'[t] = resvRow[t]
      /\ periodRow'[t] = periodRow[t] /\ todo'[t] = todo[t]
  BY DEF Row
<1>2. Left(t)' = Left(t) /\ \A k \in Key : Locked(t, k)' = Locked(t, k)
  BY <1>1 DEF Left, Locked
<1>3. ASSUME NEW k \in Key, Locked(t, k)
      PROVE  /\ resv'[k] = resv[k]
             /\ k \in Ledger!Active /\ k \in Ledger!Active'
  BY <1>3 DEF Kept, Locked, ExpireHand, Ledger!Active, Ledger!Reserved
<1>4. \A p \in Period : periodRow[t][p] # NoRow => period'[p] = period[p]
  BY DEF Kept
<1>5. \A k \in Key :
        Locked(t, k)' =>
            /\ k \in Ledger!Active'
            /\ resvRow'[t][k] = IF k \in Left(t)' THEN resv'[k]
                                ELSE [resv'[k] EXCEPT !.status = "EXPIRED"]
            /\ k \notin Left(t)' => periodRow'[t][resv'[k].period] # NoRow
  BY <1>1, <1>2, <1>3 DEF ExpireHand
<1>6. \A p \in Period :
        periodRow'[t][p] # NoRow =>
            \E k \in Key :
                /\ Visited(t, k)' /\ resv'[k].period = p
                /\ periodRow'[t][p] = Ledger!Credit(period'[p], Ledger!Remaining(resv'[k]))
  <2> SUFFICES ASSUME NEW p \in Period, periodRow[t][p] # NoRow
               PROVE  \E k \in Key :
                        /\ Visited(t, k)' /\ resv'[k].period = p
                        /\ periodRow[t][p] = Ledger!Credit(period'[p], Ledger!Remaining(resv'[k]))
    BY <1>1
  <2>1. PICK k \in Key :
            /\ Visited(t, k) /\ resv[k].period = p
            /\ periodRow[t][p] = Ledger!Credit(period[p], Ledger!Remaining(resv[k]))
    BY DEF ExpireHand
  <2>2. resv'[k] = resv[k] /\ Visited(t, k)'
    BY <1>2, <1>3, <2>1 DEF Visited
  <2> QED
    BY <1>4, <2>1, <2>2
<1>7. /\ usageRow'[t] = Blank(UsageKey)
      /\ \E k \in Key : Locked(t, k)'
      /\ \A k \in Left(t)' : Locked(t, k)'
      /\ Distinct(todo'[t])
  BY <1>1, <1>2 DEF ExpireHand, Locked
<1> QED
  BY <1>5, <1>6, <1>7 DEF ExpireHand

LEMMA WriteStands ==
    ASSUME IInv, NEW t \in Session, TablesGrow, Kept(t), Row(t)' = Row(t), WriteHand(t)
    PROVE  WriteHand(t)'
<1> DEFINE a == arg[t]
<1>0. arg'[t] = a /\ todo'[t] = todo[t]
  BY DEF Row
<1>1. CASE /\ ReserveCall(a) /\ resv[a.key] = NoRow
           /\ ReserveHand(t, Single(Key, a.key, Ledger!NewReservation(a.period, a.checks)))
  <2>1. Ledger!NewReservation(a.period, a.checks) # NoRow /\ a.key \in Key
    BY <1>1, NewRowType, NoRowAssumption DEF ReserveCall
  <2>2. resvRow[t][a.key] # NoRow
    BY <1>1, <2>1 DEF ReserveHand, Hand, Single
  <2>3. ReserveHand(t, Single(Key, a.key, Ledger!NewReservation(a.period, a.checks)))'
    BY <1>0, <1>1, ReserveStands
  <2>4. resv'[a.key] = NoRow /\ ReserveCall(a)
    BY <1>1, <2>1, <2>2 DEF Kept
  <2> QED
    BY <1>0, <2>3, <2>4 DEF WriteHand
<1>2. CASE /\ CommitCall(a) /\ usage[a.event] = NoRow
           /\ CommitHand(t, Single(UsageKey, a.event, [key |-> a.key, checks |-> a.checks]))
  <2>1. [key |-> a.key, checks |-> a.checks] # NoRow /\ a.event \in UsageKey
    BY <1>2, NoRowAssumption DEF CommitCall, Ledger!UsageEvent
  <2>2. usageRow[t][a.event] # NoRow
    BY <1>2, <2>1 DEF CommitHand, Hand, Single
  <2>3. CommitHand(t, Single(UsageKey, a.event, [key |-> a.key, checks |-> a.checks]))'
    BY <1>0, <1>2, CommitStands
  <2>4. usage'[a.event] = NoRow /\ CommitCall(a)'
    BY <1>0, <1>2, <2>1, <2>2 DEF Kept, CommitCall, TablesGrow
  <2> QED
    BY <1>0, <2>3, <2>4 DEF WriteHand, CommitCall
<1>3. CASE /\ ReleaseCall(a) /\ Ledger!Remaining(resv[a.key]) = 0
           /\ ReleaseHand(t, Blank(Period))
  <2>1. ReleaseHand(t, Blank(Period))' /\ resv'[a.key] = resv[a.key]
    BY <1>3, ReleaseStands
  <2> QED
    BY <1>0, <1>3, <2>1 DEF WriteHand, ReleaseCall
<1>4. CASE /\ ReleaseCall(a)
           /\ LET r == resv[a.key] IN
              ReleaseHand(t, Single(Period, r.period,
                                    Ledger!Credit(period[r.period], Ledger!Remaining(r))))
  <2> DEFINE r == resv[a.key]
             ps == Single(Period, r.period, Ledger!Credit(period[r.period], Ledger!Remaining(r)))
  <2>1. /\ r.period \in Period
        /\ Ledger!Credit(period[r.period], Ledger!Remaining(r)) # NoRow
    <3>1. /\ r \in Ledger!Reservation /\ r.period \in Period /\ r.committed <= r.reserved
          /\ period[r.period] \in Ledger!Counters
      BY <1>4, RowOf DEF ReleaseCall
    <3>2. 1 \in 1..MaxChecks
      BY ServiceAssumption
    <3>3. Ledger!Credit(period[r.period], Ledger!Remaining(r)) \in Ledger!Counters
      BY <3>1, <3>2, RowTypes
    <3> QED
      BY <3>1, <3>3, NoRowAssumption
  <2>2. periodRow[t][r.period] # NoRow
    BY <1>4, <2>1 DEF ReleaseHand, Hand, Single
  <2>3. period'[r.period] = period[r.period]
    BY <2>1, <2>2 DEF Kept
  <2>4. /\ \A v : v = ps => ReleaseHand(t, v)'
        /\ resv'[a.key] = r
    BY <1>4, ReleaseStands
  <2>5. ps' = ps
    BY <1>0, <2>3, <2>4
  <2>6. ReleaseHand(t, ps)'
    BY <2>4, <2>5
  <2> QED
    BY <1>0, <1>4, <2>4, <2>6 DEF WriteHand, ReleaseCall
<1>5. CASE a = NoArg /\ todo[t] = <<>> /\ ExpireHand(t)
  BY <1>0, <1>5, ExpireStands DEF WriteHand
<1> QED
  BY <1>1, <1>2, <1>3, <1>4, <1>5 DEF WriteHand

LEMMA PlacedStands ==
    ASSUME IInv, NEW t \in Session, TablesGrow, Kept(t), Row(t)' = Row(t)
    PROVE  Placed(t)'
<1> DEFINE a == arg[t]
<1>0. /\ pc'[t] = pc[t] /\ arg'[t] = a /\ lim'[t] = lim[t] /\ todo'[t] = todo[t]
      /\ periodRow'[t] = periodRow[t] /\ resvRow'[t] = resvRow[t] /\ usageRow'[t] = usageRow[t]
  BY DEF Row
<1>1. CallPlaced(t) /\ HandPlaced(t)
  BY DEF IInv, Placed
<1>2. pc[t] \in Reading => Nothing(t)'
  BY <1>0, <1>1 DEF HandPlaced, Nothing, Hand
<1>3. pc[t] = "rsv_period" => lim[t] <= peak'[a.period[1]]
  <2> SUFFICES ASSUME pc[t] = "rsv_period" PROVE lim[t] <= peak'[a.period[1]]
    OBVIOUS
  <2>1. a.period[1] \in Workspace /\ lim[t] <= peak[a.period[1]]
    BY <1>1, PeriodOf DEF CallPlaced, ReserveCall, HandPlaced
  <2>2. peak[a.period[1]] \in Nat /\ lim[t] \in Nat
    BY <2>1, ServiceAssumption DEF IInv, TypeOK, Ledger!TypeOK
  <2> QED
    BY <2>1, <2>2 DEF TablesGrow
<1>4. pc[t] = "rsv_insert" => ReserveHand(t, Blank(Key))'
  BY <1>1, ReserveStands DEF CallPlaced, HandPlaced
<1>5. pc[t] = "use_period" =>
        /\ Hand(t, Blank(Period), Single(Key, a.key, resv[a.key]), Blank(UsageKey))'
        /\ Committable(resv[a.key], a.checks)'
  <2> SUFFICES ASSUME pc[t] = "use_period"
               PROVE  /\ Hand(t, Blank(Period), Single(Key, a.key, resv[a.key]), Blank(UsageKey))'
                      /\ Committable(resv[a.key], a.checks)'
    OBVIOUS
  <2>1. /\ a.key \in Key /\ resv[a.key] # NoRow
        /\ Hand(t, Blank(Period), Single(Key, a.key, resv[a.key]), Blank(UsageKey))
        /\ Committable(resv[a.key], a.checks)
    BY <1>1 DEF CallPlaced, CommitCall, HandPlaced
  <2>2. resv'[a.key] = resv[a.key]
    BY <2>1 DEF Hand, Single, Kept
  <2> QED
    BY <1>0, <2>1, <2>2 DEF Hand
<1>6. pc[t] = "use_insert" => CommitHand(t, Blank(UsageKey))'
  BY <1>1, CommitStands DEF CallPlaced, HandPlaced
<1>7. pc[t] = "rel_period" => ReleaseHand(t, Blank(Period))'
  BY <1>1, ReleaseStands DEF CallPlaced, HandPlaced
<1>8. pc[t] = "exp_loop" => todo[t] # <<>> /\ ExpireHand(t)'
  BY <1>1, ExpireStands DEF HandPlaced
<1>9. pc[t] = "commit" => WriteHand(t)'
  BY <1>1, WriteStands DEF HandPlaced
<1>10. HandPlaced(t)'
  BY <1>0, <1>2, <1>3, <1>4, <1>5, <1>6, <1>7, <1>8, <1>9 DEF HandPlaced
<1> QED
  BY <1>10, TellingStands DEF Placed

(* A table that does not change grows, and keeps what sessions copied. *)
LEMMA TablesStill ==
    ASSUME TypeOK, UNCHANGED <<tables, peak>>
    PROVE  TablesGrow /\ \A t \in Session : Kept(t)
BY ServiceAssumption DEF TypeOK, Ledger!TypeOK, TablesGrow, Kept, tables

(* A step of one session keeps the invariant when it leaves that session   *)
(* well placed and apart from the others.                                  *)
LEMMA OneMoves ==
    ASSUME IInv, NEW s \in Session, OnlyMoves(s), Shaped(s)',
           Ledger!TypeOK', Ledger!CommittedWithin',
           TablesGrow, \A t \in Session \ {s} : Kept(t) /\ Apart(s, t)',
           Placed(s)'
    PROVE  IInv'
<1>0. TypeOK /\ AllApart
  BY DEF IInv
<1>1. TypeOK'
  BY <1>0, StillTyped
<1>2. \A t \in Session \ {s} : Row(t)' = Row(t)
  BY <1>0, OthersStill
<1>3. \A t \in Session : Placed(t)'
  BY <1>2, PlacedStands
<1>4. AllApart'
  <2> SUFFICES ASSUME NEW t \in Session, NEW x \in Session, t # x PROVE Apart(t, x)'
    BY DEF AllApart
  <2>1. CASE t = s
    BY <2>1
  <2>2. CASE x = s
    <3>1. Apart(s, t)'
      BY <2>2
    <3> QED
      BY <2>2, <3>1 DEF Apart
  <2>3. CASE t # s /\ x # s
    <3>1. Row(t)' = Row(t) /\ Row(x)' = Row(x) /\ Apart(t, x)
      BY <1>0, <1>2, <2>3 DEF AllApart
    <3> QED
      BY <3>1 DEF Row, Apart
  <2> QED
    BY <2>1, <2>2, <2>3
<1> QED
  BY <1>1, <1>3, <1>4 DEF IInv

(* The same, for a step that writes nothing. *)
LEMMA OneReads ==
    ASSUME IInv, NEW s \in Session, OnlyMoves(s), Shaped(s)', UNCHANGED <<tables, peak>>,
           \A t \in Session \ {s} : Apart(s, t)', Placed(s)'
    PROVE  IInv'
<1>1. TypeOK /\ Ledger!TypeOK /\ Ledger!CommittedWithin
  BY DEF IInv, TypeOK
<1>2. TablesGrow /\ \A t \in Session : Kept(t)
  BY <1>1, TablesStill
<1>3. Ledger!TypeOK' /\ Ledger!CommittedWithin'
  BY <1>1 DEF tables, Ledger!TypeOK, Ledger!CommittedWithin, Ledger!Reserved
<1> QED
  BY <1>2, <1>3, OneMoves

-----------------------------------------------------------------------------
(* Transaction ends *)

(* Dropping the copies leaves a session with nothing. *)
LEMMA Dropped ==
    ASSUME TypeOK, NEW s \in Session, DropCopies(s)
    PROVE  /\ Nothing(s)'
           /\ lim' = [lim EXCEPT ![s] = lim'[s]]
           /\ periodRow' = [periodRow EXCEPT ![s] = periodRow'[s]]
           /\ resvRow' = [resvRow EXCEPT ![s] = resvRow'[s]]
           /\ usageRow' = [usageRow EXCEPT ![s] = usageRow'[s]]
           /\ todo' = [todo EXCEPT ![s] = todo'[s]]
           /\ lim'[s] \in 0..MaxLimit
           /\ periodRow'[s] \in [Period -> Ledger!Counters \cup {NoRow}]
           /\ resvRow'[s] \in [Key -> Ledger!Reservation \cup {NoRow}]
           /\ usageRow'[s] \in [UsageKey -> Ledger!UsageEvent \cup {NoRow}]
           /\ todo'[s] \in Seq(Key)
<1>1. /\ periodRow'[s] = Blank(Period)
      /\ resvRow'[s] = Blank(Key)
      /\ usageRow'[s] = Blank(UsageKey)
      /\ todo'[s] = <<>>
      /\ lim'[s] = 0
  BY DEF TypeOK, DropCopies, Blank
<1>2. /\ lim' = [lim EXCEPT ![s] = lim'[s]]
      /\ periodRow' = [periodRow EXCEPT ![s] = periodRow'[s]]
      /\ resvRow' = [resvRow EXCEPT ![s] = resvRow'[s]]
      /\ usageRow' = [usageRow EXCEPT ![s] = usageRow'[s]]
      /\ todo' = [todo EXCEPT ![s] = todo'[s]]
  BY <1>1 DEF DropCopies, Blank
<1>3. /\ periodRow'[s] \in [Period -> Ledger!Counters \cup {NoRow}]
      /\ resvRow'[s] \in [Key -> Ledger!Reservation \cup {NoRow}]
      /\ usageRow'[s] \in [UsageKey -> Ledger!UsageEvent \cup {NoRow}]
  BY <1>1 DEF Blank
<1>4. todo'[s] \in Seq(Key) /\ lim'[s] \in 0..MaxLimit
  BY <1>1, ServiceAssumption
<1> QED
  BY <1>1, <1>2, <1>3, <1>4 DEF Nothing, Hand

(* The answers are labels of their own. *)
LEMMA AnswerLabels ==
    ASSUME NEW l \in Answers
    PROVE  /\ l \in Labels /\ l \in Reading
           /\ l \notin {"idle", "rsv_period", "rsv_insert", "use_resv", "use_period",
                        "use_insert", "rel_resv", "rel_period", "exp_loop", "commit"}
BY DEF Answers, Labels, Reading

(* Ending a transaction without writing, with a true answer. *)
LEMMA EndKeeps ==
    ASSUME IInv, NEW s \in Session, NEW from, NEW answer \in Answers, End(s, from, answer),
           ReserveCall(arg[s]) \/ CommitCall(arg[s]) \/ ReleaseCall(arg[s]),
           answer = "ok" => Done(arg[s])
    PROVE  IInv'
<1>0. TypeOK /\ UNCHANGED <<tables, peak, arg>> /\ DropCopies(s)
  BY DEF IInv, End
<1>1. pc' = [pc EXCEPT ![s] = answer] /\ pc'[s] = answer /\ arg'[s] = arg[s]
  BY <1>0 DEF End, Goto, TypeOK
<1>2. arg' = [arg EXCEPT ![s] = arg'[s]] /\ arg'[s] \in Args /\ pc'[s] \in Labels
  BY <1>0, <1>1, AnswerLabels DEF TypeOK
<1>3. OnlyMoves(s) /\ Shaped(s)' /\ Nothing(s)'
  BY <1>0, <1>1, <1>2, Dropped DEF OnlyMoves, Shaped
<1>4. \A t \in Session \ {s} : Apart(s, t)'
  BY <1>3 DEF Nothing, Hand, Blank, Apart
<1>5. /\ (ReserveCall(arg[s]) \/ CommitCall(arg[s]) \/ ReleaseCall(arg[s]) \/ arg[s] = NoArg)'
      /\ answer = "ok" => Done(arg[s])'
  BY <1>0, <1>1 DEF tables, ReserveCall, CommitCall, ReleaseCall, Done, SameRequest, SameUsage
<1>6. Placed(s)'
  <2>1. CallPlaced(s)' /\ HandPlaced(s)'
    BY <1>1, <1>3, AnswerLabels DEF CallPlaced, HandPlaced
  <2>2. Told(s)' /\ Replied(s)'
    BY <1>1, <1>5 DEF Told, Replied
  <2> QED
    BY <2>1, <2>2 DEF Placed
<1> QED
  BY <1>0, <1>3, <1>4, <1>6, OneReads

(* A caller takes its answer. *)
LEMMA ReturnKeeps ==
    ASSUME IInv, NEW s \in Session, Return(s)
    PROVE  IInv'
<1>0. TypeOK /\ Placed(s) /\ UNCHANGED <<tables, peak, lim, copies, todo>>
  BY DEF IInv, Return
<1>1. pc'[s] = "idle" /\ arg'[s] = NoArg /\ pc[s] \in Reading
  BY AnswerLabels DEF Return, IInv, TypeOK
<1>2. OnlyMoves(s)
  BY <1>0, <1>1 DEF Return, OnlyMoves, TypeOK, copies
<1>3. Shaped(s)'
  <2>1. NoArg \in Args /\ "idle" \in Labels
    BY NoArgType DEF Labels
  <2> QED
    BY <1>0, <1>1, <2>1 DEF Shaped, TypeOK, copies
<1>4. Nothing(s)'
  BY <1>0, <1>1 DEF Placed, HandPlaced, Nothing, Hand, copies
<1>5. \A t \in Session \ {s} : Apart(s, t)'
  BY <1>4 DEF Nothing, Hand, Blank, Apart
<1>6. Placed(s)'
  BY <1>1, <1>4 DEF Placed, CallPlaced, HandPlaced, Told, Replied, Answers
<1> QED
  BY <1>0, <1>2, <1>3, <1>5, <1>6, OneReads

(* A session dies, or rolls back. *)
LEMMA AbortKeeps ==
    ASSUME IInv, NEW s \in Session, Abort(s)
    PROVE  IInv'
<1>0. TypeOK /\ UNCHANGED <<tables, peak>> /\ DropCopies(s)
  BY DEF IInv, Abort
<1>1. /\ pc'[s] = "idle" /\ arg'[s] = NoArg
      /\ pc' = [pc EXCEPT ![s] = pc'[s]] /\ arg' = [arg EXCEPT ![s] = arg'[s]]
  BY <1>0 DEF Abort, TypeOK
<1>2. NoArg \in Args /\ "idle" \in Labels
  BY NoArgType DEF Labels
<1>3. OnlyMoves(s) /\ Shaped(s)' /\ Nothing(s)'
  BY <1>0, <1>1, <1>2, Dropped DEF OnlyMoves, Shaped
<1>4. \A t \in Session \ {s} : Apart(s, t)'
  BY <1>3 DEF Nothing, Hand, Blank, Apart
<1>5. Placed(s)'
  BY <1>1, <1>3 DEF Placed, CallPlaced, HandPlaced, Told, Replied, Answers
<1> QED
  BY <1>0, <1>3, <1>4, <1>5, OneReads

-----------------------------------------------------------------------------
(* Calls *)

(* A call begins with its arguments and no copies. *)
LEMMA BeginKeeps ==
    ASSUME IInv, NEW s \in Session, NEW a \in Args,
           NEW label \in {"rsv_period", "use_resv", "rel_resv"},
           Begin(s, label, a), UNCHANGED <<tables, peak, copies, todo>>,
           NEW l \in 0..MaxLimit, lim' = [lim EXCEPT ![s] = l],
           label = "rsv_period" => ReserveCall(a) /\ l <= peak[a.period[1]],
           label = "use_resv" => CommitCall(a),
           label = "rel_resv" => ReleaseCall(a)
    PROVE  IInv'
<1>0. TypeOK /\ Placed(s)
  BY DEF IInv
<1>1. /\ pc'[s] = label /\ arg'[s] = a /\ lim'[s] = l /\ pc[s] = "idle"
      /\ periodRow'[s] = periodRow[s] /\ resvRow'[s] = resvRow[s]
      /\ usageRow'[s] = usageRow[s] /\ todo'[s] = todo[s]
  BY <1>0 DEF Begin, Goto, TypeOK, copies
<1>2. OnlyMoves(s)
  <2>1. /\ pc' = [pc EXCEPT ![s] = pc'[s]] /\ arg' = [arg EXCEPT ![s] = arg'[s]]
        /\ lim' = [lim EXCEPT ![s] = lim'[s]]
    BY <1>1 DEF Begin, Goto
  <2>2. /\ periodRow' = [periodRow EXCEPT ![s] = periodRow'[s]]
        /\ resvRow' = [resvRow EXCEPT ![s] = resvRow'[s]]
        /\ usageRow' = [usageRow EXCEPT ![s] = usageRow'[s]]
        /\ todo' = [todo EXCEPT ![s] = todo'[s]]
    BY <1>0 DEF TypeOK, copies
  <2> QED
    BY <2>1, <2>2 DEF OnlyMoves
<1>3. Shaped(s)'
  BY <1>0, <1>1, EachShaped DEF Shaped, Labels
<1>4. Nothing(s)'
  BY <1>0, <1>1 DEF Placed, HandPlaced, Nothing, Hand, Reading
<1>5. \A t \in Session \ {s} : Apart(s, t)'
  BY <1>4 DEF Nothing, Hand, Blank, Apart
<1>6. /\ label = "rsv_period" => ReserveCall(a)'
      /\ label = "use_resv" => CommitCall(a)'
      /\ label = "rel_resv" => ReleaseCall(a)'
      /\ peak' = peak
  BY DEF ReserveCall, CommitCall, ReleaseCall, tables
<1>7. CallPlaced(s)'
  BY <1>1, <1>6 DEF CallPlaced, ReserveCall, CommitCall, ReleaseCall
<1>8. HandPlaced(s)'
  BY <1>1, <1>4, <1>6 DEF HandPlaced
<1>9. Placed(s)'
  BY <1>1, <1>7, <1>8 DEF Placed, Told, Replied, Answers
<1> QED
  BY <1>2, <1>3, <1>5, <1>9, OneReads

LEMMA CallKeeps ==
    ASSUME IInv, NEW s \in Session, Call(s)
    PROVE  IInv'
<1>0. TypeOK /\ lim[s] \in 0..MaxLimit
  BY DEF IInv, TypeOK
<1>1. ASSUME NEW k \in Key, NEW p \in Period, NEW n \in 1..MaxChecks, BeginReserve(s, k, p, n)
      PROVE  IInv'
  <2> DEFINE a == [NoArg EXCEPT !.key = k, !.period = p, !.checks = n]
  <2>1. a.key = k /\ a.period = p /\ a.checks = n /\ a.event = NoRow
    BY DEF NoArg
  <2>2. a \in Args /\ ReserveCall(a)
    <3>1. n \in 0..MaxChecks
      BY ServiceAssumption
    <3>2. a \in Args
      BY <3>1, NoArgType DEF Args
    <3> HIDE DEF a
    <3> QED
      BY <2>1, <3>2 DEF ReserveCall
  <2>3. p[1] \in Workspace /\ peak[p[1]] \in 0..MaxLimit
    BY <1>0, PeriodOf DEF TypeOK, Ledger!TypeOK
  <2>4. PICK l \in 0..peak[p[1]] : lim' = [lim EXCEPT ![s] = l]
    BY <1>1 DEF BeginReserve
  <2>5. l \in 0..MaxLimit /\ l <= peak[a.period[1]]
    BY <2>1, <2>3, <2>4, ServiceAssumption
  <2>6. Begin(s, "rsv_period", a) /\ UNCHANGED <<tables, peak, copies, todo>>
    BY <1>1 DEF BeginReserve
  <2> QED
    BY <2>2, <2>4, <2>5, <2>6, BeginKeeps
<1>2. ASSUME NEW k \in Key, NEW q \in 1..MaxChecks, NEW u \in UsageKey, BeginCommit(s, k, q, u)
      PROVE  IInv'
  <2> DEFINE a == [NoArg EXCEPT !.key = k, !.checks = q, !.event = u]
  <2>1. a.key = k /\ a.period = NoRow /\ a.checks = q /\ a.event = u
    BY DEF NoArg
  <2>2. a \in Args /\ CommitCall(a)
    <3>1. q \in 0..MaxChecks
      BY ServiceAssumption
    <3>2. a \in Args
      BY <3>1, NoArgType DEF Args
    <3> HIDE DEF a
    <3> QED
      BY <1>2, <2>1, <3>2 DEF CommitCall, BeginCommit
  <2>3. /\ Begin(s, "use_resv", a) /\ UNCHANGED <<tables, peak, copies, todo>>
        /\ lim' = [lim EXCEPT ![s] = lim[s]]
    BY <1>0, <1>2 DEF BeginCommit, TypeOK
  <2> QED
    BY <1>0, <2>2, <2>3, BeginKeeps
<1>3. ASSUME NEW k \in Key, BeginRelease(s, k) PROVE IInv'
  <2> DEFINE a == [NoArg EXCEPT !.key = k]
  <2>1. a.key = k /\ a.period = NoRow /\ a.checks = 0 /\ a.event = NoRow
    BY DEF NoArg
  <2>2. a \in Args /\ ReleaseCall(a)
    BY <1>3, <2>1, NoArgType DEF Args, ReleaseCall, BeginRelease
  <2>3. /\ Begin(s, "rel_resv", a) /\ UNCHANGED <<tables, peak, copies, todo>>
        /\ lim' = [lim EXCEPT ![s] = lim[s]]
    BY <1>0, <1>3 DEF BeginRelease, TypeOK
  <2> QED
    BY <1>0, <2>2, <2>3, BeginKeeps
<1> QED
  BY <1>1, <1>2, <1>3 DEF Call

-----------------------------------------------------------------------------
(* Steps under locks *)

(* reserve_ai_checks has the period and computes its new counters. *)
LEMMA ReserveLockPeriodKeeps ==
    ASSUME IInv, NEW s \in Session, ReserveLockPeriod(s)
    PROVE  IInv'
<1> DEFINE a == arg[s]
           row == period[a.period]
<1>0. TypeOK /\ Placed(s) /\ pc[s] = "rsv_period" /\ PeriodFree(s, a.period)
  BY DEF IInv, ReserveLockPeriod
<1>1. ReserveCall(a) /\ Nothing(s) /\ lim[s] <= peak[a.period[1]]
  BY <1>0 DEF Placed, CallPlaced, HandPlaced, Reading
<1>2. /\ a.key \in Key /\ a.period \in Period /\ a.checks \in 1..MaxChecks
      /\ a.period[1] \in Workspace /\ row \in Ledger!Counters
      /\ peak[a.period[1]] \in Nat /\ lim[s] \in Nat /\ a.checks \in Nat
  BY <1>0, <1>1, PeriodOf, ServiceAssumption
     DEF ReserveCall, TypeOK, Ledger!TypeOK, Ledger!Period, Period
<1>3. CASE resv[a.key] # NoRow
           /\ End(s, "rsv_period", IF SameRequest(a, resv[a.key]) THEN "ok" ELSE "conflict")
  <2>1. SameRequest(a, resv[a.key]) => Done(a)
    BY <1>1, <1>3, NoRowAssumption DEF Done, ReserveCall
  <2> QED
    BY <1>1, <1>3, <2>1, EndKeeps DEF Answers
<1>4. CASE End(s, "rsv_period", "exceeded")
  BY <1>1, <1>4, EndKeeps DEF Answers
<1>5. CASE /\ a.checks <= lim[s] - row.used - row.reserved
           /\ Goto(s, "rsv_period", "rsv_insert")
           /\ HoldPeriod(s, a.period, Ledger!Debit(row, a.checks))
           /\ UNCHANGED <<tables, peak, arg, lim, resvRow, usageRow, todo>>
  <2>1. Ledger!Debit(row, a.checks) \in Ledger!Counters
    BY <1>2 DEF Ledger!Counters, Ledger!Debit
  <2>2. /\ pc'[s] = "rsv_insert" /\ arg'[s] = a /\ lim'[s] = lim[s] /\ todo'[s] = todo[s]
        /\ resvRow'[s] = resvRow[s] /\ usageRow'[s] = usageRow[s]
        /\ periodRow'[s] = [periodRow[s] EXCEPT ![a.period] = Ledger!Debit(row, a.checks)]
    BY <1>0, <1>5 DEF Goto, HoldPeriod, TypeOK
  <2>3. Hand(s, Single(Period, a.period, Ledger!Debit(row, a.checks)), Blank(Key),
             Blank(UsageKey))'
    BY <1>1, <1>2, <1>5, <2>2, CopyOne DEF Nothing, Hand, tables
  <2>4. OnlyMoves(s)
    BY <1>0, <1>5, <2>2 DEF Goto, HoldPeriod, OnlyMoves, TypeOK
  <2>5. Shaped(s)'
    BY <1>0, <1>2, <2>1, <2>2, EachShaped DEF Shaped, Labels
  <2>6. \A t \in Session \ {s} : Apart(s, t)'
    <3> SUFFICES ASSUME NEW t \in Session \ {s} PROVE Apart(s, t)'
      OBVIOUS
    <3>1. Row(t)' = Row(t) /\ periodRow[t][a.period] = NoRow
      BY <1>0, <2>4, OthersStill DEF PeriodFree
    <3> QED
      BY <2>2, <2>3, <3>1 DEF Apart, Hand, Single, Blank, Row
  <2>7. Affordable(a)'
    BY <1>1, <1>2, <1>5 DEF Affordable, tables, Ledger!Counters
  <2>8. ReserveHand(s, Blank(Key))'
    BY <1>5, <2>2, <2>3, <2>7 DEF ReserveHand, tables
  <2>9. CallPlaced(s)' /\ HandPlaced(s)'
    BY <1>1, <2>2, <2>8 DEF CallPlaced, HandPlaced, ReserveCall, Reading, Answers
  <2>10. Placed(s)'
    BY <2>2, <2>9 DEF Placed, Told, Replied, Answers
  <2> QED
    BY <1>5, <2>4, <2>5, <2>6, <2>10, OneReads
<1> QED
  BY <1>0, <1>3, <1>4, <1>5 DEF ReserveLockPeriod

(* A step that copies rows nobody else holds. *)
LEMMA HoldKeeps ==
    ASSUME IInv, NEW s \in Session, UNCHANGED <<tables, peak, arg, lim, todo>>,
           NEW to \in {"use_period", "use_insert", "rel_period", "commit"},
           pc' = [pc EXCEPT ![s] = to],
           NEW ps \in [Period -> Ledger!Counters \cup {NoRow}],
           NEW rs \in [Key -> Ledger!Reservation \cup {NoRow}],
           NEW es \in [UsageKey -> Ledger!UsageEvent \cup {NoRow}],
           periodRow' = [periodRow EXCEPT ![s] = ps],
           resvRow' = [resvRow EXCEPT ![s] = rs],
           usageRow' = [usageRow EXCEPT ![s] = es],
           \A p \in Period : ps[p] # NoRow /\ periodRow[s][p] = NoRow => PeriodFree(s, p),
           \A k \in Key : rs[k] # NoRow /\ resvRow[s][k] = NoRow => ResvFree(s, k),
           \A u \in UsageKey : es[u] # NoRow /\ usageRow[s][u] = NoRow => EventFree(s, u),
           CallPlaced(s)', HandPlaced(s)'
    PROVE  IInv'
<1>0. TypeOK /\ AllApart
  BY DEF IInv
<1>1. /\ pc'[s] = to /\ periodRow'[s] = ps /\ resvRow'[s] = rs /\ usageRow'[s] = es
  BY <1>0 DEF TypeOK
<1>2. OnlyMoves(s)
  BY <1>0, <1>1 DEF TypeOK, OnlyMoves
<1>3. Shaped(s)'
  BY <1>0, <1>1, EachShaped DEF Shaped, Labels
<1>4. ASSUME NEW t \in Session \ {s} PROVE Apart(s, t)'
  <2>1. Row(t)' = Row(t) /\ Apart(s, t)
    BY <1>0, <1>2, OthersStill DEF AllApart
  <2> QED
    BY <1>1, <2>1 DEF Apart, Row, PeriodFree, ResvFree, EventFree
<1>5. Placed(s)'
  BY <1>1 DEF Placed, Told, Replied, Answers
<1> QED
  BY <1>2, <1>3, <1>4, <1>5, OneReads

(* The insert of the reservation. *)
LEMMA ReserveInsertKeeps ==
    ASSUME IInv, NEW s \in Session, ReserveInsert(s)
    PROVE  IInv'
<1> DEFINE a == arg[s]
           new == Ledger!NewReservation(a.period, a.checks)
<1>0. TypeOK /\ Placed(s) /\ pc[s] = "rsv_insert"
  BY DEF IInv, ReserveInsert
<1>1. ReserveCall(a) /\ ReserveHand(s, Blank(Key))
  BY <1>0 DEF Placed, CallPlaced, HandPlaced
<1>2. /\ a.key \in Key /\ a.period \in Period /\ a.checks \in 1..MaxChecks
      /\ new \in Ledger!Reservation
  BY <1>1, NewRowType DEF ReserveCall
<1>3. CASE resv[a.key] # NoRow
           /\ End(s, "rsv_insert", IF SameRequest(a, resv[a.key]) THEN "ok" ELSE "conflict")
  <2>1. SameRequest(a, resv[a.key]) => Done(a)
    BY <1>1, <1>3, NoRowAssumption DEF Done, ReserveCall
  <2> QED
    BY <1>1, <1>3, <2>1, EndKeeps DEF Answers
<1>4. CASE /\ resv[a.key] = NoRow
           /\ ResvFree(s, a.key)
           /\ Goto(s, "rsv_insert", "commit")
           /\ HoldResv(s, a.key, new)
           /\ UNCHANGED <<tables, peak, arg, lim, periodRow, usageRow, todo>>
  <2> DEFINE rs == [resvRow[s] EXCEPT ![a.key] = new]
  <2>1. /\ rs \in [Key -> Ledger!Reservation \cup {NoRow}]
        /\ periodRow[s] \in [Period -> Ledger!Counters \cup {NoRow}]
        /\ usageRow[s] \in [UsageKey -> Ledger!UsageEvent \cup {NoRow}]
    BY <1>0, <1>2 DEF TypeOK
  <2>2. /\ pc' = [pc EXCEPT ![s] = "commit"] /\ pc'[s] = "commit" /\ arg'[s] = a
        /\ periodRow' = [periodRow EXCEPT ![s] = periodRow[s]] /\ periodRow'[s] = periodRow[s]
        /\ resvRow' = [resvRow EXCEPT ![s] = rs] /\ resvRow'[s] = rs
        /\ usageRow' = [usageRow EXCEPT ![s] = usageRow[s]] /\ usageRow'[s] = usageRow[s]
    BY <1>0, <1>4 DEF Goto, HoldResv, TypeOK
  <2>3. rs = Single(Key, a.key, new)
    BY <1>1, <1>2, CopyOne DEF ReserveHand, Hand
  <2>4. ReserveHand(s, Single(Key, a.key, new))'
    BY <1>1, <1>4, <2>2, <2>3 DEF ReserveHand, Hand, Affordable, tables
  <2>5. WriteHand(s)'
    BY <1>1, <1>4, <2>2, <2>4 DEF WriteHand, ReserveCall, tables
  <2>6. CallPlaced(s)' /\ HandPlaced(s)'
    BY <2>2, <2>5 DEF CallPlaced, HandPlaced, Reading, Answers
  <2>7. \A k \in Key : rs[k] # NoRow /\ resvRow[s][k] = NoRow => ResvFree(s, k)
    BY <1>4, <2>3 DEF Single
  <2>8. UNCHANGED <<tables, peak, arg, lim, todo>>
    BY <1>4
  <2> HIDE DEF rs
  <2> QED
    BY <2>1, <2>2, <2>6, <2>7, <2>8, HoldKeeps
<1> QED
  BY <1>0, <1>3, <1>4 DEF ReserveInsert

(* commit_ai_checks has the reservation. *)
LEMMA CommitLockReservationKeeps ==
    ASSUME IInv, NEW s \in Session, CommitLockReservation(s)
    PROVE  IInv'
<1> DEFINE a == arg[s]
           row == resv[a.key]
<1>0. TypeOK /\ Placed(s) /\ pc[s] = "use_resv" /\ ResvFree(s, a.key)
  BY DEF IInv, CommitLockReservation
<1>1. CommitCall(a) /\ Nothing(s)
  BY <1>0 DEF Placed, CallPlaced, HandPlaced, Reading
<1>2. a.key \in Key /\ row \in Ledger!Reservation
  BY <1>1, RowOf DEF CommitCall
<1>3. CASE usage[a.event] # NoRow
           /\ End(s, "use_resv", IF SameUsage(a, usage[a.event]) THEN "ok" ELSE "conflict")
  <2>1. SameUsage(a, usage[a.event]) => Done(a)
    BY <1>1, <1>3, NoRowAssumption DEF Done, CommitCall
  <2> QED
    BY <1>1, <1>3, <2>1, EndKeeps DEF Answers
<1>4. CASE End(s, "use_resv", "conflict")
  BY <1>1, <1>4, EndKeeps DEF Answers
<1>5. CASE /\ Committable(row, a.checks)
           /\ Goto(s, "use_resv", "use_period")
           /\ HoldResv(s, a.key, row)
           /\ UNCHANGED <<tables, peak, arg, lim, periodRow, usageRow, todo>>
  <2> DEFINE rs == [resvRow[s] EXCEPT ![a.key] = row]
  <2>1. /\ rs \in [Key -> Ledger!Reservation \cup {NoRow}]
        /\ periodRow[s] \in [Period -> Ledger!Counters \cup {NoRow}]
        /\ usageRow[s] \in [UsageKey -> Ledger!UsageEvent \cup {NoRow}]
    BY <1>0, <1>2 DEF TypeOK
  <2>2. /\ pc' = [pc EXCEPT ![s] = "use_period"] /\ pc'[s] = "use_period" /\ arg'[s] = a
        /\ periodRow' = [periodRow EXCEPT ![s] = periodRow[s]] /\ periodRow'[s] = periodRow[s]
        /\ resvRow' = [resvRow EXCEPT ![s] = rs] /\ resvRow'[s] = rs
        /\ usageRow' = [usageRow EXCEPT ![s] = usageRow[s]] /\ usageRow'[s] = usageRow[s]
    BY <1>0, <1>5 DEF Goto, HoldResv, TypeOK
  <2>3. rs = Single(Key, a.key, row)
    BY <1>1, <1>2, CopyOne DEF Nothing, Hand
  <2>4. /\ Hand(s, Blank(Period), Single(Key, a.key, resv[a.key]), Blank(UsageKey))'
        /\ Committable(resv[a.key], a.checks)'
    BY <1>1, <1>5, <2>2, <2>3 DEF Nothing, Hand, tables
  <2>5. CallPlaced(s)'
    BY <1>1, <1>5, <2>2 DEF CallPlaced, CommitCall, tables
  <2>6. HandPlaced(s)'
    BY <2>2, <2>4 DEF HandPlaced, Reading, Answers
  <2>7. \A k \in Key : rs[k] # NoRow /\ resvRow[s][k] = NoRow => ResvFree(s, k)
    BY <1>0, <2>3 DEF Single
  <2>8. UNCHANGED <<tables, peak, arg, lim, todo>>
    BY <1>5
  <2> HIDE DEF rs
  <2> QED
    BY <2>1, <2>2, <2>5, <2>6, <2>7, <2>8, HoldKeeps
<1> QED
  BY <1>0, <1>3, <1>4, <1>5 DEF CommitLockReservation

(* commit_ai_checks has the period and computes both rows. *)
LEMMA CommitLockPeriodKeeps ==
    ASSUME IInv, NEW s \in Session, CommitLockPeriod(s)
    PROVE  IInv'
<1> DEFINE a == arg[s]
           r == resv[a.key]
           counters == Ledger!Transfer(period[r.period], a.checks)
           consumed == Ledger!Consume(r, a.checks)
<1>0. TypeOK /\ Placed(s) /\ pc[s] = "use_period"
  BY DEF IInv, CommitLockPeriod, Goto
<1>1. /\ CommitCall(a) /\ Committable(r, a.checks)
      /\ Hand(s, Blank(Period), Single(Key, a.key, r), Blank(UsageKey))
  BY <1>0 DEF Placed, CallPlaced, HandPlaced
<1>2. /\ a.key \in Key /\ r \in Ledger!Reservation /\ r.period \in Period
      /\ resvRow[s][a.key] = r
      /\ counters \in Ledger!Counters /\ consumed \in Ledger!Reservation
  <2>1. /\ a.key \in Key /\ r \in Ledger!Reservation /\ r.period \in Period
        /\ r.committed <= r.reserved /\ period[r.period] \in Ledger!Counters
        /\ a.checks \in 1..MaxChecks /\ a.checks <= Ledger!Remaining(r)
    BY <1>1, RowOf DEF CommitCall, Committable
  <2>2. counters \in Ledger!Counters /\ consumed \in Ledger!Reservation
    BY <2>1, RowTypes
  <2> QED
    BY <1>1, <2>1, <2>2 DEF Hand, Single
<1> DEFINE ps == [periodRow[s] EXCEPT ![r.period] = counters]
           rs == [resvRow[s] EXCEPT ![a.key] = consumed]
<1>3. /\ ps \in [Period -> Ledger!Counters \cup {NoRow}]
      /\ rs \in [Key -> Ledger!Reservation \cup {NoRow}]
      /\ usageRow[s] \in [UsageKey -> Ledger!UsageEvent \cup {NoRow}]
  BY <1>0, <1>2 DEF TypeOK
<1>4. /\ PeriodFree(s, r.period) /\ UNCHANGED <<tables, peak, arg, lim, todo>>
      /\ pc' = [pc EXCEPT ![s] = "use_insert"] /\ pc'[s] = "use_insert" /\ arg'[s] = a
      /\ periodRow' = [periodRow EXCEPT ![s] = ps] /\ periodRow'[s] = ps
      /\ resvRow' = [resvRow EXCEPT ![s] = rs] /\ resvRow'[s] = rs
      /\ usageRow' = [usageRow EXCEPT ![s] = usageRow[s]] /\ usageRow'[s] = usageRow[s]
  BY <1>0, <1>2 DEF CommitLockPeriod, Goto, HoldPeriod, HoldResv, TypeOK
<1>5. ps = Single(Period, r.period, counters) /\ rs = Single(Key, a.key, consumed)
  <2> HIDE DEF counters, consumed
  <2>1. periodRow[s] = Blank(Period) /\ resvRow[s] = Single(Key, a.key, r)
    BY <1>1 DEF Hand
  <2>2. ps = Single(Period, r.period, counters)
    BY <1>2, <2>1, CopyOne
  <2>3. [Single(Key, a.key, r) EXCEPT ![a.key] = consumed] = Single(Key, a.key, consumed)
    BY <1>2 DEF Single
  <2> QED
    BY <2>1, <2>2, <2>3
<1>6. CommitHand(s, Blank(UsageKey))'
  BY <1>1, <1>4, <1>5 DEF CommitHand, Hand, tables
<1>7. CallPlaced(s)'
  BY <1>1, <1>4 DEF CallPlaced, CommitCall, tables
<1>8. HandPlaced(s)'
  BY <1>4, <1>6 DEF HandPlaced, Reading, Answers
<1>9. /\ \A p \in Period : ps[p] # NoRow /\ periodRow[s][p] = NoRow => PeriodFree(s, p)
      /\ \A k \in Key : rs[k] # NoRow /\ resvRow[s][k] = NoRow => ResvFree(s, k)
  BY <1>1, <1>2, <1>4, <1>5, NoRowAssumption DEF Single, CommitCall
<1> HIDE DEF ps, rs
<1> QED
  BY <1>3, <1>4, <1>7, <1>8, <1>9, HoldKeeps

(* commit_ai_checks inserts the usage event. *)
LEMMA CommitInsertEventKeeps ==
    ASSUME IInv, NEW s \in Session, CommitInsertEvent(s)
    PROVE  IInv'
<1> DEFINE a == arg[s]
           new == [key |-> a.key, checks |-> a.checks]
<1>0. TypeOK /\ Placed(s) /\ pc[s] = "use_insert"
  BY DEF IInv, CommitInsertEvent
<1>1. CommitCall(a) /\ CommitHand(s, Blank(UsageKey))
  BY <1>0 DEF Placed, CallPlaced, HandPlaced
<1>2. a.event \in UsageKey /\ new \in Ledger!UsageEvent
  BY <1>1 DEF CommitCall, Ledger!UsageEvent
<1>3. CASE usage[a.event] # NoRow
           /\ End(s, "use_insert", IF SameUsage(a, usage[a.event]) THEN "ok" ELSE "conflict")
  <2>1. SameUsage(a, usage[a.event]) => Done(a)
    BY <1>1, <1>3, NoRowAssumption DEF Done, CommitCall
  <2> QED
    BY <1>1, <1>3, <2>1, EndKeeps DEF Answers
<1>4. CASE /\ usage[a.event] = NoRow
           /\ EventFree(s, a.event)
           /\ Goto(s, "use_insert", "commit")
           /\ HoldEvent(s, a.event, new)
           /\ UNCHANGED <<tables, peak, arg, lim, periodRow, resvRow, todo>>
  <2> DEFINE es == [usageRow[s] EXCEPT ![a.event] = new]
  <2>1. /\ es \in [UsageKey -> Ledger!UsageEvent \cup {NoRow}]
        /\ periodRow[s] \in [Period -> Ledger!Counters \cup {NoRow}]
        /\ resvRow[s] \in [Key -> Ledger!Reservation \cup {NoRow}]
    BY <1>0, <1>2 DEF TypeOK
  <2>2. /\ pc' = [pc EXCEPT ![s] = "commit"] /\ pc'[s] = "commit" /\ arg'[s] = a
        /\ periodRow' = [periodRow EXCEPT ![s] = periodRow[s]] /\ periodRow'[s] = periodRow[s]
        /\ resvRow' = [resvRow EXCEPT ![s] = resvRow[s]] /\ resvRow'[s] = resvRow[s]
        /\ usageRow' = [usageRow EXCEPT ![s] = es] /\ usageRow'[s] = es
    BY <1>0, <1>4 DEF Goto, HoldEvent, TypeOK
  <2>3. es = Single(UsageKey, a.event, new)
    BY <1>1, <1>2, CopyOne DEF CommitHand, Hand
  <2>4. CommitHand(s, Single(UsageKey, a.event, new))'
    BY <1>1, <1>4, <2>2, <2>3 DEF CommitHand, Hand, tables
  <2>5. WriteHand(s)'
    BY <1>1, <1>4, <2>2, <2>4 DEF WriteHand, CommitCall, tables
  <2>6. CallPlaced(s)' /\ HandPlaced(s)'
    BY <2>2, <2>5 DEF CallPlaced, HandPlaced, Reading, Answers
  <2>7. \A u \in UsageKey : es[u] # NoRow /\ usageRow[s][u] = NoRow => EventFree(s, u)
    BY <1>4, <2>3 DEF Single
  <2>8. UNCHANGED <<tables, peak, arg, lim, todo>>
    BY <1>4
  <2> HIDE DEF es
  <2> QED
    BY <2>1, <2>2, <2>6, <2>7, <2>8, HoldKeeps
<1> QED
  BY <1>0, <1>3, <1>4 DEF CommitInsertEvent

(* What a release leaves of a reservation. *)
LEMMA GivenBack ==
    ASSUME NEW r \in Ledger!Reservation
    PROVE  /\ Ledger!GiveBack(r).period = r.period
           /\ Ledger!GiveBack(r).status # "ACTIVE"
           /\ Ledger!Remaining(Ledger!GiveBack(r)) = Ledger!Remaining(r)
BY DEF Ledger!GiveBack, Ledger!Reservation, Ledger!Remaining

(* release_reservation has the reservation. *)
LEMMA ReleaseLockReservationKeeps ==
    ASSUME IInv, NEW s \in Session, ReleaseLockReservation(s)
    PROVE  IInv'
<1> DEFINE a == arg[s]
           r == resv[a.key]
           back == Ledger!GiveBack(r)
           to == IF Ledger!Remaining(r) > 0 THEN "rel_period" ELSE "commit"
<1>0. TypeOK /\ Placed(s) /\ pc[s] = "rel_resv" /\ ResvFree(s, a.key)
  BY DEF IInv, ReleaseLockReservation
<1>1. ReleaseCall(a) /\ Nothing(s)
  BY <1>0 DEF Placed, CallPlaced, HandPlaced, Reading
<1>2. /\ a.key \in Key /\ r \in Ledger!Reservation /\ r # NoRow
      /\ back \in Ledger!Reservation /\ Ledger!Remaining(r) \in Nat
  <2>1. a.key \in Key /\ r \in Ledger!Reservation /\ r # NoRow /\ r.committed <= r.reserved
    BY <1>1, RowOf DEF ReleaseCall
  <2>2. 1 \in 1..MaxChecks /\ [used |-> 0, reserved |-> 0] \in Ledger!Counters
    BY ServiceAssumption DEF Ledger!Counters
  <2> QED
    BY <2>1, <2>2, RowTypes
<1>3. CASE r.status # "ACTIVE" /\ End(s, "rel_resv", "ok")
  <2>1. Done(a)
    BY <1>1, <1>3 DEF Done, ReleaseCall
  <2> QED
    BY <1>1, <1>3, <2>1, EndKeeps DEF Answers
<1>4. CASE /\ r.status = "ACTIVE"
           /\ Goto(s, "rel_resv", to)
           /\ HoldResv(s, a.key, back)
           /\ UNCHANGED <<tables, peak, arg, lim, periodRow, usageRow, todo>>
  <2> DEFINE rs == [resvRow[s] EXCEPT ![a.key] = back]
  <2>1. /\ rs \in [Key -> Ledger!Reservation \cup {NoRow}]
        /\ periodRow[s] \in [Period -> Ledger!Counters \cup {NoRow}]
        /\ usageRow[s] \in [UsageKey -> Ledger!UsageEvent \cup {NoRow}]
    BY <1>0, <1>2 DEF TypeOK
  <2>2. /\ pc' = [pc EXCEPT ![s] = to] /\ pc'[s] = to /\ arg'[s] = a
        /\ periodRow' = [periodRow EXCEPT ![s] = periodRow[s]] /\ periodRow'[s] = periodRow[s]
        /\ resvRow' = [resvRow EXCEPT ![s] = rs] /\ resvRow'[s] = rs
        /\ usageRow' = [usageRow EXCEPT ![s] = usageRow[s]] /\ usageRow'[s] = usageRow[s]
    BY <1>0, <1>4 DEF Goto, HoldResv, TypeOK
  <2>3. rs = Single(Key, a.key, back)
    BY <1>1, <1>2, CopyOne DEF Nothing, Hand
  <2>4. ReleaseHand(s, Blank(Period))'
    BY <1>1, <1>2, <1>4, <2>2, <2>3
       DEF ReleaseHand, Nothing, Hand, tables, Ledger!Active, Ledger!Reserved
  <2>5. ReleaseCall(a)' /\ resv' = resv
    BY <1>1, <1>4, <2>2 DEF ReleaseCall, tables
  <2>6. pc'[s] = "commit" => WriteHand(s)'
    BY <1>2, <2>2, <2>4, <2>5 DEF WriteHand
  <2>7. CallPlaced(s)'
    BY <2>2, <2>5 DEF CallPlaced
  <2>8. HandPlaced(s)'
    BY <2>2, <2>4, <2>6 DEF HandPlaced, Reading, Answers
  <2>9. \A k \in Key : rs[k] # NoRow /\ resvRow[s][k] = NoRow => ResvFree(s, k)
    BY <1>0, <2>3 DEF Single
  <2>10. UNCHANGED <<tables, peak, arg, lim, todo>>
    BY <1>4
  <2>11. to \in {"use_period", "use_insert", "rel_period", "commit"}
    OBVIOUS
  <2> HIDE DEF rs, to
  <2> QED
    BY <2>1, <2>2, <2>7, <2>8, <2>9, <2>10, <2>11, HoldKeeps
<1> QED
  BY <1>0, <1>3, <1>4 DEF ReleaseLockReservation

(* release_reservation has the period. *)
LEMMA ReleaseLockPeriodKeeps ==
    ASSUME IInv, NEW s \in Session, ReleaseLockPeriod(s)
    PROVE  IInv'
<1> DEFINE a == arg[s]
           r == resv[a.key]
           counters == Ledger!Credit(period[r.period], Ledger!Remaining(r))
<1>0. TypeOK /\ Placed(s) /\ pc[s] = "rel_period"
  BY DEF IInv, ReleaseLockPeriod
<1>1. ReleaseCall(a) /\ ReleaseHand(s, Blank(Period))
  BY <1>0 DEF Placed, CallPlaced, HandPlaced
<1>2. /\ a.key \in Key /\ r \in Ledger!Reservation /\ r.period \in Period
      /\ counters \in Ledger!Counters
      /\ resvRow[s][a.key] = Ledger!GiveBack(r)
  <2>1. /\ a.key \in Key /\ r \in Ledger!Reservation /\ r.period \in Period
        /\ r.committed <= r.reserved /\ period[r.period] \in Ledger!Counters
    BY <1>1, RowOf DEF ReleaseCall
  <2>2. 1 \in 1..MaxChecks
    BY ServiceAssumption
  <2>3. counters \in Ledger!Counters
    BY <2>1, <2>2, RowTypes
  <2> QED
    BY <1>1, <2>1, <2>3 DEF ReleaseHand, Hand, Single
<1> DEFINE ps == [periodRow[s] EXCEPT ![r.period] = counters]
<1>3. /\ ps \in [Period -> Ledger!Counters \cup {NoRow}]
      /\ resvRow[s] \in [Key -> Ledger!Reservation \cup {NoRow}]
      /\ usageRow[s] \in [UsageKey -> Ledger!UsageEvent \cup {NoRow}]
  BY <1>0, <1>2 DEF TypeOK
<1>4. /\ resvRow[s][a.key].period = r.period
      /\ Ledger!Remaining(resvRow[s][a.key]) = Ledger!Remaining(r)
  BY <1>2, GivenBack
<1>5. /\ PeriodFree(s, r.period) /\ UNCHANGED <<tables, peak, arg, lim, todo>>
      /\ pc' = [pc EXCEPT ![s] = "commit"] /\ pc'[s] = "commit" /\ arg'[s] = a
      /\ periodRow' = [periodRow EXCEPT ![s] = ps] /\ periodRow'[s] = ps
      /\ resvRow' = [resvRow EXCEPT ![s] = resvRow[s]] /\ resvRow'[s] = resvRow[s]
      /\ usageRow' = [usageRow EXCEPT ![s] = usageRow[s]] /\ usageRow'[s] = usageRow[s]
  BY <1>0, <1>2, <1>4 DEF ReleaseLockPeriod, Goto, HoldPeriod, TypeOK
<1>6. ps = Single(Period, r.period, counters)
  BY <1>1, <1>2, CopyOne DEF ReleaseHand, Hand
<1>7. ReleaseHand(s, Single(Period, r.period, counters))'
  BY <1>1, <1>5, <1>6 DEF ReleaseHand, Hand, tables, Ledger!Active, Ledger!Reserved
<1>8. WriteHand(s)'
  BY <1>1, <1>5, <1>7 DEF WriteHand, ReleaseCall, tables
<1>9. CallPlaced(s)' /\ HandPlaced(s)'
  BY <1>5, <1>8 DEF CallPlaced, HandPlaced, Reading, Answers
<1>10. \A p \in Period : ps[p] # NoRow /\ periodRow[s][p] = NoRow => PeriodFree(s, p)
  BY <1>5, <1>6 DEF Single
<1> HIDE DEF ps
<1> QED
  BY <1>3, <1>5, <1>9, <1>10, HoldKeeps

-----------------------------------------------------------------------------
(* Expiry *)

(* An order of a finite set lists each of its elements once. *)
LEMMA OrderCovers ==
    ASSUME NEW S, IsFiniteSet(S), NEW order \in SetToSeqs(S)
    PROVE  order \in Seq(S) /\ Items(order) = S /\ Distinct(order)
<1> DEFINE n == Cardinality(S)
<1>1. n \in Nat
  BY FS_CardinalityType
<1>2. order \in [1..n -> S] /\ \A i, j \in 1..n : i # j => order[i] # order[j]
  BY DEF SetToSeqs
<1>3. order \in Seq(S) /\ Len(order) = n
  BY <1>1, <1>2
<1>4. order \in Injection(1..n, S)
  BY <1>2 DEF Injection, IsInjective
<1>5. IsFiniteSet(1..n) /\ Cardinality(1..n) = n
  BY <1>1, FS_Interval
<1>6. order \in Surjection(1..n, S)
  BY <1>4, <1>5, FS_Injection
<1>7. Items(order) = S
  BY <1>2, <1>3, <1>6 DEF Items, Surjection
<1> QED
  BY <1>2, <1>3, <1>7 DEF Distinct

(* Taking the head of a list of distinct keys leaves the other keys. *)
LEMMA HeadTaken ==
    ASSUME NEW q \in Seq(Key), q # <<>>, Distinct(q)
    PROVE  /\ Head(q) \in Items(q)
           /\ Tail(q) \in Seq(Key)
           /\ Items(Tail(q)) = Items(q) \ {Head(q)}
           /\ Distinct(Tail(q))
           /\ Len(q) = 1 <=> Tail(q) = <<>>
<1>1. /\ Len(q) \in Nat \ {0} /\ Head(q) = q[1]
      /\ Tail(q) \in Seq(Key) /\ Len(Tail(q)) = Len(q) - 1
      /\ \A i \in 1..Len(Tail(q)) : Tail(q)[i] = q[i + 1]
  OBVIOUS
<1>2. Head(q) \in Items(q)
  BY <1>1 DEF Items
<1>3. Items(Tail(q)) = Items(q) \ {Head(q)}
  <2>1. ASSUME NEW x \in Items(Tail(q)) PROVE x \in Items(q) \ {Head(q)}
    <3>1. PICK i \in 1..Len(Tail(q)) : x = Tail(q)[i]
      BY DEF Items
    <3>2. i + 1 \in 1..Len(q) /\ 1 \in 1..Len(q) /\ i + 1 # 1 /\ x = q[i + 1]
      BY <1>1, <3>1
    <3> QED
      BY <1>1, <3>2 DEF Items, Distinct
  <2>2. ASSUME NEW x \in Items(q) \ {Head(q)} PROVE x \in Items(Tail(q))
    <3>1. PICK i \in 1..Len(q) : x = q[i]
      BY DEF Items
    <3>2. i # 1 /\ i - 1 \in 1..Len(Tail(q)) /\ (i - 1) + 1 = i
      BY <1>1, <3>1
    <3>3. Tail(q)[i - 1] = q[i]
      BY <1>1, <3>2
    <3> QED
      BY <3>1, <3>2, <3>3 DEF Items
  <2> QED
    BY <2>1, <2>2
<1>4. Distinct(Tail(q))
  <2> SUFFICES ASSUME NEW i \in 1..Len(Tail(q)), NEW j \in 1..Len(Tail(q)),
                      Tail(q)[i] = Tail(q)[j]
               PROVE  i = j
    BY DEF Distinct
  <2>1. i + 1 \in 1..Len(q) /\ j + 1 \in 1..Len(q) /\ q[i + 1] = q[j + 1]
    BY <1>1
  <2>2. i + 1 = j + 1
    BY <2>1 DEF Distinct
  <2> QED
    BY <2>2
<1>5. Len(q) = 1 <=> Tail(q) = <<>>
  <2>1. ASSUME NEW t \in Seq(Key) PROVE t = <<>> <=> Len(t) = 0
    OBVIOUS
  <2>2. Tail(q) \in Seq(Key)
    BY <1>1
  <2>3. Tail(q) = <<>> <=> Len(Tail(q)) = 0
    BY <2>1, <2>2, Zenon
  <2> QED
    BY <1>1, <2>3
<1> QED
  BY <1>1, <1>2, <1>3, <1>4, <1>5

(* The expiry locks what it found and has its order. *)
LEMMA ExpireLockKeeps ==
    ASSUME IInv, NEW s \in Cleaner, ExpireLock(s)
    PROVE  IInv'
<1>0. TypeOK /\ Placed(s) /\ AllApart /\ s \in Session
  BY ServiceAssumption DEF IInv
<1>1. PICK found \in (SUBSET {k \in Ledger!Active : ResvFree(s, k)}) \ {{}} :
        /\ Begin(s, "exp_loop", NoArg)
        /\ resvRow' = [resvRow EXCEPT ![s] =
                          [k \in Key |-> IF k \in found THEN resv[k] ELSE NoRow]]
        /\ \E order \in SetToSeqs(found) : todo' = [todo EXCEPT ![s] = order]
        /\ UNCHANGED <<tables, peak, lim, periodRow, usageRow>>
  BY DEF ExpireLock
<1>2. PICK order \in SetToSeqs(found) : todo' = [todo EXCEPT ![s] = order]
  BY <1>1
<1>3. /\ found \subseteq Key /\ found # {}
      /\ \A k \in found : k \in Ledger!Active /\ resv[k] # NoRow /\ ResvFree(s, k)
  <2>1. found # {} /\ \A k \in found : k \in Ledger!Active /\ ResvFree(s, k)
    BY <1>1
  <2> QED
    BY <2>1 DEF Ledger!Active, Ledger!Reserved
<1>4. order \in Seq(found) /\ Items(order) = found /\ Distinct(order)
  <2>1. IsFiniteSet(found)
    BY <1>3, ServiceAssumption, FS_Subset
  <2> QED
    BY <2>1, OrderCovers
<1>5. order \in Seq(Key) /\ order # <<>>
  <2>1. order \in Seq(Key)
    BY <1>3, <1>4
  <2>2. order # <<>>
    <3>1. Items(<<>>) = {}
      BY DEF Items
    <3> QED
      BY <1>3, <1>4, <3>1
  <2> QED
    BY <2>1, <2>2
<1> DEFINE rs == [k \in Key |-> IF k \in found THEN resv[k] ELSE NoRow]
<1>6. /\ pc'[s] = "exp_loop" /\ arg'[s] = NoArg /\ lim'[s] = lim[s] /\ pc[s] = "idle"
      /\ periodRow'[s] = periodRow[s] /\ resvRow'[s] = rs
      /\ usageRow'[s] = usageRow[s] /\ todo'[s] = order
  BY <1>0, <1>1, <1>2 DEF Begin, Goto, TypeOK
<1>7. OnlyMoves(s)
  <2>1. /\ pc' = [pc EXCEPT ![s] = pc'[s]] /\ arg' = [arg EXCEPT ![s] = arg'[s]]
        /\ resvRow' = [resvRow EXCEPT ![s] = resvRow'[s]]
        /\ todo' = [todo EXCEPT ![s] = todo'[s]]
    BY <1>1, <1>2, <1>6 DEF Begin, Goto
  <2>2. /\ lim' = [lim EXCEPT ![s] = lim'[s]]
        /\ periodRow' = [periodRow EXCEPT ![s] = periodRow'[s]]
        /\ usageRow' = [usageRow EXCEPT ![s] = usageRow'[s]]
    BY <1>0, <1>1 DEF TypeOK
  <2> QED
    BY <2>1, <2>2 DEF OnlyMoves
<1>8. Shaped(s)'
  <2>1. rs \in [Key -> Ledger!Reservation \cup {NoRow}]
    BY <1>0 DEF TypeOK, Ledger!TypeOK
  <2> HIDE DEF rs
  <2> QED
    BY <1>0, <1>5, <1>6, <2>1, EachShaped, NoArgType DEF Shaped, Labels
<1>9. periodRow'[s] = Blank(Period) /\ usageRow'[s] = Blank(UsageKey)
  BY <1>0, <1>6 DEF Placed, HandPlaced, Nothing, Hand, Reading
<1>10. \A t \in Session \ {s} : Apart(s, t)'
  <2> SUFFICES ASSUME NEW t \in Session \ {s} PROVE Apart(s, t)'
    OBVIOUS
  <2>1. Row(t)' = Row(t) /\ \A k \in found : resvRow[t][k] = NoRow
    BY <1>0, <1>3, <1>7, OthersStill DEF ResvFree
  <2> QED
    BY <1>6, <1>9, <2>1 DEF Apart, Blank, Row
<1>11. ExpireHand(s)'
  <2>1. resv' = resv /\ Left(s)' = found /\ \A k \in Key : Locked(s, k)' <=> k \in found
    BY <1>1, <1>3, <1>4, <1>6 DEF tables, Left, Locked
  <2>2. \A k \in Key : k \in found => resvRow'[s][k] = resv[k] /\ k \in Ledger!Active'
    BY <1>3, <1>6, <2>1 DEF Ledger!Active, Ledger!Reserved
  <2>3. \A p \in Period : periodRow'[s][p] = NoRow
    BY <1>9 DEF Blank
  <2> QED
    BY <1>3, <1>4, <1>6, <1>9, <2>1, <2>2, <2>3 DEF ExpireHand
<1>12. Placed(s)'
  BY <1>5, <1>6, <1>11 DEF Placed, CallPlaced, HandPlaced, Told, Replied, Reading, Answers
<1> QED
  BY <1>0, <1>1, <1>7, <1>8, <1>10, <1>12, OneReads

(* The expiry visits its next reservation. *)
LEMMA ExpireOneKeeps ==
    ASSUME IInv, NEW s \in Session, ExpireOne(s)
    PROVE  IInv'
<1>0. TypeOK /\ Placed(s) /\ AllApart /\ pc[s] = "exp_loop"
  BY DEF IInv, ExpireOne
<1>1. /\ todo[s] \in Seq(Key) /\ todo[s] # <<>> /\ ExpireHand(s) /\ arg[s] = NoArg
      /\ s \in Cleaner
  BY <1>0 DEF TypeOK, Placed, CallPlaced, HandPlaced
<1>k. PICK k \in Key : k = Head(todo[s])
  BY <1>1
<1> DEFINE p == resv[k].period
           counters == Ledger!Credit(period[p], Ledger!Remaining(resv[k]))
           gone == [resv[k] EXCEPT !.status = "EXPIRED"]
           to == IF Len(todo[s]) = 1 THEN "commit" ELSE "exp_loop"
<1>2. /\ k \in Left(s) /\ k \in Key /\ Tail(todo[s]) \in Seq(Key)
      /\ Items(Tail(todo[s])) = Left(s) \ {k} /\ Distinct(Tail(todo[s]))
      /\ Len(todo[s]) = 1 <=> Tail(todo[s]) = <<>>
  BY <1>1, <1>k, HeadTaken DEF ExpireHand, Left
<1>3. /\ Locked(s, k) /\ k \in Ledger!Active /\ resvRow[s][k] = resv[k]
      /\ resv[k] # NoRow
  BY <1>1, <1>2 DEF ExpireHand, Ledger!Active, Ledger!Reserved
<1>4. /\ resv[k] \in Ledger!Reservation /\ p \in Period
      /\ counters \in Ledger!Counters /\ gone \in Ledger!Reservation
      /\ counters # NoRow /\ gone # NoRow
  <2>1. /\ resv[k] \in Ledger!Reservation /\ p \in Period
        /\ resv[k].committed <= resv[k].reserved /\ period[p] \in Ledger!Counters
    BY <1>2, <1>3, RowOf
  <2>2. 1 \in 1..MaxChecks
    BY ServiceAssumption
  <2>3. counters \in Ledger!Counters /\ gone \in Ledger!Reservation
    BY <2>1, <2>2, RowTypes
  <2> QED
    BY <2>1, <2>3, NoRowAssumption
<1> DEFINE ps == [periodRow[s] EXCEPT ![p] = counters]
           rs == [resvRow[s] EXCEPT ![k] = gone]
<1>5. /\ PeriodFree(s, p) /\ UNCHANGED <<tables, peak, arg, lim, usageRow>>
      /\ pc' = [pc EXCEPT ![s] = to]
      /\ periodRow' = [periodRow EXCEPT ![s] = ps]
      /\ resvRow' = [resvRow EXCEPT ![s] = rs]
      /\ todo' = [todo EXCEPT ![s] = Tail(todo[s])]
  BY <1>3, <1>k DEF ExpireOne, Goto, HoldPeriod, HoldResv
<1>6. /\ pc'[s] = to /\ arg'[s] = NoArg /\ lim'[s] = lim[s] /\ usageRow'[s] = usageRow[s]
      /\ periodRow'[s] = ps /\ resvRow'[s] = rs /\ todo'[s] = Tail(todo[s])
      /\ period' = period /\ resv' = resv
  BY <1>0, <1>1, <1>5 DEF TypeOK, tables
<1>7. /\ \A x \in Period : ps[x] = IF x = p THEN counters ELSE periodRow[s][x]
      /\ \A x \in Key : rs[x] = IF x = k THEN gone ELSE resvRow[s][x]
      /\ ps \in [Period -> Ledger!Counters \cup {NoRow}]
      /\ rs \in [Key -> Ledger!Reservation \cup {NoRow}]
  BY <1>0, <1>2, <1>4 DEF TypeOK
<1>8. OnlyMoves(s)
  <2>1. /\ pc' = [pc EXCEPT ![s] = pc'[s]]
        /\ periodRow' = [periodRow EXCEPT ![s] = periodRow'[s]]
        /\ resvRow' = [resvRow EXCEPT ![s] = resvRow'[s]]
        /\ todo' = [todo EXCEPT ![s] = todo'[s]]
    BY <1>5, <1>6
  <2>2. /\ arg' = [arg EXCEPT ![s] = arg'[s]] /\ lim' = [lim EXCEPT ![s] = lim'[s]]
        /\ usageRow' = [usageRow EXCEPT ![s] = usageRow'[s]]
    BY <1>0, <1>5 DEF TypeOK
  <2> QED
    BY <2>1, <2>2 DEF OnlyMoves
<1> HIDE DEF ps, rs
<1>9. Shaped(s)'
  BY <1>0, <1>2, <1>6, <1>7, EachShaped, NoArgType DEF Shaped, Labels
<1>10. \A t \in Session \ {s} : Apart(s, t)'
  <2> SUFFICES ASSUME NEW t \in Session \ {s} PROVE Apart(s, t)'
    OBVIOUS
  <2>1. Row(t)' = Row(t) /\ Apart(s, t) /\ periodRow[t][p] = NoRow
    BY <1>0, <1>5, <1>8, OthersStill DEF AllApart, PeriodFree
  <2> QED
    BY <1>3, <1>6, <1>7, <2>1 DEF Apart, Row
<1>11. ExpireHand(s)'
  <2>1. Left(s)' = Left(s) \ {k} /\ \A x \in Key : Locked(s, x)' <=> Locked(s, x)
    BY <1>2, <1>3, <1>4, <1>6, <1>7 DEF Left, Locked
  <2>2. Visited(s, k)' /\ \A x \in Key : Visited(s, x) => Visited(s, x)'
    BY <1>2, <1>3, <2>1 DEF Visited
  <2>3. ASSUME NEW x \in Key, Locked(s, x)'
        PROVE  /\ x \in Ledger!Active'
               /\ resvRow'[s][x] = IF x \in Left(s)' THEN resv'[x]
                                   ELSE [resv'[x] EXCEPT !.status = "EXPIRED"]
               /\ x \notin Left(s)' => periodRow'[s][resv'[x].period] # NoRow
    <3>1. /\ x \in Ledger!Active
          /\ resvRow[s][x] = IF x \in Left(s) THEN resv[x]
                             ELSE [resv[x] EXCEPT !.status = "EXPIRED"]
          /\ x \notin Left(s) => periodRow[s][resv[x].period] # NoRow
      BY <1>1, <2>1, <2>3 DEF ExpireHand
    <3>2. x \in Ledger!Active' /\ resv[x].period \in Period
      BY <1>6, <3>1, RowOf DEF Ledger!Active, Ledger!Reserved
    <3> QED
      BY <1>4, <1>6, <1>7, <2>1, <3>1, <3>2
  <2>4. ASSUME NEW x \in Period, periodRow'[s][x] # NoRow
        PROVE  \E j \in Key :
                 /\ Visited(s, j)' /\ resv'[j].period = x
                 /\ periodRow'[s][x] = Ledger!Credit(period'[x], Ledger!Remaining(resv'[j]))
    <3>1. CASE x = p
      BY <1>2, <1>6, <1>7, <2>2, <3>1
    <3>2. CASE x # p
      <4>1. periodRow'[s][x] = periodRow[s][x]
        BY <1>6, <1>7, <3>2
      <4>2. PICK j \in Key :
              /\ Visited(s, j) /\ resv[j].period = x
              /\ periodRow[s][x] = Ledger!Credit(period[x], Ledger!Remaining(resv[j]))
        BY <1>1, <2>4, <4>1 DEF ExpireHand
      <4> QED
        BY <1>6, <2>2, <4>1, <4>2
    <3> QED
      BY <3>1, <3>2
  <2>5. /\ usageRow'[s] = Blank(UsageKey)
        /\ \E x \in Key : Locked(s, x)'
        /\ \A x \in Left(s)' : Locked(s, x)'
        /\ Distinct(todo'[s])
    <3>1. usageRow[s] = Blank(UsageKey) /\ \A x \in Left(s) : Locked(s, x)
      BY <1>1 DEF ExpireHand
    <3>2. Left(s) \subseteq Key
      BY <1>1 DEF Left, Items
    <3> QED
      BY <1>2, <1>3, <1>6, <2>1, <3>1, <3>2
  <2> QED
    BY <2>3, <2>4, <2>5 DEF ExpireHand
<1>12. Placed(s)'
  <2>1. CallPlaced(s)'
    BY <1>1, <1>6 DEF CallPlaced
  <2>2. to = "commit" => WriteHand(s)'
    BY <1>2, <1>6, <1>11 DEF WriteHand
  <2>3. to = "exp_loop" => todo'[s] # <<>>
    BY <1>2, <1>6
  <2>4. HandPlaced(s)'
    BY <1>6, <1>11, <2>2, <2>3 DEF HandPlaced, Reading, Answers
  <2> QED
    BY <1>6, <2>1, <2>4 DEF Placed, Told, Replied, Answers
<1> QED
  BY <1>5, <1>8, <1>9, <1>10, <1>12, OneReads

-----------------------------------------------------------------------------
(* Commit: what is written is one operation of the ledger *)

(* What a commit leaves in the tables. *)
Written(s) ==
    /\ Ledger!Next
    /\ TablesGrow
    /\ Ledger!CommittedWithin'
    /\ Done(arg[s])'

Writes(s) ==
    /\ period' = Merge(periodRow[s], period)
    /\ resv' = Merge(resvRow[s], resv)
    /\ usage' = Merge(usageRow[s], usage)
    /\ UNCHANGED peak
    /\ arg'[s] = arg[s]

(* The tables are functions, the limits are numbers. *)
LEMMA Tables ==
    ASSUME IInv
    PROVE  /\ period \in [Period -> Ledger!Counters]
           /\ resv \in [Key -> Ledger!Reservation \cup {NoRow}]
           /\ usage \in [UsageKey -> Ledger!UsageEvent \cup {NoRow}]
           /\ \A w \in Workspace : peak[w] \in Nat
           /\ Ledger!CommittedWithin
BY ServiceAssumption DEF IInv, TypeOK, Ledger!TypeOK, Ledger!Period, Period

LEMMA WriteReserve ==
    ASSUME IInv, NEW s \in Session, Writes(s),
           ReserveCall(arg[s]), resv[arg[s].key] = NoRow,
           ReserveHand(s, Single(Key, arg[s].key,
                                 Ledger!NewReservation(arg[s].period, arg[s].checks)))
    PROVE  Written(s)
<1>1. PICK a : a = arg[s]
  OBVIOUS
<1> DEFINE new == Ledger!NewReservation(a.period, a.checks)
           counters == Ledger!Debit(period[a.period], a.checks)
<1>2. /\ a.key \in Key /\ a.period \in Period /\ a.checks \in 1..MaxChecks
      /\ a.event = NoRow /\ resv[a.key] = NoRow /\ Affordable(a)
      /\ Hand(s, Single(Period, a.period, counters), Single(Key, a.key, new), Blank(UsageKey))
  BY <1>1 DEF ReserveCall, ReserveHand
<1>3. new # NoRow /\ counters # NoRow
  <2>1. new \in Ledger!Reservation
    BY <1>2, NewRowType
  <2>2. counters \in Ledger!Counters
    <3>1. a.checks \in Int /\ period[a.period] \in Ledger!Counters
      BY <1>2, Tables, ServiceAssumption
    <3> QED
      BY <3>1 DEF Ledger!Counters, Ledger!Debit
  <2> QED
    BY <2>1, <2>2, NoRowAssumption
<1>4. /\ period' = [period EXCEPT ![a.period] = counters]
      /\ resv' = [resv EXCEPT ![a.key] = new]
      /\ usage' = usage /\ peak' = peak
  <2> HIDE DEF new, counters
  <2>1. period' = [period EXCEPT ![a.period] = counters]
    BY <1>2, <1>3, Tables DEF Writes, Hand, Merge, Single
  <2>2. resv' = [resv EXCEPT ![a.key] = new]
    BY <1>2, <1>3, Tables DEF Writes, Hand, Merge, Single
  <2>3. usage' = usage /\ peak' = peak
    BY <1>2, Tables, MergeNone DEF Writes, Hand
  <2> QED
    BY <2>1, <2>2, <2>3
<1>5. Ledger!Reserve(a.key, a.period, a.checks)
  BY <1>2, <1>4 DEF Ledger!Reserve, Affordable
<1>6. Ledger!Next
  BY <1>2, <1>5 DEF Ledger!Next, Ledger!AppNext, Ledger!Period, Period
<1> HIDE DEF counters
<1>7. \A k \in Key : resv'[k] = IF k = a.key THEN new ELSE resv[k]
  BY <1>4, Tables
<1>8. TablesGrow
  BY <1>2, <1>4, <1>7, Tables DEF TablesGrow
<1>9. Ledger!CommittedWithin'
  BY <1>2, <1>7, Tables, ServiceAssumption
     DEF Ledger!CommittedWithin, Ledger!Reserved, Ledger!NewReservation
<1>10. Done(arg[s])'
  <2>1. /\ new.period = a.period /\ new.reserved = a.checks
        /\ a.period # NoRow /\ resv'[a.key] = new /\ arg'[s] = a
    BY <1>1, <1>2, <1>7, NoRowAssumption DEF Ledger!NewReservation, Writes
  <2> HIDE DEF new
  <2> QED
    BY <1>2, <1>3, <2>1 DEF Done, SameRequest
<1> QED
  BY <1>6, <1>8, <1>9, <1>10 DEF Written

LEMMA WriteCommit ==
    ASSUME IInv, NEW s \in Session, Writes(s),
           CommitCall(arg[s]), usage[arg[s].event] = NoRow,
           CommitHand(s, Single(UsageKey, arg[s].event,
                                [key |-> arg[s].key, checks |-> arg[s].checks]))
    PROVE  Written(s)
<1>1. PICK a : a = arg[s]
  OBVIOUS
<1>2. PICK r : r = resv[a.key]
  OBVIOUS
<1> DEFINE new == [key |-> a.key, checks |-> a.checks]
           counters == Ledger!Transfer(period[r.period], a.checks)
           consumed == Ledger!Consume(r, a.checks)
<1>3. /\ a.key \in Key /\ a.period = NoRow /\ a.checks \in 1..MaxChecks
      /\ a.event \in UsageKey /\ r # NoRow /\ usage[a.event] = NoRow
      /\ Committable(r, a.checks)
      /\ Hand(s, Single(Period, r.period, counters), Single(Key, a.key, consumed),
              Single(UsageKey, a.event, new))
  BY <1>1, <1>2 DEF CommitCall, CommitHand
<1>4. /\ r \in Ledger!Reservation /\ r.period \in Period /\ r.committed <= r.reserved
      /\ new # NoRow /\ counters # NoRow /\ consumed # NoRow
      /\ a.checks <= Ledger!Remaining(r)
  <2>1. /\ r \in Ledger!Reservation /\ r.period \in Period /\ r.committed <= r.reserved
        /\ period[r.period] \in Ledger!Counters
    BY <1>2, <1>3, RowOf
  <2>2. a.checks <= Ledger!Remaining(r)
    BY <1>3 DEF Committable
  <2>3. /\ consumed \in Ledger!Reservation /\ counters \in Ledger!Counters
        /\ new \in Ledger!UsageEvent
    BY <1>3, <2>1, <2>2, RowTypes DEF Ledger!UsageEvent
  <2> QED
    BY <2>1, <2>2, <2>3, NoRowAssumption
<1>5. /\ period' = [period EXCEPT ![r.period] = counters]
      /\ resv' = [resv EXCEPT ![a.key] = consumed]
      /\ usage' = [usage EXCEPT ![a.event] = new]
      /\ peak' = peak
  <2> HIDE DEF new, counters, consumed
  <2>1. period' = [period EXCEPT ![r.period] = counters]
    BY <1>3, <1>4, Tables DEF Writes, Hand, Merge, Single
  <2>2. resv' = [resv EXCEPT ![a.key] = consumed]
    BY <1>3, <1>4, Tables DEF Writes, Hand, Merge, Single
  <2>3. usage' = [usage EXCEPT ![a.event] = new] /\ peak' = peak
    BY <1>3, <1>4, Tables DEF Writes, Hand, Merge, Single
  <2> QED
    BY <2>1, <2>2, <2>3
<1>6. Ledger!Commit(a.key, a.checks, a.event)
  BY <1>2, <1>3, <1>5 DEF Ledger!Commit, Ledger!Settle, Committable
<1>7. Ledger!Next
  BY <1>3, <1>6 DEF Ledger!Next, Ledger!AppNext
<1> HIDE DEF counters
<1>8. /\ \A k \in Key : resv'[k] = IF k = a.key THEN consumed ELSE resv[k]
      /\ \A u \in UsageKey : usage'[u] = IF u = a.event THEN new ELSE usage[u]
  BY <1>5, Tables
<1>9. /\ consumed.period = r.period /\ consumed.reserved = r.reserved
      /\ r.status # "ACTIVE" => consumed.status # "ACTIVE"
      /\ consumed.committed <= consumed.reserved
  BY <1>3, <1>4, ServiceAssumption
     DEF Ledger!Consume, Ledger!Reservation, Ledger!Remaining
<1>10. TablesGrow
  <2> HIDE DEF consumed, new
  <2> QED
    BY <1>2, <1>3, <1>4, <1>5, <1>8, <1>9, Tables DEF TablesGrow
<1>11. Ledger!CommittedWithin'
  <2> HIDE DEF consumed, new
  <2> QED
    BY <1>8, <1>9, Tables DEF Ledger!CommittedWithin, Ledger!Reserved
<1>12. Done(arg[s])'
  <2>1. /\ new.key = a.key /\ new.checks = a.checks
        /\ a.event # NoRow /\ usage'[a.event] = new /\ arg'[s] = a
    BY <1>1, <1>3, <1>8, NoRowAssumption DEF Writes
  <2> HIDE DEF new
  <2> QED
    BY <1>3, <1>4, <2>1 DEF Done, SameUsage
<1> QED
  BY <1>7, <1>10, <1>11, <1>12 DEF Written

(* A release writes the reservation, and the period when checks remain:    *)
(* crediting it with none would leave it as it is.                         *)
LEMMA WriteRelease ==
    ASSUME IInv, NEW s \in Session, Writes(s), ReleaseCall(arg[s]),
           NEW ps, ReleaseHand(s, ps),
           LET r == resv[arg[s].key] IN
           \/ ps = Blank(Period) /\ Ledger!Remaining(r) = 0
           \/ ps = Single(Period, r.period,
                          Ledger!Credit(period[r.period], Ledger!Remaining(r)))
    PROVE  Written(s)
<1>1. PICK a : a = arg[s]
  OBVIOUS
<1>2. PICK r : r = resv[a.key]
  OBVIOUS
<1> DEFINE counters == Ledger!Credit(period[r.period], Ledger!Remaining(r))
           back == Ledger!GiveBack(r)
<1>3. /\ a.key \in Key /\ a.period = NoRow /\ a.event = NoRow /\ r # NoRow
      /\ a.key \in Ledger!Active
      /\ Hand(s, ps, Single(Key, a.key, back), Blank(UsageKey))
      /\ \/ ps = Blank(Period) /\ Ledger!Remaining(r) = 0
         \/ ps = Single(Period, r.period, counters)
  BY <1>1, <1>2 DEF ReleaseCall, ReleaseHand
<1>4. /\ r \in Ledger!Reservation /\ r.period \in Period /\ r.committed <= r.reserved
      /\ period[r.period] \in Ledger!Counters /\ counters # NoRow /\ back # NoRow
  <2>1. /\ r \in Ledger!Reservation /\ r.period \in Period /\ r.committed <= r.reserved
        /\ period[r.period] \in Ledger!Counters
    BY <1>2, <1>3, RowOf
  <2>2. 1 \in 1..MaxChecks
    BY ServiceAssumption
  <2>3. counters \in Ledger!Counters /\ back \in Ledger!Reservation
    BY <2>1, <2>2, RowTypes
  <2> QED
    BY <2>1, <2>3, NoRowAssumption
<1>5. Ledger!Remaining(r) = 0 => counters = period[r.period]
  <2> SUFFICES ASSUME Ledger!Remaining(r) = 0 PROVE counters = period[r.period]
    OBVIOUS
  <2>1. PICK c \in Ledger!Counters : c = period[r.period]
    BY <1>4
  <2>2. c = [used |-> c.used, reserved |-> c.reserved - 0]
    BY DEF Ledger!Counters
  <2> QED
    BY <2>1, <2>2 DEF Ledger!Credit
<1>6. period' = [period EXCEPT ![r.period] = counters]
  <2> HIDE DEF counters
  <2>1. CASE ps = Blank(Period) /\ Ledger!Remaining(r) = 0
    <3>1. period' = period
      BY <1>3, <2>1, Tables, MergeNone DEF Writes, Hand
    <3> QED
      BY <1>4, <1>5, <2>1, <3>1, Tables
  <2>2. CASE ps = Single(Period, r.period, counters)
    <3>1. periodRow[s] = Single(Period, r.period, counters)
      BY <1>3, <2>2 DEF Hand
    <3> QED
      BY <1>4, <3>1, Tables DEF Writes, Merge, Single
  <2> QED
    BY <1>3, <2>1, <2>2
<1>7. resv' = [resv EXCEPT ![a.key] = back] /\ usage' = usage /\ peak' = peak
  <2> HIDE DEF back
  <2>1. resv' = [resv EXCEPT ![a.key] = back]
    BY <1>3, <1>4, Tables DEF Writes, Hand, Merge, Single
  <2>2. usage' = usage /\ peak' = peak
    BY <1>3, Tables, MergeNone DEF Writes, Hand
  <2> QED
    BY <2>1, <2>2
<1>8. Ledger!Release(a.key)
  BY <1>2, <1>3, <1>6, <1>7 DEF Ledger!Release, Ledger!Refund
<1>9. Ledger!Next
  BY <1>3, <1>8 DEF Ledger!Next, Ledger!AppNext
<1>10. \A k \in Key : resv'[k] = IF k = a.key THEN back ELSE resv[k]
  BY <1>7, Tables
<1>11. /\ back.period = r.period /\ back.reserved = r.reserved
       /\ back.status # "ACTIVE" /\ back.committed = r.committed
  BY <1>4 DEF Ledger!GiveBack, Ledger!Reservation
<1> HIDE DEF back, counters
<1>12. TablesGrow
  BY <1>2, <1>4, <1>7, <1>10, <1>11, Tables DEF TablesGrow
<1>13. Ledger!CommittedWithin'
  BY <1>4, <1>10, <1>11, Tables DEF Ledger!CommittedWithin, Ledger!Reserved
<1>14. Done(arg[s])'
  <2>1. arg'[s] = a /\ resv'[a.key].status # "ACTIVE"
    BY <1>1, <1>3, <1>10, <1>11 DEF Writes
  <2> QED
    BY <1>3, <2>1 DEF Done
<1> QED
  BY <1>9, <1>12, <1>13, <1>14 DEF Written

(* An expiry writes every reservation it locked, and the last counters it  *)
(* computed of each of their periods.                                      *)
LEMMA WriteExpire ==
    ASSUME IInv, NEW s \in Session, Writes(s),
           arg[s] = NoArg, todo[s] = <<>>, ExpireHand(s)
    PROVE  Written(s)
<1> DEFINE S == {k \in Key : Locked(s, k)}
           Latest(p) == CHOOSE k \in Key :
                        /\ Locked(s, k) /\ resv[k].period = p
                        /\ periodRow[s][p] = Ledger!Credit(period[p], Ledger!Remaining(resv[k]))
           touched == {p \in Period : periodRow[s][p] # NoRow}
<1>1. Left(s) = {}
  BY DEF Left, Items
<1>2. ASSUME NEW k \in S
      PROVE  /\ k \in Ledger!Active /\ resv[k] # NoRow
             /\ resv[k].period \in touched
             /\ resvRow[s][k] = [resv[k] EXCEPT !.status = "EXPIRED"]
             /\ resvRow[s][k] # NoRow
  <2>1. /\ k \in Ledger!Active /\ periodRow[s][resv[k].period] # NoRow
        /\ resvRow[s][k] = [resv[k] EXCEPT !.status = "EXPIRED"]
        /\ resvRow[s][k] # NoRow
    BY <1>1 DEF ExpireHand, Locked
  <2>2. resv[k] # NoRow
    BY <2>1 DEF Ledger!Active, Ledger!Reserved
  <2>3. resv[k].period \in Period
    BY <2>2, RowOf
  <2> QED
    BY <2>1, <2>2, <2>3
<1>3. \A k \in Key \ S : resvRow[s][k] = NoRow
  BY DEF Locked
<1>4. ASSUME NEW p \in touched
      PROVE  /\ Latest(p) \in S /\ resv[Latest(p)].period = p
             /\ periodRow[s][p] = Ledger!Credit(period[p], Ledger!Remaining(resv[Latest(p)]))
  <2>1. \E k \in Key :
           /\ Locked(s, k) /\ resv[k].period = p
           /\ periodRow[s][p] = Ledger!Credit(period[p], Ledger!Remaining(resv[k]))
    BY DEF ExpireHand, Visited
  <2> QED
    BY <2>1
<1>5. PICK k0 \in Key : k0 \in S
  BY DEF ExpireHand
<1> DEFINE last == [p \in Period |-> IF p \in touched THEN Latest(p) ELSE k0]
<1>6. /\ last \in [Period -> Key]
      /\ \A p \in touched : last[p] = Latest(p)
  BY <1>4, <1>5
<1> HIDE DEF Latest, last
<1>7. Ledger!Periods(S) = touched
  <2>1. ASSUME NEW p \in Ledger!Periods(S) PROVE p \in touched
    BY <1>2 DEF Ledger!Periods
  <2>2. ASSUME NEW p \in touched PROVE p \in Ledger!Periods(S)
    BY <1>4 DEF Ledger!Periods
  <2> QED
    BY <2>1, <2>2
<1>8. period' = [p \in Period |->
                   IF p \in touched
                   THEN Ledger!Credit(period[p], Ledger!Remaining(resv[last[p]]))
                   ELSE period[p]]
  <2>1. period' = [p \in Period |-> IF periodRow[s][p] # NoRow THEN periodRow[s][p]
                                    ELSE period[p]]
    BY Tables DEF Writes, Merge
  <2> QED
    BY <1>4, <1>6, <2>1
<1>9. resv' = [k \in Key |-> IF k \in S THEN [resv[k] EXCEPT !.status = "EXPIRED"]
                             ELSE resv[k]]
  <2>1. resv' = [k \in Key |-> IF resvRow[s][k] # NoRow THEN resvRow[s][k] ELSE resv[k]]
    BY Tables DEF Writes, Merge
  <2> QED
    BY <1>2, <1>3, <2>1
<1>10. usage' = usage /\ peak' = peak
  BY Tables, MergeNone DEF Writes, ExpireHand
<1>11. Ledger!Expire(S, last)
  <2>1. S # {} /\ S \subseteq Ledger!Active
    BY <1>2, <1>5
  <2>2. \A p \in Ledger!Periods(S) : last[p] \in S /\ resv[last[p]].period = p
    BY <1>4, <1>6, <1>7
  <2>3. Ledger!Lapse(S, last)
    BY <1>7, <1>8, <1>9, <1>10, <2>2 DEF Ledger!Lapse, Ledger!Period, Period
  <2> QED
    BY <2>1, <2>3 DEF Ledger!Expire
<1>12. Ledger!Next
  BY <1>6, <1>11 DEF Ledger!Next, Ledger!Period, Period
<1>13. ASSUME NEW k \in S
       PROVE  /\ resv[k] \in Ledger!Reservation
              /\ resv'[k] # NoRow /\ resv'[k].status = "EXPIRED"
              /\ resv'[k].period = resv[k].period /\ resv'[k].reserved = resv[k].reserved
              /\ resv'[k].committed = resv[k].committed
  <2>1. resv[k] \in Ledger!Reservation
    BY <1>2, RowOf
  <2>2. resv'[k] = [resv[k] EXCEPT !.status = "EXPIRED"] /\ resv'[k] # NoRow
    BY <1>2, <1>9
  <2> QED
    BY <2>1, <2>2 DEF Ledger!Reservation
<1>14. \A k \in Key \ S : resv'[k] = resv[k]
  BY <1>9
<1>15. TablesGrow
  BY <1>10, <1>13, <1>14, Tables DEF TablesGrow
<1>16. Ledger!CommittedWithin'
  BY <1>2, <1>13, <1>14, Tables DEF Ledger!CommittedWithin, Ledger!Reserved
<1>17. Done(arg[s])'
  BY DEF Writes, Done, NoArg
<1> QED
  BY <1>12, <1>15, <1>16, <1>17 DEF Written

(* Whatever a session is about to write, writing it is one operation. *)
LEMMA CommitWrites ==
    ASSUME IInv, NEW s \in Session, CommitTransaction(s)
    PROVE  Writes(s) /\ Written(s)
<1> DEFINE a == arg[s]
<1>1. Writes(s)
  BY DEF CommitTransaction, Writes
<1>2. WriteHand(s)
  BY DEF IInv, Placed, HandPlaced, CommitTransaction, Goto
<1>3. CASE /\ ReserveCall(a) /\ resv[a.key] = NoRow
           /\ ReserveHand(s, Single(Key, a.key, Ledger!NewReservation(a.period, a.checks)))
  BY <1>1, <1>3, WriteReserve
<1>4. CASE /\ CommitCall(a) /\ usage[a.event] = NoRow
           /\ CommitHand(s, Single(UsageKey, a.event, [key |-> a.key, checks |-> a.checks]))
  BY <1>1, <1>4, WriteCommit
<1>5. CASE /\ ReleaseCall(a) /\ Ledger!Remaining(resv[a.key]) = 0
           /\ ReleaseHand(s, Blank(Period))
  BY <1>1, <1>5, WriteRelease
<1>6. CASE /\ ReleaseCall(a)
           /\ LET r == resv[a.key] IN
              ReleaseHand(s, Single(Period, r.period,
                                    Ledger!Credit(period[r.period], Ledger!Remaining(r))))
  BY <1>1, <1>6, WriteRelease
<1>7. CASE a = NoArg /\ todo[s] = <<>> /\ ExpireHand(s)
  BY <1>1, <1>7, WriteExpire
<1> QED
  BY <1>1, <1>2, <1>3, <1>4, <1>5, <1>6, <1>7 DEF WriteHand

(* Merging keeps a table's type. *)
LEMMA MergeType ==
    ASSUME NEW S, NEW T, NEW table \in [S -> T], NEW copy \in [S -> T]
    PROVE  Merge(copy, table) \in [S -> T]
BY DEF Merge

(* A commit keeps the invariant: the rows the others hold are not among    *)
(* those it writes.                                                        *)
LEMMA CommitKeeps ==
    ASSUME IInv, NEW s \in Session, CommitTransaction(s)
    PROVE  IInv'
<1>0. /\ TypeOK /\ Placed(s) /\ AllApart /\ DropCopies(s) /\ UNCHANGED <<peak, arg>>
      /\ Writes(s) /\ Written(s)
  BY CommitWrites DEF IInv, CommitTransaction
<1>1. /\ pc'[s] = "ok" /\ arg'[s] = arg[s]
      /\ pc' = [pc EXCEPT ![s] = pc'[s]] /\ arg' = [arg EXCEPT ![s] = arg'[s]]
  BY <1>0 DEF CommitTransaction, Goto, TypeOK
<1>2. OnlyMoves(s) /\ Shaped(s)' /\ Nothing(s)'
  BY <1>0, <1>1, Dropped DEF OnlyMoves, Shaped, TypeOK, Labels, Answers
<1>3. Ledger!TypeOK'
  <2>1. /\ period \in [Period -> Ledger!Counters \cup {NoRow}]
        /\ periodRow[s] \in [Period -> Ledger!Counters \cup {NoRow}]
        /\ resv \in [Key -> Ledger!Reservation \cup {NoRow}]
        /\ resvRow[s] \in [Key -> Ledger!Reservation \cup {NoRow}]
        /\ usage \in [UsageKey -> Ledger!UsageEvent \cup {NoRow}]
        /\ usageRow[s] \in [UsageKey -> Ledger!UsageEvent \cup {NoRow}]
    BY <1>0, Tables DEF TypeOK
  <2>2. /\ resv' \in [Key -> Ledger!Reservation \cup {NoRow}]
        /\ usage' \in [UsageKey -> Ledger!UsageEvent \cup {NoRow}]
    BY <1>0, <2>1, MergeType DEF Writes
  <2>3. period' \in [Period -> Ledger!Counters]
    BY <1>0, <2>1, Tables DEF Writes, Merge
  <2> QED
    BY <1>0, <2>2, <2>3 DEF TypeOK, Ledger!TypeOK, Ledger!Period, Period
<1>4. ASSUME NEW t \in Session \ {s} PROVE Kept(t) /\ Apart(s, t)'
  <2>1. Apart(s, t)
    BY <1>0 DEF AllApart
  <2>2. Kept(t)
    BY <1>0, <2>1, Tables DEF Kept, Apart, Writes, Merge
  <2>3. Apart(s, t)'
    BY <1>2 DEF Nothing, Hand, Blank, Apart
  <2> QED
    BY <2>2, <2>3
<1>5. Placed(s)'
  <2>1. WriteHand(s)
    BY <1>0 DEF Placed, HandPlaced, CommitTransaction, Goto
  <2>2. ReserveCall(arg[s]) \/ CommitCall(arg[s]) \/ ReleaseCall(arg[s]) \/ arg[s] = NoArg
    BY <2>1 DEF WriteHand
  <2>3. (ReserveCall(arg[s]) \/ CommitCall(arg[s]) \/ ReleaseCall(arg[s]) \/ arg[s] = NoArg)'
    BY <1>0, <1>1, <2>2 DEF Written, TablesGrow, ReserveCall, CommitCall, ReleaseCall
  <2>4. CallPlaced(s)' /\ HandPlaced(s)'
    BY <1>1, <1>2 DEF CallPlaced, HandPlaced
  <2> QED
    BY <1>0, <1>1, <2>3, <2>4 DEF Placed, Told, Replied, Written
<1> QED
  BY <1>0, <1>2, <1>3, <1>4, <1>5, OneMoves DEF Written

-----------------------------------------------------------------------------
(* The invariant is inductive *)

(* The initial tables are empty and no session has begun. *)
LEMMA InvInit == Init => IInv
<1> SUFFICES ASSUME Init PROVE IInv
  OBVIOUS
<1>1. Ledger!TypeOK /\ Ledger!CommittedWithin
  BY ServiceAssumption
     DEF Init, Ledger!Init, Ledger!TypeOK, Ledger!Counters, Ledger!CommittedWithin,
         Ledger!Reserved
<1>2. TypeOK
  <2>1. /\ pc \in [Session -> Labels] /\ arg \in [Session -> Args]
        /\ lim \in [Session -> 0..MaxLimit] /\ todo \in [Session -> Seq(Key)]
    BY NoArgType, ServiceAssumption DEF Init, Labels
  <2>2. /\ periodRow \in [Session -> [Period -> Ledger!Counters \cup {NoRow}]]
        /\ resvRow \in [Session -> [Key -> Ledger!Reservation \cup {NoRow}]]
        /\ usageRow \in [Session -> [UsageKey -> Ledger!UsageEvent \cup {NoRow}]]
    BY DEF Init
  <2> QED
    BY <1>1, <2>1, <2>2 DEF TypeOK
<1>3. ASSUME NEW s \in Session PROVE Nothing(s) /\ Placed(s)
  <2>1. Nothing(s) /\ pc[s] = "idle" /\ arg[s] = NoArg
    BY DEF Init, Nothing, Hand, Blank
  <2> QED
    BY <2>1 DEF Placed, CallPlaced, HandPlaced, Told, Replied, Answers
<1>4. AllApart
  BY <1>3 DEF AllApart, Apart, Nothing, Hand, Blank
<1> QED
  BY <1>1, <1>2, <1>3, <1>4 DEF IInv

(* A plan with a higher limit leaves the sessions alone. *)
LEMMA GrantKeeps ==
    ASSUME IInv, NEW w \in Workspace, NEW l \in 0..MaxLimit, GrantPlan(w, l)
    PROVE  IInv'
<1>1. /\ l > peak[w] /\ peak' = [peak EXCEPT ![w] = l]
      /\ UNCHANGED <<period, resv, usage, pc, arg, lim, copies, todo>>
  BY DEF GrantPlan, Ledger!GrantPlan
<1>2. TypeOK /\ AllApart /\ Ledger!CommittedWithin
  BY DEF IInv
<1>3. TypeOK'
  BY <1>1, <1>2 DEF TypeOK, Ledger!TypeOK, copies
<1>4. TablesGrow /\ \A t \in Session : Kept(t)
  BY <1>1, <1>2, ServiceAssumption DEF TypeOK, Ledger!TypeOK, TablesGrow, Kept
<1>5. \A t \in Session : Row(t)' = Row(t)
  BY <1>1 DEF Row, copies
<1>6. \A t \in Session : Placed(t)'
  BY <1>4, <1>5, PlacedStands
<1>7. AllApart' /\ Ledger!CommittedWithin'
  BY <1>1, <1>2 DEF AllApart, Apart, copies, Ledger!CommittedWithin, Ledger!Reserved
<1> QED
  BY <1>3, <1>6, <1>7 DEF IInv

(* A step that changes nothing. *)
LEMMA StutterKeeps == IInv /\ UNCHANGED vars => IInv'
<1> SUFFICES ASSUME IInv, UNCHANGED vars PROVE IInv'
  OBVIOUS
<1>1. TypeOK /\ AllApart /\ Ledger!CommittedWithin
  BY DEF IInv
<1>2. UNCHANGED <<tables, peak, pc, arg, lim, periodRow, resvRow, usageRow, todo>>
  BY DEF vars, copies
<1>3. TypeOK'
  BY <1>1, <1>2 DEF TypeOK, Ledger!TypeOK, tables
<1>4. \A t \in Session : Placed(t)'
  BY <1>1, <1>2, TablesStill, PlacedStands DEF Row
<1>5. AllApart' /\ Ledger!CommittedWithin'
  BY <1>1, <1>2 DEF AllApart, Apart, tables, Ledger!CommittedWithin, Ledger!Reserved
<1> QED
  BY <1>3, <1>4, <1>5 DEF IInv

LEMMA InvStep == IInv /\ [Next]_vars => IInv'
<1> SUFFICES ASSUME IInv, [Next]_vars PROVE IInv'
  OBVIOUS
<1>1. ASSUME NEW s \in Session, Call(s) PROVE IInv'
  BY <1>1, CallKeeps
<1>2. ASSUME NEW s \in Cleaner, ExpireLock(s) PROVE IInv'
  BY <1>2, ExpireLockKeeps
<1>3. ASSUME NEW s \in Session, Step(s) PROVE IInv'
  BY <1>3, ReserveLockPeriodKeeps, ReserveInsertKeeps, CommitLockReservationKeeps,
     CommitLockPeriodKeeps, CommitInsertEventKeeps, ReleaseLockReservationKeeps,
     ReleaseLockPeriodKeeps, ExpireOneKeeps, CommitKeeps, ReturnKeeps DEF Step
<1>4. ASSUME NEW s \in Session, Abort(s) PROVE IInv'
  BY <1>4, AbortKeeps
<1>5. ASSUME NEW w \in Workspace, NEW l \in 0..MaxLimit, GrantPlan(w, l) PROVE IInv'
  BY <1>5, GrantKeeps
<1>6. CASE UNCHANGED vars
  BY <1>6, StutterKeeps
<1> QED
  BY <1>1, <1>2, <1>3, <1>4, <1>5, <1>6 DEF Next

-----------------------------------------------------------------------------
(* Theorems *)

(* The rows and every session's copies keep their types: no write of the   *)
(* service commits more checks than a reservation holds.                   *)
THEOREM TypeCorrect == Spec => []TypeOK
<1>1. IInv => TypeOK
  BY DEF IInv
<1> QED
  BY InvInit, InvStep, <1>1, PTL DEF Spec

(* A caller that was told "ok" finds what it asked for in the database,    *)
(* even when another session did the work.                                 *)
THEOREM RepliesTrue == Spec => []ReplyTruthful
<1>1. IInv => ReplyTruthful
  BY DEF IInv, Placed, Told, Done, ReplyTruthful
<1> QED
  BY InvInit, InvStep, <1>1, PTL DEF Spec

(* Only the commit of a transaction and a change of plan are steps of the  *)
(* ledger; every other step leaves its tables as they are.                 *)
LEMMA StepIsOperation == IInv /\ [Next]_vars => [Ledger!Next]_(Ledger!vars)
<1> SUFFICES ASSUME IInv, [Next]_vars PROVE Ledger!Next \/ UNCHANGED Ledger!vars
  OBVIOUS
<1> USE DEF Ledger!vars, tables
<1>1. ASSUME NEW s \in Session, Call(s) PROVE UNCHANGED Ledger!vars
  BY <1>1 DEF Call, BeginReserve, BeginCommit, BeginRelease
<1>2. ASSUME NEW s \in Cleaner, ExpireLock(s) PROVE UNCHANGED Ledger!vars
  BY <1>2 DEF ExpireLock
<1>3. ASSUME NEW s \in Session, Step(s) PROVE Ledger!Next \/ UNCHANGED Ledger!vars
  <2>1. CASE CommitTransaction(s)
    BY <2>1, CommitWrites DEF Written
  <2>2. CASE ReserveLockPeriod(s) \/ ReserveInsert(s)
    BY <2>2 DEF ReserveLockPeriod, ReserveInsert, End
  <2>3. CASE CommitLockReservation(s) \/ CommitLockPeriod(s) \/ CommitInsertEvent(s)
    BY <2>3 DEF CommitLockReservation, CommitLockPeriod, CommitInsertEvent, End
  <2>4. CASE ReleaseLockReservation(s) \/ ReleaseLockPeriod(s)
    BY <2>4 DEF ReleaseLockReservation, ReleaseLockPeriod, End
  <2>5. CASE ExpireOne(s) \/ Return(s)
    BY <2>5 DEF ExpireOne, Return
  <2> QED
    BY <1>3, <2>1, <2>2, <2>3, <2>4, <2>5 DEF Step
<1>4. ASSUME NEW s \in Session, Abort(s) PROVE UNCHANGED Ledger!vars
  BY <1>4 DEF Abort
<1>5. ASSUME NEW w \in Workspace, NEW l \in 0..MaxLimit, GrantPlan(w, l) PROVE Ledger!Next
  BY <1>5 DEF GrantPlan, Ledger!Next, Ledger!AppNext
<1>6. CASE UNCHANGED vars
  BY <1>6 DEF vars
<1> QED
  BY <1>1, <1>2, <1>3, <1>4, <1>5, <1>6 DEF Next

(* The service with its locks, stale limits, insert races and rollbacks    *)
(* does nothing but the atomic operations of the ledger: no update of a    *)
(* counter is lost, no key reserved twice, no check counted twice.         *)
THEOREM ServiceImplementsLedger == Spec => ImplementsLedger
<1>1. Init => Ledger!Init
  BY DEF Init
<1> QED
  BY InvInit, InvStep, StepIsOperation, <1>1, PTL
     DEF Spec, ImplementsLedger, Ledger!Spec

-----------------------------------------------------------------------------
(* Waiting *)

(* How far a session is in taking its locks: one waits only for a session  *)
(* further on, save two expiries that visit periods in different orders.   *)
Rank(s) ==
    CASE pc[s] \in {"use_period", "rel_period"} -> 1
      [] pc[s] = "exp_loop" -> 2
      [] pc[s] \in {"rsv_insert", "use_insert"} -> 3
      [] pc[s] = "commit" -> 4
      [] OTHER -> 0

LEMMA Ranks ==
    ASSUME NEW s
    PROVE  /\ pc[s] \in {"use_period", "rel_period"} => Rank(s) = 1
           /\ pc[s] = "exp_loop" => Rank(s) = 2
           /\ pc[s] \in {"rsv_insert", "use_insert"} => Rank(s) = 3
           /\ pc[s] = "commit" => Rank(s) = 4
           /\ pc[s] \in Reading => Rank(s) = 0
BY DEF Rank, Reading, Answers

(* Who has copied a row is past the steps that come before the copy.       *)
LEMMA Holders ==
    ASSUME IInv, NEW t \in Session
    PROVE  /\ \A p \in Period :
                periodRow[t][p] # NoRow =>
                    pc[t] \in {"rsv_insert", "use_insert", "exp_loop", "commit"}
           /\ \A k \in Key :
                resvRow[t][k] # NoRow =>
                    /\ pc[t] \in {"use_period", "rel_period", "use_insert", "exp_loop", "commit"}
                    /\ resv[k] = NoRow => pc[t] = "commit"
           /\ \A u \in UsageKey : usageRow[t][u] # NoRow => pc[t] = "commit"
<1>0. CallPlaced(t) /\ HandPlaced(t) /\ pc[t] \in Labels
  BY DEF IInv, Placed, TypeOK
<1>1. CASE pc[t] \in Reading
  BY <1>0, <1>1 DEF HandPlaced, Nothing, Hand, Blank
<1>2. CASE pc[t] = "rsv_insert"
  BY <1>0, <1>2 DEF HandPlaced, ReserveHand, Hand, Blank
<1>3. CASE pc[t] = "use_period"
  BY <1>0, <1>3 DEF HandPlaced, CallPlaced, CommitCall, Hand, Blank, Single
<1>4. CASE pc[t] = "use_insert"
  BY <1>0, <1>4 DEF HandPlaced, CallPlaced, CommitCall, CommitHand, Hand, Blank, Single
<1>5. CASE pc[t] = "rel_period"
  BY <1>0, <1>5 DEF HandPlaced, CallPlaced, ReleaseCall, ReleaseHand, Hand, Blank, Single
<1>6. CASE pc[t] = "exp_loop"
  BY <1>0, <1>6
     DEF HandPlaced, ExpireHand, Locked, Blank, Ledger!Active, Ledger!Reserved
<1>7. CASE pc[t] = "commit"
  BY <1>7
<1> QED
  BY <1>0, <1>1, <1>2, <1>3, <1>4, <1>5, <1>6, <1>7 DEF Labels, Reading

(* A session waits for one of a higher rank, or both are expiries.         *)
LEMMA WaitsUpwards ==
    ASSUME IInv, NEW s \in Session, NEW t \in Session, Awaits(s, t)
    PROVE  Rank(s) < Rank(t) \/ (pc[s] = "exp_loop" /\ pc[t] = "exp_loop")
<1> DEFINE a == arg[s]
<1>0. CallPlaced(s) /\ HandPlaced(s)
  BY DEF IInv, Placed
<1>1. CASE pc[s] = "rsv_period" /\ periodRow[t][a.period] # NoRow
  <2>1. a.period \in Period
    BY <1>0, <1>1 DEF CallPlaced, ReserveCall
  <2>2. pc[t] \in {"rsv_insert", "use_insert", "exp_loop", "commit"} /\ Rank(s) = 0
    BY <1>1, <2>1, Holders, Ranks DEF Reading
  <2> QED
    BY <2>2, Ranks
<1>2. CASE pc[s] \in {"use_resv", "rel_resv"} /\ resvRow[t][a.key] # NoRow
  <2>1. a.key \in Key
    BY <1>0, <1>2 DEF CallPlaced, CommitCall, ReleaseCall
  <2>2. /\ pc[t] \in {"use_period", "rel_period", "use_insert", "exp_loop", "commit"}
        /\ Rank(s) = 0
    BY <1>2, <2>1, Holders, Ranks DEF Reading
  <2> QED
    BY <2>2, Ranks
<1>3. CASE pc[s] = "rsv_insert" /\ resv[a.key] = NoRow /\ resvRow[t][a.key] # NoRow
  <2>1. a.key \in Key
    BY <1>0, <1>3 DEF CallPlaced, ReserveCall
  <2>2. pc[t] = "commit" /\ Rank(s) = 3
    BY <1>3, <2>1, Holders, Ranks
  <2> QED
    BY <2>2, Ranks
<1>4. CASE /\ pc[s] \in {"use_period", "rel_period"}
           /\ periodRow[t][resvRow[s][a.key].period] # NoRow
  <2>1. resvRow[s][a.key].period \in Period
    <3>1. CASE pc[s] = "use_period"
      <4>1. a.key \in Key /\ resv[a.key] # NoRow /\ resvRow[s][a.key] = resv[a.key]
        BY <1>0, <3>1 DEF CallPlaced, CommitCall, HandPlaced, Hand, Single
      <4> QED
        BY <4>1, RowOf
    <3>2. CASE pc[s] = "rel_period"
      <4>1. /\ a.key \in Key /\ resv[a.key] # NoRow
            /\ resvRow[s][a.key] = Ledger!GiveBack(resv[a.key])
        BY <1>0, <3>2 DEF CallPlaced, ReleaseCall, HandPlaced, ReleaseHand, Hand, Single
      <4> QED
        BY <4>1, RowOf, GivenBack
    <3> QED
      BY <1>4, <3>1, <3>2
  <2>2. pc[t] \in {"rsv_insert", "use_insert", "exp_loop", "commit"} /\ Rank(s) = 1
    BY <1>4, <2>1, Holders, Ranks
  <2> QED
    BY <2>2, Ranks
<1>5. CASE pc[s] = "use_insert" /\ usage[a.event] = NoRow /\ usageRow[t][a.event] # NoRow
  <2>1. a.event \in UsageKey
    BY <1>0, <1>5 DEF CallPlaced, CommitCall
  <2>2. pc[t] = "commit" /\ Rank(s) = 3
    BY <1>5, <2>1, Holders, Ranks
  <2> QED
    BY <2>2, Ranks
<1>6. CASE pc[s] = "exp_loop" /\ periodRow[t][resvRow[s][Head(todo[s])].period] # NoRow
  <2>1. resvRow[s][Head(todo[s])].period \in Period
    <3>1. todo[s] \in Seq(Key) /\ todo[s] # <<>> /\ ExpireHand(s)
      BY <1>0, <1>6 DEF HandPlaced, IInv, TypeOK
    <3>2. Head(todo[s]) \in Left(s) /\ Head(todo[s]) \in Key
      BY <3>1, HeadTaken DEF ExpireHand, Left
    <3>3. /\ resv[Head(todo[s])] # NoRow
          /\ resvRow[s][Head(todo[s])] = resv[Head(todo[s])]
      BY <3>1, <3>2 DEF ExpireHand, Ledger!Active, Ledger!Reserved
    <3> QED
      BY <3>2, <3>3, RowOf
  <2>2. pc[t] \in {"rsv_insert", "use_insert", "exp_loop", "commit"} /\ Rank(s) = 2
    BY <1>6, <2>1, Holders, Ranks
  <2> QED
    BY <1>6, <2>2, Ranks
<1> QED
  BY <1>1, <1>2, <1>3, <1>4, <1>5, <1>6 DEF Awaits

(* A set of sessions that wait for each other has two expiries in it.      *)
OnlyExpiriesMeet ==
    \A C \in (SUBSET Session) \ {{}} :
        \/ \E s \in C : \A t \in C \ {s} : ~Awaits(s, t)
        \/ \E s, t \in C : s # t /\ pc[s] = "exp_loop" /\ pc[t] = "exp_loop"

LEMMA CycleHasExpiries == IInv => OnlyExpiriesMeet
<1> SUFFICES ASSUME IInv, NEW C \in (SUBSET Session) \ {{}},
                    \A s \in C : \E t \in C \ {s} : Awaits(s, t),
                    \A s, t \in C : ~ (s # t /\ pc[s] = "exp_loop" /\ pc[t] = "exp_loop")
             PROVE  FALSE
  BY DEF OnlyExpiriesMeet
<1>1. ASSUME NEW s \in C PROVE Rank(s) \in Nat /\ Rank(s) <= 4
  <2>1. pc[s] \in Labels
    BY DEF IInv, TypeOK
  <2> QED
    BY <2>1, Ranks DEF Labels, Reading
<1>2. ASSUME NEW n \in Nat, NEW s \in C, n <= Rank(s)
      PROVE  \E t \in C : n + 1 <= Rank(t)
  <2>1. PICK t \in C \ {s} : Awaits(s, t)
    OBVIOUS
  <2>2. Rank(s) < Rank(t)
    BY <2>1, WaitsUpwards
  <2>3. Rank(s) \in Nat
    BY <1>1
  <2>4. Rank(t) \in Nat
    BY <1>1
  <2> QED
    BY <1>2, <2>2, <2>3, <2>4
<1>3. \E s \in C : 0 <= Rank(s)
  BY <1>1
<1>4. \E s \in C : 0 + 1 <= Rank(s)
  BY <1>2, <1>3
<1>5. \E s \in C : 1 + 1 <= Rank(s)
  BY <1>2, <1>4
<1>6. \E s \in C : 2 + 1 <= Rank(s)
  BY <1>2, <1>5
<1>7. \E s \in C : 3 + 1 <= Rank(s)
  BY <1>2, <1>6
<1>8. \E s \in C : 4 + 1 <= Rank(s)
  BY <1>2, <1>7
<1> QED
  BY <1>1, <1>8

(* Whatever the number of sessions, no lock cycle is possible without two  *)
(* expiry jobs running at once.                                            *)
THEOREM CyclesNeedTwoExpiries == Spec => []OnlyExpiriesMeet
BY InvInit, InvStep, CycleHasExpiries, PTL DEF Spec

(* With one session that runs the expiry job no sessions wait for each     *)
(* other in a circle, as the module's docstring says.                      *)
THEOREM NobodyWaits ==
    ASSUME \A s, t \in Cleaner : s = t
    PROVE  Spec => []NoWaitCycle
<1>1. IInv => NoWaitCycle
  <2> SUFFICES ASSUME IInv, NEW C \in (SUBSET Session) \ {{}}
               PROVE  \E s \in C : \A t \in C \ {s} : ~Awaits(s, t)
    BY DEF NoWaitCycle
  <2>1. \A s \in C : pc[s] = "exp_loop" => s \in Cleaner
    BY DEF IInv, Placed, CallPlaced
  <2> QED
    BY <2>1, CycleHasExpiries DEF OnlyExpiriesMeet
<1> QED
  BY InvInit, InvStep, <1>1, PTL DEF Spec

-----------------------------------------------------------------------------
(* What the ledger guarantees, the service does *)

LedgerP == INSTANCE QuotaLedgerProofs

(* What was proved of QuotaLedger was proved of the ledger implemented.    *)
LEMMA LedgerIsProved ==
    /\ LedgerP!LedgerAssumption /\ LedgerP!NoRowAssumption
    /\ LedgerP!Init = Ledger!Init
    /\ LedgerP!Next = Ledger!Next
    /\ LedgerP!NoOversell = Ledger!NoOversell
    /\ LedgerP!UsedExact = Ledger!UsedExact
    /\ LedgerP!HeldCovered = Ledger!HeldCovered
    /\ LedgerP!EventsMatch = Ledger!EventsMatch
<1> USE DEF LedgerP!Period, Ledger!Period, LedgerP!Status, Ledger!Status,
       LedgerP!Counters, Ledger!Counters, LedgerP!Reservation, Ledger!Reservation,
       LedgerP!UsageEvent, Ledger!UsageEvent, LedgerP!Remaining, Ledger!Remaining,
       LedgerP!Reserved, Ledger!Reserved, LedgerP!Active, Ledger!Active,
       LedgerP!NewReservation, Ledger!NewReservation, LedgerP!Consume, Ledger!Consume,
       LedgerP!GiveBack, Ledger!GiveBack, LedgerP!Debit, Ledger!Debit,
       LedgerP!Transfer, Ledger!Transfer, LedgerP!Credit, Ledger!Credit,
       LedgerP!GrantPlan, Ledger!GrantPlan, LedgerP!Reserve, Ledger!Reserve,
       LedgerP!Settle, Ledger!Settle, LedgerP!Commit, Ledger!Commit,
       LedgerP!Refund, Ledger!Refund, LedgerP!Release, Ledger!Release,
       LedgerP!Periods, Ledger!Periods, LedgerP!Lapse, Ledger!Lapse,
       LedgerP!Expire, Ledger!Expire, LedgerP!AppNext, Ledger!AppNext,
       LedgerP!CommittedChecks, Ledger!CommittedChecks,
       LedgerP!HeldChecks, Ledger!HeldChecks, LedgerP!EventChecks, Ledger!EventChecks,
       LedgerP!Cardinality, Ledger!Cardinality, LedgerP!IsFiniteSet, Ledger!IsFiniteSet
<1>1. LedgerP!LedgerAssumption /\ LedgerP!NoRowAssumption
  <2>1. LedgerP!LedgerAssumption
    BY ServiceAssumption DEF LedgerP!LedgerAssumption, IsFiniteSet
  <2>2. LedgerP!NoRowAssumption
    BY NoRowAssumption DEF LedgerP!NoRowAssumption
  <2> QED
    BY <2>1, <2>2
<1>2. LedgerP!Init = Ledger!Init
  BY DEF LedgerP!Init, Ledger!Init
<1>3. LedgerP!Next = Ledger!Next
  BY DEF LedgerP!Next, Ledger!Next
<1>4. /\ LedgerP!NoOversell = Ledger!NoOversell
      /\ LedgerP!UsedExact = Ledger!UsedExact
      /\ LedgerP!HeldCovered = Ledger!HeldCovered
      /\ LedgerP!EventsMatch = Ledger!EventsMatch
  BY DEF LedgerP!NoOversell, Ledger!NoOversell, LedgerP!UsedExact, Ledger!UsedExact,
         LedgerP!HeldCovered, Ledger!HeldCovered, LedgerP!EventsMatch, Ledger!EventsMatch
<1> QED
  BY <1>1, <1>2, <1>3, <1>4

(* With every interleaving of its locks the service sells no more of a     *)
(* period than its plan had, counts as used what was committed, holds back *)
(* at least what is reserved, and counts no check without a usage event.   *)
THEOREM ServiceKeepsBooks ==
    Spec => []/\ Ledger!NoOversell
              /\ Ledger!UsedExact
              /\ Ledger!HeldCovered
              /\ Ledger!EventsMatch
<1>1. Init => LedgerP!Init
  BY LedgerIsProved DEF Init
<1>2. IInv /\ [Next]_vars => [LedgerP!Next]_(LedgerP!vars)
  BY LedgerIsProved, StepIsOperation DEF LedgerP!vars, Ledger!vars
<1>3. /\ LedgerP!NoOversell /\ LedgerP!UsedExact
      /\ LedgerP!HeldCovered /\ LedgerP!EventsMatch
      => /\ Ledger!NoOversell /\ Ledger!UsedExact
         /\ Ledger!HeldCovered /\ Ledger!EventsMatch
  BY LedgerIsProved
<1>4. LedgerP!LedgerAssumption /\ LedgerP!NoRowAssumption
  BY LedgerIsProved
<1>5. LedgerP!Spec => []LedgerP!NoOversell
  BY <1>4, LedgerP!NothingOversold, PTL
<1>6. LedgerP!Spec => []LedgerP!UsedExact
  BY <1>4, LedgerP!UsedIsExact, PTL
<1>7. LedgerP!Spec => []LedgerP!HeldCovered
  BY <1>4, LedgerP!HeldIsCovered, PTL
<1>8. LedgerP!Spec => []LedgerP!EventsMatch
  BY <1>4, LedgerP!EventsAddUp, PTL
<1> QED
  BY InvInit, InvStep, <1>1, <1>2, <1>3, <1>5, <1>6, <1>7, <1>8, PTL DEF Spec, LedgerP!Spec
=============================================================================
