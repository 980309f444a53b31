------------------------- MODULE EmailOutboxProofs -------------------------
(***************************************************************************)
(* Proofs about EmailOutbox, for any users, events, administrators, bounds *)
(* and any finite set of workers.                                          *)
(*                                                                         *)
(* A mail needs a worker that sends, a sending worker has claimed the row, *)
(* and a row can be claimed once when it is created and once per retry.    *)
(* The counter attempts of the row, which the code keeps for its own ends, *)
(* stands between the two.                                                 *)
(***************************************************************************)
EXTENDS EmailOutbox, FiniteSetTheorems, TLAPS

(* The workers that are about to send the mail of letter l. *)
Sending(l) == {w \in Worker : wk[w].pc = "send" /\ wk[w].l = l}

Attempts(l) == IF delivery[l] = None THEN 0 ELSE delivery[l].attempts

(* A delivery is inserted with its notification, once. *)
DeliveryHasNote == \A l \in Letter : delivery[l] # None => note[l] # "none"

(* Workers and retry requests have letters with a delivery. *)
WorkIsDelivery ==
    /\ \A w \in Worker : wk[w].pc # "idle" => wk[w].l \in Letter /\ delivery[wk[w].l] # None
    /\ \A a \in Admin : retry[a] # None => delivery[retry[a]] # None

(* A row is claimed once, and once more for each retry. *)
ClaimsBounded ==
    \A l \in Letter :
        delivery[l] # None =>
            Attempts(l) + (IF HasStatus(l, "PENDING") THEN 1 ELSE 0) <= 1 + retries[l]

(* Each mail, and each worker that has one to send, comes from a claim. *)
MailsBounded == \A l \in Letter : mails[l] + Cardinality(Sending(l)) <= Attempts(l)

IInv == TypeOK /\ DeliveryHasNote /\ WorkIsDelivery /\ ClaimsBounded /\ MailsBounded

-----------------------------------------------------------------------------
(* Who sends *)

LEMMA SendingFinite ==
    ASSUME OutboxAssumption, NEW l
    PROVE  IsFiniteSet(Sending(l)) /\ Cardinality(Sending(l)) \in Nat
<1>1. Sending(l) \in SUBSET Worker
  BY DEF Sending
<1> QED
  BY <1>1, FS_Subset, FS_CardinalityType DEF OutboxAssumption

(* A worker that goes on to anything but sending is no longer counted. *)
LEMMA SendingShrinks ==
    ASSUME OutboxAssumption, TypeOK, NEW w \in Worker, NEW x, x.pc # "send",
           wk' = [wk EXCEPT ![w] = x], NEW l
    PROVE  /\ Sending(l)' = Sending(l) \ {w}
           /\ Cardinality(Sending(l)') =
                Cardinality(Sending(l)) - (IF w \in Sending(l) THEN 1 ELSE 0)
<1>1. Sending(l)' = Sending(l) \ {w}
  BY DEF Sending, TypeOK
<1> QED
  BY <1>1, SendingFinite, FS_RemoveElement

-----------------------------------------------------------------------------
LEMMA InvInit == ASSUME OutboxAssumption PROVE Init => IInv
<1> SUFFICES ASSUME Init PROVE IInv
  OBVIOUS
<1>1. TypeOK
  BY DEF Init, TypeOK, Idle, Code, Switches
<1>2. DeliveryHasNote /\ WorkIsDelivery /\ ClaimsBounded
  BY DEF Init, DeliveryHasNote, WorkIsDelivery, ClaimsBounded, Idle
<1>3. MailsBounded
  <2>1. \A l \in Letter : Sending(l) = {}
    BY DEF Init, Sending, Idle
  <2> QED
    BY <2>1, FS_EmptySet DEF Init, MailsBounded, Attempts
<1> QED
  BY <1>1, <1>2, <1>3 DEF IInv

(* Users, and the notification itself: nothing is claimed, sent or retried.*)
LEMMA UserSteps ==
    ASSUME OutboxAssumption, IInv,
           \/ \E u \in User : UpdatePreferences(u) \/ LeaveOrJoin(u)
           \/ \E l \in Letter : DispatchAfterCommit(l) \/ SweepEnqueues(l) \/ BrokerRefuses(l)
           \/ \E l \in Letter, w \in Worker : Drop(w, l)
           \/ SweepLocks \/ SweepEnds
    PROVE  IInv'
<1>1. TypeOK'
  <2> USE DEF IInv, TypeOK, OutboxAssumption, Tables
  <2>1. ASSUME NEW u \in User, UpdatePreferences(u) PROVE TypeOK'
    BY <2>1 DEF UpdatePreferences
  <2>2. ASSUME NEW u \in User, LeaveOrJoin(u) PROVE TypeOK'
    BY <2>2 DEF LeaveOrJoin
  <2>3. ASSUME NEW l \in Letter, DispatchAfterCommit(l) PROVE TypeOK'
    BY <2>3 DEF DispatchAfterCommit
  <2>4. ASSUME NEW l \in Letter, SweepEnqueues(l) \/ BrokerRefuses(l) PROVE TypeOK'
    BY <2>4 DEF SweepEnqueues, BrokerRefuses
  <2>5. ASSUME NEW l \in Letter, NEW w \in Worker, Drop(w, l) PROVE TypeOK'
    BY <2>5 DEF Drop
  <2>6. CASE SweepLocks
    BY <2>6 DEF SweepLocks
  <2>7. CASE SweepEnds
    BY <2>7 DEF SweepEnds
  <2> QED
    BY <2>1, <2>2, <2>3, <2>4, <2>5, <2>6, <2>7
<1>2. UNCHANGED <<note, delivery, wk, retry, retries, mails>>
  BY DEF UpdatePreferences, LeaveOrJoin, DispatchAfterCommit, SweepEnqueues, BrokerRefuses,
         Drop, SweepLocks, SweepEnds, Tables
<1>3. \A l : Sending(l)' = Sending(l)
  BY <1>2 DEF Sending
<1> QED
  BY <1>1, <1>2, <1>3 DEF IInv, DeliveryHasNote, WorkIsDelivery, ClaimsBounded, MailsBounded,
                          Attempts, HasStatus

LEMMA CreateStep ==
    ASSUME OutboxAssumption, IInv, NEW l \in Letter, CreateNotification(l)
    PROVE  IInv'
<1> DEFINE new == [status |-> "PENDING", attempts |-> 0, code |-> None]
<1>1. /\ note[l] = "none" /\ delivery[l] = None
      /\ note' = [note EXCEPT ![l] = "unread"]
      /\ delivery' = delivery \/ delivery' = [delivery EXCEPT ![l] = new]
      /\ hook' \subseteq hook \cup {l}
      /\ UNCHANGED <<member, pref, queue, locked, todo, wk, retry, retries, mails>>
  BY DEF CreateNotification, IInv, DeliveryHasNote
<1>2. new \in Delivery /\ new # None
  BY DEF Delivery, Status, Code, OutboxAssumption
<1>3. TypeOK'
  BY <1>1, <1>2 DEF IInv, TypeOK
<1>4. DeliveryHasNote' /\ WorkIsDelivery'
  BY <1>1, <1>2 DEF IInv, TypeOK, DeliveryHasNote, WorkIsDelivery
<1>5. \A m \in Letter : delivery'[m] = delivery[m] \/ (m = l /\ delivery'[m] = new)
  BY <1>1 DEF IInv, TypeOK
<1>6. ClaimsBounded'
  BY <1>1, <1>5 DEF IInv, TypeOK, ClaimsBounded, Attempts, HasStatus
<1>7. MailsBounded'
  <2>1. \A m : Sending(m)' = Sending(m)
    BY <1>1 DEF Sending
  <2>2. \A m \in Letter : Attempts(m)' = Attempts(m)
    BY <1>1, <1>2, <1>5 DEF Attempts
  <2> QED
    BY <1>1, <2>1, <2>2 DEF IInv, MailsBounded
<1> QED
  BY <1>3, <1>4, <1>6, <1>7 DEF IInv

-----------------------------------------------------------------------------
(* Claiming takes a PENDING row: one claim less to come, one attempt more. *)
LEMMA ClaimStep ==
    ASSUME OutboxAssumption, IInv, NEW w \in Worker, NEW l \in Letter, Claim(w, l)
    PROVE  IInv'
<1> DEFINE next == [Idle EXCEPT !.pc = "send", !.l = l]
           row == delivery[l]
           taken == [row EXCEPT !.status = "SENDING", !.attempts = row.attempts + 1]
<1>1. /\ row # None /\ row.status = "PENDING" /\ row \in Delivery
      /\ wk[w].pc = "idle" /\ wk' = [wk EXCEPT ![w] = next]
      /\ delivery' = [delivery EXCEPT ![l] = taken]
      /\ queue[l] > 0 /\ queue' = [queue EXCEPT ![l] = queue[l] - 1]
      /\ UNCHANGED <<member, pref, note, hook, locked, todo, retry, retries, crashes, mails>>
  BY DEF Claim, Claimable, HasStatus, Step, Tables, IInv, TypeOK
<1>2. /\ taken \in Delivery /\ taken # None /\ taken.status = "SENDING"
      /\ taken.attempts = row.attempts + 1 /\ row.attempts \in Nat
  <2>1. row.attempts \in Nat /\ row.attempts + 1 \in Nat
    BY <1>1 DEF Delivery
  <2>2. taken \in Delivery /\ taken.status = "SENDING" /\ taken.attempts = row.attempts + 1
    BY <1>1, <2>1 DEF Delivery, Status
  <2> QED
    BY <2>1, <2>2 DEF OutboxAssumption
<1>3. next.pc = "send" /\ next.l = l /\ next.code = None
  BY DEF Idle
<1>4. TypeOK'
  <2>1. next \in [pc : {"idle", "send", "sent", "failed"}, l : Letter \cup {None}, code : Code]
    BY DEF Idle, Code
  <2>2. queue[l] - 1 \in Nat
    BY <1>1 DEF IInv, TypeOK
  <2> QED
    BY <1>1, <1>2, <2>1, <2>2 DEF IInv, TypeOK
<1>5. DeliveryHasNote' /\ WorkIsDelivery'
  BY <1>1, <1>2, <1>3 DEF IInv, TypeOK, DeliveryHasNote, WorkIsDelivery
<1>6. ClaimsBounded'
  BY <1>1, <1>2 DEF IInv, TypeOK, ClaimsBounded, Attempts, HasStatus
<1>7. MailsBounded'
  <2> SUFFICES ASSUME NEW m \in Letter
               PROVE  (mails[m] + Cardinality(Sending(m)) <= Attempts(m))'
    BY DEF MailsBounded
  <2>1. mails[m] + Cardinality(Sending(m)) <= Attempts(m)
    BY DEF IInv, MailsBounded
  <2>2. CASE m # l
    <3>1. Sending(m)' = Sending(m) /\ Attempts(m)' = Attempts(m)
      BY <1>1, <1>3, <2>2 DEF IInv, TypeOK, Sending, Attempts
    <3> QED
      BY <1>1, <2>1, <3>1
  <2>3. CASE m = l
    <3>1. Sending(m)' = Sending(m) \cup {w} /\ w \notin Sending(m)
      BY <1>1, <1>3, <2>3 DEF IInv, TypeOK, Sending
    <3>2. Cardinality(Sending(m)') = Cardinality(Sending(m)) + 1
      BY <3>1, SendingFinite, FS_AddElement
    <3>3. Attempts(m)' = Attempts(m) + 1 /\ Attempts(m) \in Nat
      BY <1>1, <1>2, <2>3 DEF IInv, TypeOK, Attempts
    <3> QED
      BY <1>1, <2>1, <3>2, <3>3, SendingFinite DEF IInv, TypeOK
  <2> QED
    BY <2>2, <2>3
<1> QED
  BY <1>4, <1>5, <1>6, <1>7 DEF IInv

(* A worker that stops sending, with a mail that was accepted or without.  *)
LEMMA SenderSteps ==
    ASSUME OutboxAssumption, IInv, NEW w \in Worker,
           Send(w) \/ TaskRaises(w) \/ WorkerDies(w)
    PROVE  IInv'
<1>1. PICK x \in [pc : {"idle", "sent", "failed"}, l : Letter \cup {None}, code : Code] :
         /\ wk' = [wk EXCEPT ![w] = x]
         /\ x.pc # "idle" => wk[w].pc # "idle" /\ x.l = wk[w].l
  <2>1. wk[w] \in [pc : {"idle", "send", "sent", "failed"}, l : Letter \cup {None}, code : Code]
    BY DEF IInv, TypeOK
  <2>2. CASE Send(w)
    <3>1. PICK ok \in BOOLEAN :
             /\ wk[w].pc = "send"
             /\ wk' = [wk EXCEPT ![w] = [wk[w] EXCEPT !.pc = IF ok THEN "sent" ELSE "failed",
                                                      !.code = IF ok THEN None ELSE "SMTP"]]
      BY <2>2 DEF Send, Step
    <3> DEFINE y == [wk[w] EXCEPT !.pc = IF ok THEN "sent" ELSE "failed",
                                  !.code = IF ok THEN None ELSE "SMTP"]
    <3>2. /\ y \in [pc : {"idle", "sent", "failed"}, l : Letter \cup {None}, code : Code]
          /\ y.l = wk[w].l
      BY <2>1 DEF Code
    <3> QED
      BY <3>1, <3>2
  <2>3. CASE TaskRaises(w)
    <3> DEFINE y == [wk[w] EXCEPT !.pc = "failed", !.code = "EXCEPTION"]
    <3>1. /\ y \in [pc : {"idle", "sent", "failed"}, l : Letter \cup {None}, code : Code]
          /\ y.l = wk[w].l
      BY <2>1 DEF Code
    <3>2. wk' = [wk EXCEPT ![w] = y] /\ wk[w].pc # "idle"
      BY <2>3 DEF TaskRaises, IInv, TypeOK
    <3> QED
      BY <3>1, <3>2
  <2>4. CASE WorkerDies(w)
    <3>1. /\ Idle \in [pc : {"idle", "sent", "failed"}, l : Letter \cup {None}, code : Code]
          /\ Idle.pc = "idle"
      BY DEF Idle, Code
    <3> QED
      BY <2>4, <3>1 DEF WorkerDies
  <2> QED
    BY <2>2, <2>3, <2>4
<1>2. /\ UNCHANGED <<member, pref, note, hook, delivery, queue, locked, todo, retry, retries>>
      /\ \/ mails' = mails
         \/ w \in Sending(wk[w].l) /\ mails' = [mails EXCEPT ![wk[w].l] = mails[wk[w].l] + 1]
  BY DEF Send, TaskRaises, WorkerDies, Step, Tables, Sending
<1>3. TypeOK'
  BY <1>1, <1>2 DEF IInv, TypeOK
<1>4. DeliveryHasNote' /\ WorkIsDelivery' /\ ClaimsBounded'
  BY <1>1, <1>2 DEF IInv, TypeOK, DeliveryHasNote, WorkIsDelivery, ClaimsBounded, Attempts,
                    HasStatus
<1>5. MailsBounded'
  <2> SUFFICES ASSUME NEW m \in Letter
               PROVE  mails'[m] + Cardinality(Sending(m)') <= Attempts(m)'
    BY DEF MailsBounded
  <2>1. mails[m] + Cardinality(Sending(m)) <= Attempts(m)
    BY DEF IInv, MailsBounded
  <2>2. Cardinality(Sending(m)') = Cardinality(Sending(m)) - (IF w \in Sending(m) THEN 1 ELSE 0)
    BY <1>1, SendingShrinks DEF IInv
  <2>3. Attempts(m)' = Attempts(m) /\ Attempts(m) \in Nat
    BY <1>2 DEF Attempts, IInv, TypeOK, Delivery
  <2>4. mails'[m] <= mails[m] + (IF w \in Sending(m) THEN 1 ELSE 0) /\ mails'[m] \in Nat
    BY <1>2, <1>3 DEF IInv, TypeOK, Sending
  <2> QED
    BY <2>1, <2>2, <2>3, <2>4, SendingFinite DEF IInv, TypeOK
<1> QED
  BY <1>3, <1>4, <1>5 DEF IInv
-----------------------------------------------------------------------------
(* Steps that write a status over a row and leave its attempts: the result *)
(* of a worker, a stale recovery, a retry.                                 *)
LEMMA RowWritten ==
    ASSUME OutboxAssumption, IInv, NEW l \in Letter, delivery[l] # None,
           NEW status \in Status, NEW code \in Code,
           delivery' = [delivery EXCEPT ![l] = [delivery[l] EXCEPT !.status = status,
                                                                   !.code = code]],
           status = "PENDING" => retries'[l] = retries[l] + 1,
           retries' = retries \/ retries' = [retries EXCEPT ![l] = retries[l] + 1],
           wk' = wk \/ \E w \in Worker : wk' = [wk EXCEPT ![w] = Idle],
           retry' = retry \/ \E a \in Admin : retry' = [retry EXCEPT ![a] = None],
           queue' = queue \/ queue' = [queue EXCEPT ![l] = queue[l] + 1],
           UNCHANGED <<member, pref, note, hook, locked, todo, mails>>
    PROVE  IInv'
<1> DEFINE row == [delivery[l] EXCEPT !.status = status, !.code = code]
<1>1. /\ delivery[l] \in Delivery /\ row \in Delivery /\ row # None
      /\ row.status = status /\ row.attempts = delivery[l].attempts
      /\ row.attempts \in Nat
  <2>1. delivery[l] \in Delivery
    BY DEF IInv, TypeOK
  <2>2. /\ row \in Delivery
        /\ row.status = status /\ row.attempts = delivery[l].attempts
        /\ row.attempts \in Nat
    BY <2>1 DEF Delivery
  <2> QED
    BY <2>1, <2>2 DEF OutboxAssumption
<1>2. TypeOK'
  <2> USE DEF IInv, TypeOK
  <2>1. delivery' \in [Letter -> Delivery \cup {None}]
    BY <1>1
  <2>2. wk' \in [Worker -> [pc : {"idle", "send", "sent", "failed"},
                           l : Letter \cup {None}, code : Code]]
    BY DEF Idle, Code
  <2>3. queue' \in [Letter -> Nat] /\ retries' \in [Letter -> Nat]
    OBVIOUS
  <2>4. retry' \in [Admin -> Letter \cup {None}]
    OBVIOUS
  <2> QED
    BY <2>1, <2>2, <2>3, <2>4
<1>3. DeliveryHasNote' /\ WorkIsDelivery'
  BY <1>1 DEF IInv, TypeOK, DeliveryHasNote, WorkIsDelivery, Idle
<1>4. ClaimsBounded'
  <2> SUFFICES ASSUME NEW m \in Letter, delivery'[m] # None
               PROVE  (Attempts(m) + (IF HasStatus(m, "PENDING") THEN 1 ELSE 0)
                          <= 1 + retries[m])'
    BY DEF ClaimsBounded
  <2>1. CASE m # l
    BY <2>1 DEF IInv, TypeOK, ClaimsBounded, Attempts, HasStatus
  <2>2. CASE m = l
    <3>1. Attempts(l) <= 1 + retries[l] /\ Attempts(l) \in Nat /\ retries[l] \in Nat
      BY <1>1 DEF IInv, TypeOK, ClaimsBounded, Attempts
    <3>2. Attempts(l)' = Attempts(l)
      BY <1>1 DEF IInv, TypeOK, Attempts
    <3>3. retries'[l] \in {retries[l], retries[l] + 1}
      BY DEF IInv, TypeOK
    <3>4. (HasStatus(l, "PENDING"))' <=> status = "PENDING"
      BY <1>1 DEF IInv, TypeOK, HasStatus
    <3>5. Attempts(l)' + (IF status = "PENDING" THEN 1 ELSE 0) <= 1 + retries'[l]
      BY <3>1, <3>2, <3>3
    <3> QED
      BY <2>2, <3>4, <3>5
  <2> QED
    BY <2>1, <2>2
<1>5. MailsBounded'
  <2> SUFFICES ASSUME NEW m \in Letter
               PROVE  mails[m] + Cardinality(Sending(m)') <= Attempts(m)'
    BY DEF MailsBounded
  <2>1. mails[m] + Cardinality(Sending(m)) <= Attempts(m) /\ mails[m] \in Nat
    BY DEF IInv, MailsBounded, TypeOK
  <2>2. Attempts(m)' = Attempts(m)
    BY <1>1 DEF IInv, TypeOK, Attempts
  <2>3. /\ Cardinality(Sending(m)') <= Cardinality(Sending(m))
        /\ Cardinality(Sending(m)') \in Nat
    <3>1. CASE wk' = wk
      <4>1. Sending(m)' = Sending(m)
        BY <3>1 DEF Sending
      <4> QED
        BY <4>1, SendingFinite
    <3>2. ASSUME NEW w \in Worker, wk' = [wk EXCEPT ![w] = Idle]
          PROVE  /\ Cardinality(Sending(m)') <= Cardinality(Sending(m))
                 /\ Cardinality(Sending(m)') \in Nat
      <4>1. Sending(m)' = Sending(m) \ {w}
        BY <3>2, SendingShrinks DEF IInv, Idle
      <4> QED
        BY <4>1, SendingFinite, FS_Subset, FS_CardinalityType
    <3> QED
      BY <3>1, <3>2
  <2>4. Attempts(m) \in Nat
    BY DEF IInv, TypeOK, Delivery, Attempts
  <2> QED
    BY <2>1, <2>2, <2>3, <2>4, SendingFinite
<1> QED
  BY <1>2, <1>3, <1>4, <1>5 DEF IInv

LEMMA PersistSteps ==
    ASSUME OutboxAssumption, IInv, NEW w \in Worker, PersistSent(w) \/ PersistFailed(w)
    PROVE  IInv'
<1>1. /\ wk[w].l \in Letter /\ delivery[wk[w].l] \in Delivery /\ delivery[wk[w].l] # None
      /\ wk[w].code \in Code
  BY DEF PersistSent, PersistFailed, Step, IInv, TypeOK, WorkIsDelivery
<1>2. CASE PersistSent(w)
  <2>1. delivery[wk[w].l].code \in Code /\ "SENT" \in Status
    BY <1>1 DEF Delivery, Status
  <2>2. [delivery[wk[w].l] EXCEPT !.status = "SENT"]
          = [delivery[wk[w].l] EXCEPT !.status = "SENT", !.code = delivery[wk[w].l].code]
    BY <1>1 DEF Delivery
  <2>3. delivery' = [delivery EXCEPT ![wk[w].l] =
            [delivery[wk[w].l] EXCEPT !.status = "SENT", !.code = delivery[wk[w].l].code]]
    BY <1>2, <2>2 DEF PersistSent
  <2>4. /\ wk' = [wk EXCEPT ![w] = Idle]
        /\ UNCHANGED <<member, pref, note, hook, queue, locked, todo, retry, retries, mails>>
    BY <1>2 DEF PersistSent, Step, Tables
  <2> QED
    BY <1>1, <2>1, <2>3, <2>4, RowWritten
<1>3. CASE PersistFailed(w)
  <2>1. /\ "FAILED" \in Status
        /\ delivery' = [delivery EXCEPT ![wk[w].l] =
              [delivery[wk[w].l] EXCEPT !.status = "FAILED", !.code = wk[w].code]]
        /\ wk' = [wk EXCEPT ![w] = Idle]
        /\ UNCHANGED <<member, pref, note, hook, queue, locked, todo, retry, retries, mails>>
    BY <1>3 DEF PersistFailed, Step, Tables, Status, IInv, TypeOK
  <2> QED
    BY <1>1, <2>1, RowWritten
<1> QED
  BY <1>2, <1>3

LEMMA RecoverStep ==
    ASSUME OutboxAssumption, IInv, NEW l \in Letter, RecoverStaleSending(l)
    PROVE  IInv'
<1>1. /\ delivery[l] # None /\ "FAILED" \in Status /\ "STALE_SENDING" \in Code
      /\ delivery' = [delivery EXCEPT ![l] =
            [delivery[l] EXCEPT !.status = "FAILED", !.code = "STALE_SENDING"]]
      /\ UNCHANGED <<member, pref, note, hook, queue, locked, todo, wk, retry, retries, mails>>
  BY DEF RecoverStaleSending, HasStatus, Tables, Status, Code, IInv, TypeOK
<1> QED
  BY <1>1, RowWritten

LEMMA RetryReadStep ==
    ASSUME OutboxAssumption, IInv, NEW a \in Admin, NEW l \in Letter, RetryRead(a, l)
    PROVE  IInv'
<1>1. /\ delivery[l] # None /\ retry' = [retry EXCEPT ![a] = l]
      /\ UNCHANGED <<member, pref, note, hook, delivery, queue, locked, todo, wk, retries, mails>>
  BY DEF RetryRead, HasStatus, Tables
<1>2. \A m : Sending(m)' = Sending(m)
  BY <1>1 DEF Sending
<1> QED
  BY <1>1, <1>2 DEF IInv, TypeOK, DeliveryHasNote, WorkIsDelivery, ClaimsBounded, MailsBounded,
                    Attempts, HasStatus

(* A retry makes the row PENDING once more than it has been, and counts.   *)
LEMMA RetryWriteStep ==
    ASSUME OutboxAssumption, IInv, NEW a \in Admin, RetryWrite(a)
    PROVE  IInv'
<1> DEFINE l == retry[a]
<1>1. l \in Letter /\ delivery[l] # None /\ "PENDING" \in Status /\ None \in Code
  BY DEF RetryWrite, IInv, TypeOK, WorkIsDelivery, Status, Code
<1>2. /\ delivery' = [delivery EXCEPT ![l] =
            [delivery[l] EXCEPT !.status = "PENDING", !.code = None]]
      /\ queue' = queue \/ queue' = [queue EXCEPT ![l] = queue[l] + 1]
      /\ retries' = [retries EXCEPT ![l] = retries[l] + 1]
      /\ retries'[l] = retries[l] + 1
      /\ retry' = [retry EXCEPT ![a] = None]
      /\ UNCHANGED <<member, pref, note, hook, locked, todo, wk, mails>>
  BY <1>1 DEF RetryWrite, Tables, IInv, TypeOK
<1> QED
  BY <1>1, <1>2, RowWritten

-----------------------------------------------------------------------------
(* Every step keeps IInv. *)
LEMMA InvStep == ASSUME OutboxAssumption PROVE IInv /\ [Next]_vars => IInv'
<1> SUFFICES ASSUME IInv, [Next]_vars PROVE IInv'
  OBVIOUS
<1>1. CASE UNCHANGED vars
  BY <1>1 DEF vars, IInv, TypeOK, DeliveryHasNote, WorkIsDelivery, ClaimsBounded,
              MailsBounded, Attempts, HasStatus, Sending
<1>2. ASSUME NEW l \in Letter, MarkRead(l) PROVE IInv'
  BY <1>1, <1>2 DEF MarkRead
<1> QED
  BY <1>1, <1>2, UserSteps, CreateStep, ClaimStep, SenderSteps, PersistSteps, RecoverStep,
     RetryReadStep, RetryWriteStep DEF Next

(* Notifications, deliveries, messages, workers and requests keep their    *)
(* types, and only a row that exists is claimed, sent, written or retried. *)
THEOREM TypeCorrect == ASSUME OutboxAssumption PROVE Spec => []TypeOK
<1>1. IInv => TypeOK
  BY DEF IInv
<1> QED
  BY <1>1, InvInit, InvStep, PTL DEF Spec

(* What IInv says of the mails of a letter. *)
LEMMA MailsWithinRetries == OutboxAssumption /\ IInv => NoAutomaticDuplicate
<1> SUFFICES ASSUME OutboxAssumption, IInv, NEW l \in Letter PROVE mails[l] <= 1 + retries[l]
  BY DEF NoAutomaticDuplicate
<1>1. /\ mails[l] + Cardinality(Sending(l)) <= Attempts(l)
      /\ mails[l] \in Nat /\ retries[l] \in Nat
  BY DEF IInv, MailsBounded, TypeOK
<1>2. Attempts(l) <= 1 + retries[l] /\ Attempts(l) \in Nat
  BY DEF IInv, TypeOK, ClaimsBounded, Attempts, Delivery
<1> QED
  BY <1>1, <1>2, SendingFinite

(* An email is sent at most once, and once more for each manual retry:     *)
(* whatever messages are lost or repeated, workers die or are slow, and    *)
(* sweeps and recoveries run beside them.                                  *)
THEOREM SentOnce == ASSUME OutboxAssumption PROVE Spec => []NoAutomaticDuplicate
<1>1. IInv => NoAutomaticDuplicate
  BY MailsWithinRetries
<1> QED
  BY <1>1, InvInit, InvStep, PTL DEF Spec
=============================================================================
