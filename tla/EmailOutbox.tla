---------------------------- MODULE EmailOutbox ----------------------------
(***************************************************************************)
(* Notifications and the transactional outbox of their emails:             *)
(* app/services/notification_service.py, scheduled_scan_notification_      *)
(* service.py, app/workers/notification_tasks.py and the routes that mark  *)
(* a notification read or retry its email.                                 *)
(*                                                                         *)
(* A letter is a notification of one user about one event; its delivery    *)
(* row, its Celery messages and its mails are kept by letter.  The broker  *)
(* may refuse a message or deliver it at any time; a message is gone once  *)
(* a worker has taken it (task_acks_late is off).                          *)
(***************************************************************************)
EXTENDS Integers, FiniteSets

CONSTANTS
    User, Event,
    About,           \* what each event is about: a scan, an opportunity or a verification
    Preferences,     \* the sets of switches users choose from
    Worker,          \* Celery workers that run notification.send_email
    Admin,           \* requests of the email retry endpoint
    MaxRetries, MaxQueue, MaxCrashes,
    None

Letter == User \X Event

VARIABLES
    member,      \* is the user an active member of the workspace
    pref,        \* notification_preferences: the user's switches
    note,        \* notifications: "none" or "unread"
    delivery,    \* email_deliveries, or None
    hook,        \* letters committed whose after_commit hook has not run
    queue,       \* messages of notification.send_email, by letter
    locked,      \* the rows the sweeper holds FOR UPDATE
    todo,        \* those it still has to enqueue
    wk,          \* what each worker does
    retry,       \* the letter each retry request has read as FAILED
    retries, crashes,
    mails        \* history: the mails the SMTP server accepted

vars == <<member, pref, note, delivery, hook, queue, locked, todo, wk, retry,
          retries, crashes, mails>>

Switches == {"email_enabled", "scheduled_scan_summary",
             "high_priority_opportunities", "verification_outcomes"}

Status == {"PENDING", "SENDING", "SENT", "FAILED"}
Code == {None, "SMTP", "EXCEPTION", "STALE_SENDING"}

Delivery == [status : Status, attempts : Nat, code : Code]

(* What the constants are; a module that instantiates this one assumes it.*)
OutboxAssumption ==
    /\ IsFiniteSet(Worker)
    /\ Preferences \subseteq SUBSET Switches
    /\ None \notin Letter /\ None \notin Delivery

Idle == [pc |-> "idle", l |-> None, code |-> None]

Init ==
    /\ member = [u \in User |-> TRUE]
    /\ pref = [u \in User |-> Switches]
    /\ note = [l \in Letter |-> "none"]
    /\ delivery = [l \in Letter |-> None]
    /\ hook = {}
    /\ queue = [l \in Letter |-> 0]
    /\ locked = {}
    /\ todo = {}
    /\ wk = [w \in Worker |-> Idle]
    /\ retry = [a \in Admin |-> None]
    /\ retries = [l \in Letter |-> 0]
    /\ crashes = 0
    /\ mails = [l \in Letter |-> 0]

-----------------------------------------------------------------------------
(* The workspace's members *)

SwitchOf(type) ==
    CASE type \in {"SCHEDULED_SCAN_COMPLETED", "SCHEDULED_SCAN_PARTIAL",
                   "SCHEDULED_SCAN_FAILED"} -> "scheduled_scan_summary"
      [] type = "NEW_HIGH_PRIORITY_OPPORTUNITY" -> "high_priority_opportunities"
      [] type \in {"VERIFICATION_RESOLVED", "VERIFICATION_IMPROVED",
                   "VERIFICATION_REGRESSED", "VERIFICATION_INCONCLUSIVE"} ->
             "verification_outcomes"
      [] OTHER -> "no_email"

ShouldEmail(switches, type) == {"email_enabled", SwitchOf(type)} \subseteq switches

(* handle_scheduled_scan_terminal: the summary of a scheduled scan.        *)
ScanType(s) ==
    IF ~s.scheduled \/ s.type # "STANDARD" THEN None
    ELSE CASE s.status = "COMPLETED" -> "SCHEDULED_SCAN_COMPLETED"
           [] s.status = "PARTIAL"   -> "SCHEDULED_SCAN_PARTIAL"
           [] s.status = "FAILED"    -> "SCHEDULED_SCAN_FAILED"
           [] OTHER -> None

(* A HIGH opportunity is announced by the scheduled scan that first        *)
(* detected it, if that scan was analysed and the refresh succeeded.       *)
OpportunityType(o) ==
    IF o.priority = "HIGH" /\ o.firstDetected /\ o.refreshed
    THEN "NEW_HIGH_PRIORITY_OPPORTUNITY" ELSE None

(* A NOT_IMPROVED verification announces nothing. *)
VerificationType(outcome) ==
    CASE outcome = "RESOLVED"     -> "VERIFICATION_RESOLVED"
      [] outcome = "IMPROVED"     -> "VERIFICATION_IMPROVED"
      [] outcome = "REGRESSED"    -> "VERIFICATION_REGRESSED"
      [] outcome = "INCONCLUSIVE" -> "VERIFICATION_INCONCLUSIVE"
      [] OTHER -> None

TypeOf(e) ==
    CASE About[e].kind = "scan"         -> ScanType(About[e])
      [] About[e].kind = "opportunity"  -> OpportunityType(About[e])
      [] About[e].kind = "verification" -> VerificationType(About[e].outcome)

UpdatePreferences(u) ==
    /\ member[u]
    /\ pref' \in {[pref EXCEPT ![u] = p] : p \in Preferences \ {pref[u]}}
    /\ UNCHANGED <<member, note, delivery, hook, queue, locked, todo, wk, retry,
                   retries, crashes, mails>>

LeaveOrJoin(u) ==
    /\ member' = [member EXCEPT ![u] = ~@]
    /\ UNCHANGED <<pref, note, delivery, hook, queue, locked, todo, wk, retry,
                   retries, crashes, mails>>

-----------------------------------------------------------------------------
(* Creating notifications: at the end of a scheduled scan or verification  *)

(* create_notification and its commit: INSERT ... ON CONFLICT DO NOTHING   *)
(* makes a second announcement of the event, however it races, a no-op.    *)
CreateNotification(l) ==
    /\ TypeOf(l[2]) # None
    /\ member[l[1]]
    /\ note[l] = "none"
    /\ note' = [note EXCEPT ![l] = "unread"]
    /\ LET emailed == ShouldEmail(pref[l[1]], TypeOf(l[2]))
       IN /\ delivery' = IF emailed
                         THEN [delivery EXCEPT ![l] = [status |-> "PENDING", attempts |-> 0,
                                                       code |-> None]]
                         ELSE delivery
          /\ hook' = IF emailed THEN hook \cup {l} ELSE hook
    /\ UNCHANGED <<member, pref, queue, locked, todo, wk, retry, retries, crashes, mails>>

(* The after_commit hook; when the broker refuses the message, or the      *)
(* process is gone before it is sent, the row stays PENDING.               *)
DispatchAfterCommit(l) ==
    /\ l \in hook
    /\ hook' = hook \ {l}
    /\ \/ queue' = [queue EXCEPT ![l] = @ + 1]
       \/ UNCHANGED queue
    /\ UNCHANGED <<member, pref, note, delivery, locked, todo, wk, retry, retries,
                   crashes, mails>>

(* mark_read flushes read_at, the route closes the session, and nothing    *)
(* has committed: the request answers, the table keeps what it had.        *)
MarkRead(l) == note[l] # "none" /\ UNCHANGED vars

-----------------------------------------------------------------------------
(* notification.send_email *)

Step(w, from, next) == wk[w].pc = from /\ wk' = [wk EXCEPT ![w] = next]

Tables == <<member, pref, note, hook>>

HasStatus(l, status) == delivery[l] # None /\ delivery[l].status = status

(* Mutant: a row that is being sent is taken again. *)
ClaimableInFlight(l) == HasStatus(l, "PENDING") \/ HasStatus(l, "SENDING")

Claimable(l) == HasStatus(l, "PENDING")

(* The message is taken; PENDING becomes SENDING under the row lock, which *)
(* SKIP LOCKED does not wait for: a row the sweeper holds is "not found".  *)
Claim(w, l) ==
    /\ queue[l] > 0
    /\ Claimable(l) /\ l \notin locked
    /\ Step(w, "idle", [Idle EXCEPT !.pc = "send", !.l = l])
    /\ queue' = [queue EXCEPT ![l] = @ - 1]
    /\ delivery' = [delivery EXCEPT ![l].status = "SENDING", ![l].attempts = @ + 1]
    /\ UNCHANGED <<Tables, locked, todo, retry, retries, crashes, mails>>

Drop(w, l) ==
    /\ queue[l] > 0
    /\ ~Claimable(l) \/ l \in locked
    /\ wk[w].pc = "idle"
    /\ queue' = [queue EXCEPT ![l] = @ - 1]
    /\ UNCHANGED <<Tables, delivery, locked, todo, wk, retry, retries, crashes, mails>>

(* The transport's answer; an error may come after the mail was accepted.  *)
Send(w) ==
    \E accepted, ok \in BOOLEAN :
        /\ ok => accepted
        /\ Step(w, "send", [wk[w] EXCEPT !.pc = IF ok THEN "sent" ELSE "failed",
                                         !.code = IF ok THEN None ELSE "SMTP"])
        /\ mails' = IF accepted THEN [mails EXCEPT ![wk[w].l] = @ + 1] ELSE mails
        /\ UNCHANGED <<Tables, delivery, queue, locked, todo, retry, retries, crashes>>

(* The result is written over the row, whatever it says by now.  The code  *)
(* was None when the worker read the row, so a success does not write it.  *)
PersistSent(w) ==
    /\ Step(w, "sent", Idle)
    /\ wk[w].l \notin locked
    /\ delivery' = [delivery EXCEPT ![wk[w].l].status = "SENT"]
    /\ UNCHANGED <<Tables, queue, locked, todo, retry, retries, crashes, mails>>

PersistFailed(w) ==
    /\ Step(w, "failed", Idle)
    /\ wk[w].l \notin locked
    /\ delivery' = [delivery EXCEPT ![wk[w].l].status = "FAILED",
                                    ![wk[w].l].code = wk[w].code]
    /\ UNCHANGED <<Tables, queue, locked, todo, retry, retries, crashes, mails>>

(* The mail cannot be rendered, or the commit of the result fails:         *)
(* _mark_failed writes FAILED instead.                                     *)
TaskRaises(w) ==
    /\ wk[w].pc \in {"send", "sent", "failed"}
    /\ wk[w].code # "EXCEPTION"
    /\ wk' = [wk EXCEPT ![w].pc = "failed", ![w].code = "EXCEPTION"]
    /\ UNCHANGED <<Tables, delivery, queue, locked, todo, retry, retries, crashes, mails>>

WorkerDies(w) ==
    /\ wk[w].pc # "idle" /\ crashes < MaxCrashes
    /\ wk' = [wk EXCEPT ![w] = Idle]
    /\ crashes' = crashes + 1
    /\ UNCHANGED <<Tables, delivery, queue, locked, todo, retry, retries, mails>>

-----------------------------------------------------------------------------
(* notification.dispatch_pending, notification.recover_stale_sending *)

(* Mutant: the sweep looks for rows that were never attempted. *)
SweepLocksNew ==
    /\ locked = {}
    /\ locked' = {l \in Letter : /\ Claimable(l) /\ queue[l] < MaxQueue
                                 /\ delivery[l].attempts = 0}
    /\ locked' # {}
    /\ todo' = locked'
    /\ UNCHANGED <<Tables, delivery, queue, wk, retry, retries, crashes, mails>>

(* The sweeper locks the old PENDING rows, enqueues each of them while it  *)
(* holds them all, and lets go when its session closes, or its process     *)
(* dies.                                                                   *)
SweepLocks ==
    /\ locked = {}
    /\ locked' = {l \in Letter : Claimable(l) /\ queue[l] < MaxQueue}
    /\ locked' # {}
    /\ todo' = locked'
    /\ UNCHANGED <<Tables, delivery, queue, wk, retry, retries, crashes, mails>>

SweepEnqueues(l) ==
    /\ l \in todo
    /\ todo' = todo \ {l}
    /\ queue' = [queue EXCEPT ![l] = @ + 1]
    /\ UNCHANGED <<Tables, delivery, locked, wk, retry, retries, crashes, mails>>

BrokerRefuses(l) ==
    /\ l \in todo
    /\ todo' = todo \ {l}
    /\ UNCHANGED <<Tables, delivery, queue, locked, wk, retry, retries, crashes, mails>>

(* Mutant: the rows are let go before all of them are enqueued. *)
SweepEndsEarly ==
    /\ locked # {}
    /\ locked' = {}
    /\ UNCHANGED <<Tables, delivery, queue, todo, wk, retry, retries, crashes, mails>>

SweepEnds ==
    /\ locked # {}
    /\ locked' = {}
    /\ todo' = {}
    /\ UNCHANGED <<Tables, delivery, queue, wk, retry, retries, crashes, mails>>

(* Mutant: a stale row is sent again instead. *)
StaleToPending(l) ==
    /\ HasStatus(l, "SENDING")
    /\ delivery' = [delivery EXCEPT ![l].status = "PENDING"]
    /\ UNCHANGED <<Tables, queue, locked, todo, wk, retry, retries, crashes, mails>>

(* last_attempt_at passed the threshold: the worker died, or is only slow. *)
RecoverStaleSending(l) ==
    /\ HasStatus(l, "SENDING")
    /\ delivery' = [delivery EXCEPT ![l].status = "FAILED", ![l].code = "STALE_SENDING"]
    /\ UNCHANGED <<Tables, queue, locked, todo, wk, retry, retries, crashes, mails>>

-----------------------------------------------------------------------------
(* POST .../email/retry *)

RetryRead(a, l) ==
    /\ retry[a] = None /\ retries[l] < MaxRetries
    /\ HasStatus(l, "FAILED")
    /\ retry' = [retry EXCEPT ![a] = l]
    /\ UNCHANGED <<Tables, delivery, queue, locked, todo, wk, retries, crashes, mails>>

(* The row was read without a lock and is written as PENDING over whatever *)
(* it has become; the broker may refuse the message.                       *)
RetryWrite(a) ==
    LET l == retry[a] IN
    /\ l # None
    /\ l \notin locked
    /\ delivery' = [delivery EXCEPT ![l].status = "PENDING", ![l].code = None]
    /\ \/ queue' = [queue EXCEPT ![l] = @ + 1]
       \/ UNCHANGED queue
    /\ retries' = [retries EXCEPT ![l] = @ + 1]
    /\ retry' = [retry EXCEPT ![a] = None]
    /\ UNCHANGED <<Tables, locked, todo, wk, crashes, mails>>

-----------------------------------------------------------------------------
Claims(l) == \E w \in Worker : Claim(w, l)

Next ==
    \/ \E u \in User : UpdatePreferences(u) \/ LeaveOrJoin(u)
    \/ \E l \in Letter :
          \/ CreateNotification(l) \/ DispatchAfterCommit(l) \/ MarkRead(l)
          \/ SweepEnqueues(l) \/ BrokerRefuses(l) \/ RecoverStaleSending(l)
          \/ \E w \in Worker : Claim(w, l) \/ Drop(w, l)
          \/ \E a \in Admin : RetryRead(a, l)
    \/ \E w \in Worker :
          Send(w) \/ PersistSent(w) \/ PersistFailed(w) \/ TaskRaises(w) \/ WorkerDies(w)
    \/ SweepLocks \/ SweepEnds
    \/ \E a \in Admin : RetryWrite(a)

(* Beat runs the sweeps and a worker that runs goes on.  Strong fairness   *)
(* is what a periodic sweep gives: the broker is up for some of them, and  *)
(* not every one of them loses the race between the end of its session and *)
(* the worker that takes its message.                                      *)
Fairness ==
    /\ WF_vars(SweepLocks)
    /\ WF_vars(SweepEnds)
    /\ \A l \in Letter :
          /\ SF_vars(SweepEnqueues(l))
          /\ SF_vars(queue[l] > 0 /\ SweepEnds)
          /\ SF_vars(Claims(l))
    /\ \A w \in Worker : WF_vars(Send(w)) /\ WF_vars(PersistSent(w) \/ PersistFailed(w))

Spec == Init /\ [][Next]_vars
FairSpec == Spec /\ Fairness

-----------------------------------------------------------------------------
(* Properties *)

TypeOK ==
    /\ member \in [User -> BOOLEAN]
    /\ pref \in [User -> SUBSET Switches]
    /\ note \in [Letter -> {"none", "unread"}]
    /\ delivery \in [Letter -> Delivery \cup {None}]
    /\ hook \subseteq Letter
    /\ queue \in [Letter -> Nat]
    /\ todo \subseteq locked /\ locked \subseteq Letter
    /\ wk \in [Worker -> [pc : {"idle", "send", "sent", "failed"},
                          l : Letter \cup {None}, code : Code]]
    /\ retry \in [Admin -> Letter \cup {None}]
    /\ retries \in [Letter -> Nat] /\ mails \in [Letter -> Nat]

(* Nothing but a manual retry sends an email again: not the sweeper, not a *)
(* message delivered twice, not a worker that died, not a stale recovery   *)
(* that races with a slow worker.                                          *)
NoAutomaticDuplicate == \A l \in Letter : mails[l] <= 1 + retries[l]

(* The outbox heals itself: a delivery whose message was lost, refused or  *)
(* dropped is found by a sweep and taken by a worker.                      *)
PendingIsTaken ==
    \A l \in Letter : HasStatus(l, "PENDING") ~> ~HasStatus(l, "PENDING")
=============================================================================
