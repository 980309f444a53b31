----------------------------- MODULE MCProgress -----------------------------
(***************************************************************************)
(* What must eventually happen in the components, on instances small       *)
(* enough for liveness.  The fairness of each component is restated for    *)
(* the behaviours that are its own.                                        *)
(***************************************************************************)
EXTENDS MCComponents

schedAll == Sched!vars
outboxAll == Outbox!vars
verifAll == Verif!vars

SchedFairness ==
    \A w \in Worker : WF_schedAll(part = "sched" /\ Sched!Sweep(w))

OutboxFairness ==
    /\ WF_outboxAll(part = "outbox" /\ Outbox!SweepLocks)
    /\ WF_outboxAll(part = "outbox" /\ Outbox!SweepEnds)
    /\ \A l \in Outbox!Letter :
          /\ SF_outboxAll(part = "outbox" /\ Outbox!SweepEnqueues(l))
          /\ SF_outboxAll(part = "outbox" /\ queue[l] > 0 /\ Outbox!SweepEnds)
          /\ SF_outboxAll(part = "outbox" /\ Outbox!Claims(l))
    /\ \A w \in Worker :
          /\ WF_outboxAll(part = "outbox" /\ Outbox!Send(w))
          /\ WF_outboxAll(part = "outbox" /\ (Outbox!PersistSent(w) \/ Outbox!PersistFailed(w)))

VerifFairness ==
    /\ \A r \in Requester : WF_verifAll(part = "verif" /\ Verif!RequestStep(r))
    /\ \A k \in Key : WF_verifAll(part = "verif" /\ Verif!HookStep(k))
    /\ \A j \in Verif!Judge : SF_verifAll(part = "verif" /\ Verif!JudgeStep(j))

FairSpec == Spec /\ SchedFairness /\ OutboxFairness /\ VerifFairness

-----------------------------------------------------------------------------
(* scheduled_scan_service.py: a due schedule is evaluated and moved on,    *)
(* whatever its plan, project, quota or broker say.                        *)
DueIsEvaluated ==
    \A s \in Schedule :
        (part = "sched" /\ Sched!Due(sched[s], clock))
        ~> (part = "sched" /\ ~Sched!Due(sched[s], clock))

(* notification_tasks.py:146: a delivery whose message was lost, refused   *)
(* or dropped is found by a sweep and taken by a worker.                   *)
PendingIsTaken ==
    \A l \in Outbox!Letter :
        (part = "outbox" /\ Outbox!HasStatus(l, "PENDING"))
        ~> (part = "outbox" /\ ~Outbox!HasStatus(l, "PENDING"))

(* scan_finalization_service.py:158: a verification whose scan ended is    *)
(* settled by the hook, unless the process that ran it was cut short, or   *)
(* a user repeated the analysis between its failure and the hook's second  *)
(* look at it.                                                             *)
PendingSettles ==
    \A k \in Key :
        (part = "verif" /\ Verif!Pending(k) /\ ~Verif!ScanActive(k))
        ~> (part = "verif" /\ (~Verif!Pending(k) \/ k \in lost))
=============================================================================
