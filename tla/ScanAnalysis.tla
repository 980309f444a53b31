---------------------------- MODULE ScanAnalysis ----------------------------
(***************************************************************************)
(* The analysis of one scan by several sessions at once: the hook of the   *)
(* scan's finalization, recovery's, and requests of the analysis endpoint  *)
(* (app/services/scan_analysis_service.py).                                *)
(*                                                                         *)
(* The row is unique per scan and version.  A session works on it in one   *)
(* transaction, so PENDING and RUNNING are never committed; until then the *)
(* row is held by a row lock, or by the unique index if it is being        *)
(* inserted.  Evidence (mentions, source attributions) is kept by the pass *)
(* that found it; what a pass finds is the matter of Detection.            *)
(***************************************************************************)
EXTENDS Naturals

CONSTANTS Analyst, MaxPasses, None

(* What the constants are; a module that instantiates this one assumes it.*)
AnalysisAssumption == None \notin Analyst \cup {"FAILED", "COMPLETED"}

VARIABLES
    terminal,   \* is the scan COMPLETED or PARTIAL with a successful run
    row,        \* scan_analyses: None, "FAILED" or "COMPLETED"
    evidence,   \* the passes whose evidence is in the tables
    holder,     \* the analyst whose transaction holds the row
    an,         \* what each analyst does
    passes      \* how many calls of analyze were made

vars == <<terminal, row, evidence, holder, an, passes>>

Init ==
    /\ terminal = FALSE
    /\ row = None
    /\ evidence = {}
    /\ holder = None
    /\ an = [a \in Analyst |-> "idle"]
    /\ passes = 0

Go(a, from, to) == an[a] = from /\ an' = [an EXCEPT ![a] = to]

ScanEnds == terminal' = TRUE /\ UNCHANGED <<row, evidence, holder, an, passes>>

(* A scan that is not eligible is a failed attempt, too. *)
Analyze(a) ==
    /\ passes < MaxPasses
    /\ Go(a, "idle", IF terminal THEN "lock" ELSE "mark")
    /\ passes' = passes + 1
    /\ UNCHANGED <<terminal, row, evidence, holder>>

(* get_for_update: it waits for a row that exists, and sees none while it  *)
(* is being inserted.  A completed analysis is returned as it is.          *)
LockRow(a) ==
    /\ \/ row = None /\ Go(a, "lock", "insert") /\ UNCHANGED holder
       \/ row = "COMPLETED" /\ Go(a, "lock", "idle") /\ UNCHANGED holder
       \/ row = "FAILED" /\ holder = None /\ Go(a, "lock", "run") /\ holder' = a
    /\ UNCHANGED <<terminal, row, evidence, passes>>

(* The insert waits for another one's transaction; if that committed, the  *)
(* loser returns what it finds.                                            *)
InsertRow(a) ==
    /\ holder = None
    /\ \/ row = None /\ Go(a, "insert", "run") /\ holder' = a
       \/ row # None /\ Go(a, "insert", "idle") /\ UNCHANGED holder
    /\ UNCHANGED <<terminal, row, evidence, passes>>

(* Old evidence is deleted, new evidence inserted, and all of it committed *)
(* with the status.                                                        *)
Complete(a) ==
    /\ Go(a, "run", "idle")
    /\ row' = "COMPLETED"
    /\ evidence' = {a}
    /\ holder' = None
    /\ UNCHANGED <<terminal, passes>>

(* A scan without entity snapshots: FAILED, without an exception. *)
NoSnapshots(a) ==
    /\ Go(a, "run", "idle")
    /\ row' = "FAILED"
    /\ evidence' = {}
    /\ holder' = None
    /\ UNCHANGED <<terminal, passes>>

(* Anything raises: rollback, and _mark_failed in a session of its own. *)
Raise(a) ==
    /\ Go(a, "run", "mark")
    /\ holder' = None
    /\ UNCHANGED <<terminal, row, evidence, passes>>

(* Mutant: what another analyst completed is marked, too. *)
MarkAny(a) ==
    /\ holder = None
    /\ IF row = None THEN Go(a, "mark", "mark_insert") /\ UNCHANGED row
       ELSE Go(a, "mark", "idle") /\ row' = "FAILED"
    /\ UNCHANGED <<terminal, evidence, holder, passes>>

MarkFailed(a) ==
    /\ \/ row = None /\ Go(a, "mark", "mark_insert") /\ UNCHANGED row
       \/ row # None /\ holder = None /\ Go(a, "mark", "idle")
          /\ row' = IF row = "COMPLETED" THEN row ELSE "FAILED"
    /\ UNCHANGED <<terminal, evidence, holder, passes>>

(* The insert of a FAILED row waits as InsertRow does; the row it loses to *)
(* is COMPLETED or FAILED, and stays.                                      *)
MarkInserts(a) ==
    /\ holder = None
    /\ Go(a, "mark_insert", "idle")
    /\ row' = IF row = None THEN "FAILED" ELSE row
    /\ UNCHANGED <<terminal, evidence, holder, passes>>

(* The process dies; its open transaction is rolled back. *)
Die(a) ==
    /\ an[a] # "idle"
    /\ an' = [an EXCEPT ![a] = "idle"]
    /\ holder' = IF holder = a THEN None ELSE holder
    /\ UNCHANGED <<terminal, row, evidence, passes>>

Next ==
    \/ ScanEnds
    \/ \E a \in Analyst :
          \/ Analyze(a) \/ LockRow(a) \/ InsertRow(a) \/ Complete(a) \/ NoSnapshots(a)
          \/ Raise(a) \/ MarkFailed(a) \/ MarkInserts(a) \/ Die(a)

Spec == Init /\ [][Next]_vars

-----------------------------------------------------------------------------
(* Properties *)

TypeOK ==
    /\ row \in {None, "FAILED", "COMPLETED"}
    /\ evidence \subseteq Analyst
    /\ holder \in Analyst \cup {None}
    /\ an \in [Analyst -> {"idle", "lock", "insert", "run", "mark", "mark_insert"}]

(* A completed analysis has the evidence of exactly one pass, and no retry,*)
(* no failure of another session and no late mark takes either away.       *)
KeepsCompleted ==
    row = "COMPLETED" =>
        /\ row' = "COMPLETED"
        /\ evidence' = evidence
        /\ \E a \in Analyst : evidence = {a}

CompletedAnalysisIsFinal == [][KeepsCompleted]_vars
=============================================================================
