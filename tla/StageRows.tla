----------------------------- MODULE StageRows -----------------------------
(***************************************************************************)
(* The fields of one row of the stage_rows table and what a status change  *)
(* does to them: StageService.transition, record_result and create_rows    *)
(* of app/services/stage.py, as operators on a row record.                 *)
(*                                                                         *)
(* Left abstract: an attempt id is a number, 0 standing for None (only     *)
(* equality matters); a timestamp is the value of a clock, 0 standing for  *)
(* None; the list of artifacts is the set of what the row holds, the empty *)
(* list being {}; a failure is its code.                                   *)
(***************************************************************************)
EXTENDS Naturals, StageMachine

NoAttempt == 0
Unset     == 0

NoError == "none"
GENERATION_FAILED == "generation_failed"
QUEUE_UNAVAILABLE == "queue_unavailable"
CANCELED_BY_USER  == "canceled_by_user"
STUCK_TIMEOUT     == "stuck_timeout"

FailureCode == {GENERATION_FAILED, QUEUE_UNAVAILABLE, CANCELED_BY_USER, STUCK_TIMEOUT}

\* No report, a report without error-level violations, a report with some.
NoReport   == "no_report"
Clean      == "clean"
Violations == "violations"

Report == {NoReport, Clean, Violations}

StageRow(Attempts, Contents) ==
    [status      : StageStatus,
     attempt     : Attempts,
     artifacts   : SUBSET Contents,
     consistency : Report,
     error       : FailureCode \cup {NoError},
     started     : Nat,
     finished    : Nat,
     approved    : Nat,
     retry       : Nat]

\* A row as create_rows inserts it.
NewRow ==
    [status |-> PENDING, attempt |-> NoAttempt, artifacts |-> {}, consistency |-> NoReport,
     error |-> NoError, started |-> Unset, finished |-> Unset, approved |-> Unset, retry |-> 0]

(***************************************************************************)
(* The keyword arguments of transition, `failure` being NoError for None.  *)
(***************************************************************************)
Options == [approved : BOOLEAN, failure : FailureCode \cup {NoError},
            increment_retry : BOOLEAN, reset_retry : BOOLEAN]

\* The calls the orchestrator makes leave retry_count alone.
Call(approved, failure) == [approved |-> approved, failure |-> failure,
                            increment_retry |-> FALSE, reset_retry |-> FALSE]

Plain             == Call(FALSE, NoError)
Approving         == Call(TRUE, NoError)
FailingWith(code) == Call(FALSE, code)

\* transition returns instead of raising InvalidStageTransition or ValueError.
Accepted(row, target, opt) ==
    /\ is_valid_transition(row.status, target)
    /\ ~(opt.increment_retry /\ opt.reset_retry)
    /\ target = ERROR => opt.failure # NoError
    /\ opt.approved => target = DONE
    /\ opt.increment_retry \/ opt.reset_retry => target = RUNNING

\* Statuses that take a row back to before its attempt (_clear_attempt_fields),
\* and statuses in which the attempt has come to an end.
Restarting == {RUNNING, PENDING}
Settled    == {AWAITING_DECISION, DONE, ERROR}

\* Mutant of ArtifactsAfter: a reset leaves the artifacts.
ArtifactsKept(row, target) == row.artifacts

ArtifactsAfter(row, target) == IF target = PENDING THEN {} ELSE row.artifacts

\* Mutant of FinishedAt: a restart leaves the end of the attempt before.
FinishedAtKept(row, target, now) == IF target \in Settled THEN now ELSE row.finished

FinishedAt(row, target, now) ==
    CASE target \in Settled    -> now
      [] target \in Restarting -> Unset
      [] OTHER                 -> row.finished

\* Mutants of RetryCount: reset_retry takes one back, a reset forgets the retries.
RetryCountLowered(row, target, opt) ==
    CASE opt.increment_retry -> row.retry + 1
      [] opt.reset_retry     -> row.retry - 1
      [] OTHER               -> row.retry

RetryCountForgotten(row, target, opt) ==
    CASE opt.increment_retry                    -> row.retry + 1
      [] opt.reset_retry \/ target = PENDING    -> 0
      [] OTHER                                  -> row.retry

RetryCount(row, target, opt) ==
    CASE opt.increment_retry -> row.retry + 1
      [] opt.reset_retry     -> 0
      [] OTHER               -> row.retry

ApprovedAt(row, target, opt, later) ==
    CASE opt.approved         -> later
      [] target \in Restarting -> Unset
      [] OTHER                -> row.approved

\* The row transition leaves behind; `fresh` is the new attempt id it would issue, `now`
\* the clock it reads for the start or the end and `later` what it reads for the approval.
Transition(row, target, opt, fresh, now, later) ==
    [status      |-> target,
     attempt     |-> CASE target = RUNNING -> fresh
                       [] target = PENDING -> NoAttempt
                       [] OTHER            -> row.attempt,
     artifacts   |-> ArtifactsAfter(row, target),
     consistency |-> IF target = PENDING THEN NoReport ELSE row.consistency,
     error       |-> CASE target \in Restarting -> NoError
                       [] target = ERROR       -> opt.failure
                       [] OTHER                -> row.error,
     started     |-> CASE target = RUNNING -> now
                       [] target = PENDING -> Unset
                       [] OTHER            -> row.started,
     finished    |-> FinishedAt(row, target, now),
     approved    |-> ApprovedAt(row, target, opt, later),
     retry       |-> RetryCount(row, target, opt)]

\* record_result: the whole artifact set and the report are replaced.
RecordResult(row, contents, report) ==
    [row EXCEPT !.artifacts = contents, !.consistency = report]

=============================================================================
