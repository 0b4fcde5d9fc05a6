-------------------------- MODULE StageRowsProofs --------------------------
(***************************************************************************)
(* What a status change does to a row, as lemmas about Transition, for the *)
(* proofs about the modules that use it.                                   *)
(***************************************************************************)
EXTENDS StageRows, TLAPS

\* A transition keeps the type of a row (StageService.transition).
LEMMA TransitionType ==
    ASSUME NEW Attempts, NEW Contents, NoAttempt \in Attempts,
           NEW r \in StageRow(Attempts, Contents), NEW target \in StageStatus,
           NEW opt \in Options, NEW fresh \in Attempts,
           NEW now \in Nat, NEW later \in Nat,
           target = ERROR => opt.failure # NoError
    PROVE  Transition(r, target, opt, fresh, now, later) \in StageRow(Attempts, Contents)
<1>1. CASE target = RUNNING
    BY <1>1 DEF Transition, ArtifactsAfter, FinishedAt, ApprovedAt, RetryCount, Restarting, Settled,
       StageRow, Options, Report, StageStatus, NoError, Unset,
       PENDING, RUNNING, CONSISTENCY_CHECK, AWAITING_DECISION, NEEDS_RETRY, DONE, ERROR
<1>2. CASE target = PENDING
    BY <1>2 DEF Transition, ArtifactsAfter, FinishedAt, ApprovedAt, RetryCount, Restarting, Settled,
       StageRow, Options, Report, StageStatus, NoError, Unset, NoReport,
       PENDING, RUNNING, CONSISTENCY_CHECK, AWAITING_DECISION, NEEDS_RETRY, DONE, ERROR
<1>3. CASE target \notin {RUNNING, PENDING}
    BY <1>3 DEF Transition, ArtifactsAfter, FinishedAt, ApprovedAt, RetryCount, Restarting, Settled,
       StageRow, Options, Report, StageStatus, NoError, Unset,
       PENDING, RUNNING, CONSISTENCY_CHECK, AWAITING_DECISION, NEEDS_RETRY, DONE, ERROR
<1>4. QED BY <1>1, <1>2, <1>3

=============================================================================
