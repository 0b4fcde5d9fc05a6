---------------------------- MODULE StageService ----------------------------
(***************************************************************************)
(* StageService of app/services/stage.py as a component of its own: the    *)
(* rows of one project under any sequence of calls its callers may make,   *)
(* legal or refused.  GenerationOrchestrator is one such caller and makes  *)
(* only some of these calls; what holds here holds for every caller.       *)
(*                                                                         *)
(* The service never commits, so a step is what the caller's transaction   *)
(* has made of the rows once a call has returned.  A call that raises      *)
(* leaves them as they were: transition checks before it writes, and the   *)
(* caller of reset_from rolls back.                                        *)
(***************************************************************************)
EXTENDS FiniteSets, StageRows

CONSTANTS
    Rows,         \* ids of the rows that can be created
    Dependents,   \* Dependents[r]: the rows that draw from r, directly or not
    Contents,     \* what a row can hold
    Failures,     \* the failure codes the callers pass
    Reports,      \* the consistency reports the callers pass
    MaxAttempts,  \* bound: attempts issued to one row
    MaxRetries,   \* bound: retry_count
    MaxTime       \* bound: the clock

ASSUME StageServiceAssumption ==
    /\ Dependents \in [Rows -> SUBSET Rows]
    /\ \A r \in Rows : r \notin Dependents[r]
    /\ Failures \subseteq FailureCode
    /\ Reports \subseteq Report
    /\ {MaxAttempts, MaxRetries, MaxTime} \subseteq Nat \ {0}

VARIABLES
    exists,  \* ids of the rows in the table
    row,     \* their fields
    issued,  \* attempt ids issued to each row so far
    now      \* utcnow()

vars == <<exists, row, issued, now>>

Attempts == 0..MaxAttempts

\* The columns keep their types; retry is a count (chk_stage_rows_retry_count_non_negative).
TypeOK ==
    /\ exists \subseteq Rows
    /\ row \in [Rows -> StageRow(Attempts, Contents)]
    /\ issued \in [Rows -> Attempts]
    /\ now \in 1..MaxTime

Init ==
    /\ exists = {}
    /\ row = [r \in Rows |-> NewRow]
    /\ issued = [r \in Rows |-> 0]
    /\ now = 1

-----------------------------------------------------------------------------

create_rows(specs) ==
    /\ specs # {}
    /\ specs \cap exists = {}
    /\ exists' = exists \cup specs
    /\ UNCHANGED <<row, issued, now>>

\* The clock goes on between the two readings of it, of which the second is for an approval.
transition(r, target, opt, later) ==
    /\ r \in exists
    /\ opt.failure \in Failures \cup {NoError}
    /\ Accepted(row[r], target, opt)
    /\ target = RUNNING => issued[r] < MaxAttempts
    /\ opt.increment_retry => row[r].retry < MaxRetries
    /\ row' = [row EXCEPT ![r] = Transition(@, target, opt, issued[r] + 1, now, later)]
    /\ issued' = IF target = RUNNING THEN [issued EXCEPT ![r] = @ + 1] ELSE issued
    /\ now <= later /\ (~opt.approved => later = now)
    /\ now' = later
    /\ UNCHANGED exists

\* The rows reset_from(r) finds not pending yet.
ToReset(r) == {x \in exists \cap ({r} \cup Dependents[r]) : row[x].status # PENDING}

reset_from(r) ==
    /\ r \in exists
    /\ \A x \in ToReset(r) : Accepted(row[x], PENDING, Plain)
    /\ row' = [x \in Rows |-> IF x \in ToReset(r)
                              THEN Transition(row[x], PENDING, Plain, NoAttempt, now, now)
                              ELSE row[x]]
    /\ UNCHANGED <<exists, issued, now>>

record_result(r, contents, report) ==
    /\ r \in exists
    /\ row' = [row EXCEPT ![r] = RecordResult(@, contents, report)]
    /\ UNCHANGED <<exists, issued, now>>

Tick == now < MaxTime /\ now' = now + 1 /\ UNCHANGED <<exists, row, issued>>

Next ==
    \/ \E specs \in SUBSET Rows : create_rows(specs)
    \/ \E r \in Rows, target \in StageStatus, opt \in Options, later \in 1..MaxTime :
          transition(r, target, opt, later)
    \/ \E r \in Rows : reset_from(r)
    \/ \E r \in Rows, contents \in SUBSET Contents, report \in Reports :
          record_result(r, contents, report)
    \/ Tick

Spec == Init /\ [][Next]_vars

-----------------------------------------------------------------------------

(***************************************************************************)
(* However the calls are ordered, the fields a client reads beside the     *)
(* status agree with it: a row has an attempt exactly when it is not       *)
(* pending, an error exactly when it is in ERROR, an approval only when it *)
(* is DONE, and its timestamps are those of the current attempt, in order: *)
(* start, end, approval.  The clearing of fields is spread over the        *)
(* branches of transition, and what it dates it dates at different times.  *)
(***************************************************************************)
AttemptMatchesStatus(r) == row[r].attempt = NoAttempt <=> row[r].status = PENDING

ErrorMatchesStatus(r) == row[r].error # NoError <=> row[r].status = ERROR

TimesMatchStatus(r) ==
    /\ row[r].started = Unset <=> row[r].status = PENDING
    /\ row[r].finished # Unset <=> row[r].status \in {AWAITING_DECISION, DONE, ERROR}
    /\ row[r].finished # Unset => row[r].started <= row[r].finished
    /\ row[r].approved # Unset => row[r].status = DONE /\ row[r].finished <= row[r].approved

FieldsAgreeWithStatus ==
    \A r \in Rows : AttemptMatchesStatus(r) /\ ErrorMatchesStatus(r) /\ TimesMatchStatus(r)

(***************************************************************************)
(* retry_count survives everything but an explicit request on a start:     *)
(* resetting a row to pending, reset_from over its dependents and storing  *)
(* a result keep it (docstrings of transition and reset_from).             *)
(***************************************************************************)
RetriesCountedOnStartsOnly ==
    [][\A r \in Rows :
          row'[r].retry # row[r].retry => issued'[r] = issued[r] + 1]_vars

=============================================================================
