------------------------------ MODULE Pipeline ------------------------------
(***************************************************************************)
(* The pipeline of one project: GenerationOrchestrator                     *)
(* (app/services/orchestrator.py) over the rows StageService owns, the     *)
(* queue to the ml worker, the worker's snapshot reads and the hook its    *)
(* results come back through.                                              *)
(*                                                                         *)
(* Every operation of the orchestrator is one transaction under the lock   *)
(* of the project row and is one action here, together with everything it  *)
(* calls: expand_rows and create_rows (growth), _advance (starts).  What   *)
(* happens after its commit is interleaved with everything else: the       *)
(* messages to send stay in `outbox` until they are enqueued, refused by   *)
(* the queue (with the compensating transaction), or lost with the         *)
(* process.  The queue delivers at least once, in any order, and the hook  *)
(* may be called any number of times with any result of any attempt.       *)
(*                                                                         *)
(* Which rows expand_rows may ever create, with which refs, is a           *)
(* parameter: Rows is the set of all potential rows of the project.  What  *)
(* the planner asks for once a row is DONE depends on the content of its   *)
(* artifacts (segments of the brief, groups of the patterns), abstracted   *)
(* to `plan`, the set of potential rows it calls for.  The planner takes   *)
(* two potential rows for the same one when stage, parent and index agree  *)
(* (`have`, `with_ref`, `of_stage`): such rows have the same Slot.         *)
(*                                                                         *)
(* Left out: events (PubSub), the project title, the clock (any RUNNING    *)
(* row may be found stuck).  team_info rows do not exist, and rows of an   *)
(* optional stage that is not enabled are never created.                   *)
(***************************************************************************)
EXTENDS FiniteSets, StageRows

CONSTANTS
    Rows,        \* ids of all rows the project may ever have
    Refs,        \* Refs[r]: the rows r draws its input from
    Dependents,  \* Dependents[r]: dependent_rows, the rows that draw from r at any distance
    Initial,     \* what initial_rows returns
    Plans,       \* Plans[r]: the sets of rows the content of a result of r can call for
    Names,       \* Names[x]: the empathy_map rows a group has to name for x to be asked for
    Slot,        \* Slot[x]: the stage, parent and index expand_rows knows x by
    MaxAttempts  \* bound: attempts issued to one row

ASSUME GraphAssumption ==
    /\ Refs \in [Rows -> SUBSET Rows]
    /\ Dependents \in [Rows -> SUBSET Rows]
    /\ \A r \in Rows : r \notin Dependents[r]
    /\ \A r, x \in Rows :
          x \in Dependents[r] <=> r \in Refs[x] \/ Refs[x] \cap Dependents[r] # {}

ASSUME PlanAssumption ==
    /\ Initial \subseteq Rows
    /\ Plans \in [Rows -> SUBSET SUBSET Rows]
    /\ Names \in [Rows -> SUBSET Rows]
    /\ DOMAIN Slot = Rows
    /\ \A x, y \in Initial : Slot[x] = Slot[y] => x = y
    /\ \A r \in Rows : \A plan \in Plans[r] : \A x, y \in plan : Slot[x] = Slot[y] => x = y

ASSUME BoundAssumption == MaxAttempts \in Nat \ {0}

VARIABLES
    autoApprove,  \* project.auto_approve, fixed when the project is created
    exists,       \* ids of the rows in the table
    row,          \* the rows' fields
    issued,       \* attempt ids issued to each row so far
    outbox,       \* committed messages that are still to be enqueued
    queue,        \* messages the queue has accepted
    seen          \* snapshots the worker has read, each for one message

vars == <<autoApprove, exists, row, issued, outbox, queue, seen>>

Attempts == 0..MaxAttempts
Now      == 1  \* the clock is not modelled: a timestamp is Unset or Now, whenever it is read

\* A QueueMessage, with its single target.
Message == [row : Rows, attempt : Attempts \ {NoAttempt}]

\* Which attempts of its refs a snapshot of row r shows as DONE.
Basis(r) == [Refs[r] -> Attempts]

\* What the artifacts of a result call for, and the inputs they were made from.
Content == [plan : SUBSET Rows, basis : UNION {Basis(r) : r \in Rows}]

Snapshot == [row : Rows, attempt : Attempts \ {NoAttempt}, basis : UNION {Basis(r) : r \in Rows}]

\* The columns of the rows and the messages keep their types, and no row is started
\* more often than there are attempts: starts happen on PENDING rows only (_advance).
TypeOK ==
    /\ autoApprove \in BOOLEAN
    /\ exists \subseteq Rows
    /\ row \in [Rows -> StageRow(Attempts, Content)]
    /\ issued \in [Rows -> Attempts]
    /\ outbox \subseteq Message
    /\ queue \subseteq Message
    /\ seen \subseteq Snapshot

Init ==
    /\ autoApprove \in BOOLEAN
    /\ exists = {}
    /\ row = [r \in Rows |-> NewRow]
    /\ issued = [r \in Rows |-> 0]
    /\ outbox = {}
    /\ queue = {}
    /\ seen = {}

-----------------------------------------------------------------------------
(***************************************************************************)
(* The parts the operations are made of.  R is the rows as the transaction *)
(* has changed them so far, E the ids of those that exist.                 *)
(***************************************************************************)

\* Mutants of Current: a result or refusal of an earlier attempt counts, a
\* repeated result counts.
CurrentInAnyAttempt(m) == m.row \in exists /\ row[m.row].status = RUNNING

CurrentInAnyStatus(m) == m.row \in exists /\ row[m.row].attempt = m.attempt

\* A repeated or late result changes nothing (200 duplicate, 409 stale).
Current(m) ==
    /\ m.row \in exists
    /\ row[m.row].status = RUNNING
    /\ row[m.row].attempt = m.attempt

Holds(y, R) == R[y].artifacts # {}

\* Mutant of Valid: the maps a group names are not looked up.
ValidUnchecked(plan) == plan \subseteq Rows

\* result_problems finds nothing: every map a group names is held by a row.
Valid(plan) == \A x \in plan : \A y \in Names[x] : Holds(y, row)

\* expand_rows: what the artifacts of DONE rows call for, and of that what is not there.
Wanted(E, R) ==
    UNION {content.plan : content \in UNION {R[r].artifacts : r \in {x \in E : R[x].status = DONE}}}

\* Mutant of Missing: rows are told apart by id only.
MissingById(E, R) == Wanted(E, R) \ E

Missing(E, R) == {x \in Wanted(E, R) : \A y \in E : Slot[y] # Slot[x]}

\* expand_rows does not raise: the maps a missing row is built from are held.
Expandable(E, R) == \A x \in Missing(E, R) : \A y \in Names[x] : Holds(y, R)

\* ready_rows
Ready(E, R) == {x \in E : R[x].status = PENDING /\ \A y \in Refs[x] : R[y].status = DONE}

\* The rows of S start, each with a message to send after the commit.
StartAndCommit(E, R, S) ==
    /\ exists' = E
    /\ row' = [x \in Rows |-> IF x \in S
                              THEN Transition(R[x], RUNNING, Plain, issued[x] + 1, Now, Now)
                              ELSE R[x]]
    /\ issued' = [x \in Rows |-> IF x \in S THEN issued[x] + 1 ELSE issued[x]]
    /\ outbox' = outbox \cup {[row |-> x, attempt |-> issued[x] + 1] : x \in S}
    /\ UNCHANGED <<autoApprove, queue, seen>>

\* Mutant of AdvanceAndCommit: rows that are running already start again.
AdvanceRunningToo(E, R) ==
    StartAndCommit(E, R, Ready(E, R) \cup {x \in E : R[x].status = RUNNING})

\* _advance: every ready row starts.
AdvanceAndCommit(E, R) == StartAndCommit(E, R, Ready(E, R))

\* _grow_and_advance
GrowAndAdvance(R) ==
    /\ Expandable(exists, R)
    /\ AdvanceAndCommit(exists \cup Missing(exists, R), R)

\* Every row of S moves to ERROR, in one transaction of its own.
MoveToError(S, code) ==
    /\ \A r \in S : Accepted(row[r], ERROR, FailingWith(code))
    /\ row' = [r \in Rows |-> IF r \in S
                              THEN Transition(row[r], ERROR, FailingWith(code), NoAttempt, Now, Now)
                              ELSE row[r]]
    /\ UNCHANGED <<autoApprove, exists, issued, seen>>

\* The statuses of success_path, one after the other.
WalkSuccess(stored) ==
    LET move(r, target, opt) == Transition(r, target, opt, NoAttempt, Now, Now)
        checked == move(stored, CONSISTENCY_CHECK, Plain)
        awaits  == move(checked, AWAITING_DECISION, Plain)
    IN  IF stored.consistency # Violations THEN move(checked, DONE, Plain)
        ELSE IF autoApprove THEN move(awaits, DONE, Approving)
        ELSE awaits

-----------------------------------------------------------------------------
(***************************************************************************)
(* The operations.                                                         *)
(***************************************************************************)

\* A project is created once; its first rows and their starts come with it.
start ==
    /\ exists = {}
    /\ AdvanceAndCommit(Initial, row)

\* The hook, with a failed result of message m: the worker may have seen anything.
apply_failed(m) ==
    /\ Current(m)
    /\ MoveToError({m.row}, GENERATION_FAILED)
    /\ UNCHANGED <<outbox, queue>>

\* The hook, with artifacts made from the snapshot s.
apply_success(s, plan, report) ==
    /\ Current(s)
    /\ Valid(plan)
    /\ LET content == [plan |-> plan, basis |-> s.basis]
           stored  == RecordResult(row[s.row], {content}, report)
       IN  GrowAndAdvance([row EXCEPT ![s.row] = WalkSuccess(stored)])

advance ==
    /\ exists # {}
    /\ AdvanceAndCommit(exists, row)

\* Mutants of ToReset: dependents stay as they are, pending rows are reset as well.
ResetRowOnly(r) == {x \in exists \cap {r} : row[x].status # PENDING}

ResetPendingToo(r) == exists \cap ({r} \cup Dependents[r])

\* reset_from: the row and its dependents that are not pending yet.
ToReset(r) == {x \in exists \cap ({r} \cup Dependents[r]) : row[x].status # PENDING}

regenerate(r) ==
    /\ r \in exists
    /\ row[r].status \in RegenerateOffered
    /\ \A x \in ToReset(r) : Accepted(row[x], PENDING, Plain) /\ issued[x] < MaxAttempts
    /\ AdvanceAndCommit(exists,
          [x \in Rows |-> IF x \in ToReset(r)
                          THEN Transition(row[x], PENDING, Plain, NoAttempt, Now, Now)
                          ELSE row[x]])

\* Mutant of approve: nothing is created and nothing started.
ApproveOnly(r) ==
    /\ r \in exists
    /\ row[r].status \in ApproveOffered
    /\ row' = [row EXCEPT ![r] = Transition(@, DONE, Approving, NoAttempt, Now, Now)]
    /\ UNCHANGED <<autoApprove, exists, issued, outbox, queue, seen>>

approve(r) ==
    /\ r \in exists
    /\ row[r].status \in ApproveOffered
    /\ GrowAndAdvance([row EXCEPT ![r] = Transition(@, DONE, Approving, NoAttempt, Now, Now)])

fail(r) ==
    /\ r \in exists
    /\ MoveToError({r}, GENERATION_FAILED)
    /\ UNCHANGED <<outbox, queue>>

cancel ==
    LET active == {r \in exists : row[r].status \in {RUNNING, CONSISTENCY_CHECK}}
    IN  /\ active # {}
        /\ MoveToError(active, CANCELED_BY_USER)
        /\ UNCHANGED <<outbox, queue>>

\* Which of the running rows have outlived the timeout is left open.
expire_stuck(stuck) ==
    /\ stuck # {}
    /\ MoveToError(stuck, STUCK_TIMEOUT)
    /\ UNCHANGED <<outbox, queue>>

-----------------------------------------------------------------------------
(***************************************************************************)
(* After the commit: dispatch, the queue and the worker.                   *)
(***************************************************************************)

enqueue(m) ==
    /\ m \in outbox
    /\ outbox' = outbox \ {m}
    /\ queue' = queue \cup {m}
    /\ UNCHANGED <<autoApprove, exists, row, issued, seen>>

\* The queue accepts the message and enqueue has not returned: it may still raise.
accept(m) ==
    /\ m \in outbox
    /\ queue' = queue \cup {m}
    /\ UNCHANGED <<autoApprove, exists, row, issued, outbox, seen>>

\* enqueue raises; the row is moved to ERROR if this attempt is still the one running.
enqueue_raises(m) ==
    /\ m \in outbox
    /\ outbox' = outbox \ {m}
    /\ MoveToError(IF Current(m) THEN {m.row} ELSE {}, QUEUE_UNAVAILABLE)
    /\ UNCHANGED queue

\* The process dies between the commit and the sends that are left.
lose_messages(lost) ==
    /\ outbox' = outbox \ lost
    /\ UNCHANGED <<autoApprove, exists, row, issued, queue, seen>>

\* get_snapshot: the worker reads the rows m's row draws from, whenever it comes to it.
get_snapshot(m) ==
    LET done(y) == IF row[y].status = DONE THEN row[y].attempt ELSE NoAttempt
    IN  /\ m \in queue
        /\ seen' = seen \cup {[row |-> m.row, attempt |-> m.attempt,
                               basis |-> [y \in Refs[m.row] |-> done(y)]]}
        /\ UNCHANGED <<autoApprove, exists, row, issued, outbox, queue>>

Next ==
    \/ start
    \/ \E m \in queue : apply_failed(m)
    \/ \E s \in seen : \E plan \in Plans[s.row], report \in {Clean, Violations} :
          apply_success(s, plan, report)
    \/ advance
    \/ \E r \in Rows : regenerate(r) \/ approve(r) \/ fail(r)
    \/ cancel
    \/ \E stuck \in SUBSET {r \in exists : row[r].status = RUNNING} : expire_stuck(stuck)
    \/ \E m \in outbox : enqueue(m) \/ accept(m) \/ enqueue_raises(m)
    \/ \E lost \in SUBSET outbox : lose_messages(lost)
    \/ \E m \in queue : get_snapshot(m)

Spec == Init /\ [][Next]_vars

-----------------------------------------------------------------------------
(***************************************************************************)
(* A row leaves PENDING only on finished inputs, and stays out of it only  *)
(* as long as they are: whatever runs, waits for a decision, failed or is  *)
(* done draws from rows that are all DONE.  regenerate, a late hook, a     *)
(* refused message and the watchdog meet in any order.                     *)
(***************************************************************************)
Grounded ==
    \A r \in Rows : row[r].status # PENDING => \A y \in Refs[r] : row[y].status = DONE

(***************************************************************************)
(* What a row holds was made from what the rows it draws from hold now:    *)
(* from the artifacts of their current attempts, never from ones that a    *)
(* regeneration has replaced since the worker read its snapshot.           *)
(***************************************************************************)
MadeFromCurrentInputs ==
    \A r \in Rows : \A content \in row[r].artifacts :
        content.basis = [y \in Refs[r] |-> row[y].attempt]

(***************************************************************************)
(* No operation leaves a row behind that could have started: between       *)
(* transactions nothing is ready, so no row waits for an event that has    *)
(* already happened.                                                       *)
(***************************************************************************)
NothingReadyIsLeft == Ready(exists, row) = {}

(***************************************************************************)
(* A row shows artifacts exactly while they are its current output: when   *)
(* it awaits a decision or is DONE.  A row that waits, runs or failed      *)
(* holds nothing of an earlier attempt, so neither a snapshot nor a client *)
(* can take old artifacts for new ones.                                    *)
(***************************************************************************)
HoldsOnlyWhatItFinished ==
    \A r \in Rows : Holds(r, row) <=> row[r].status \in {AWAITING_DECISION, DONE}

(***************************************************************************)
(* expand_rows creates no row twice, however often rows become DONE again  *)
(* and whatever their new content calls for.                               *)
(***************************************************************************)
RowsCreatedOnce ==
    \A x, y \in exists : Slot[x] = Slot[y] => x = y

(***************************************************************************)
(* A result that result_problems accepts can be expanded: the hook never   *)
(* fails on one, whatever its groups name and whatever the other DONE rows *)
(* still call for.                                                         *)
(***************************************************************************)
AcceptedResultsExpand ==
    \A s \in seen : \A plan \in Plans[s.row], report \in {Clean, Violations} :
        LET content == [plan |-> plan, basis |-> s.basis]
            stored  == RecordResult(row[s.row], {content}, report)
        IN  Current(s) /\ Valid(plan) =>
                Expandable(exists, [row EXCEPT ![s.row] = WalkSuccess(stored)])

(***************************************************************************)
(* Where regenerate is offered it goes through: every dependent row can go *)
(* back to pending from whatever status it has by then.  The refusal       *)
(* regenerate documents (InvalidStageTransition) does not happen.          *)
(***************************************************************************)
RegenerateGoesThrough ==
    \A r \in exists : row[r].status \in RegenerateOffered =>
        \A x \in ToReset(r) : Accepted(row[x], PENDING, Plain)

(***************************************************************************)
(* approve goes through as well: expand_rows finds what it needs, its      *)
(* docstring says, unless the stored data is corrupt.                      *)
(***************************************************************************)
ApproveGoesThrough ==
    \A r \in exists : row[r].status \in ApproveOffered =>
        Expandable(exists, [row EXCEPT ![r] = Transition(@, DONE, Approving, NoAttempt, Now, Now)])

(***************************************************************************)
(* An applied result is never overwritten: a repeated, late or reordered   *)
(* call of the hook changes neither what a row holds nor the report beside *)
(* it before a reset has cleared both, and approve keeps the report.       *)
(***************************************************************************)
ResultsAppliedOnce ==
    [][\A r \in Rows :
          Holds(r, row) /\ Holds(r, row') =>
              /\ row'[r].artifacts = row[r].artifacts
              /\ row'[r].consistency = row[r].consistency]_vars

(***************************************************************************)
(* A message the queue refuses fails the attempt it was sent for and no    *)
(* later one: a row moves to queue_unavailable only in the step that drops *)
(* the message of its running attempt.                                     *)
(***************************************************************************)
RefusalFailsItsOwnAttempt ==
    [][\A r \in Rows :
          row'[r].error = QUEUE_UNAVAILABLE /\ row[r].error # QUEUE_UNAVAILABLE =>
              [row |-> r, attempt |-> row[r].attempt] \in outbox \ outbox']_vars

=============================================================================
