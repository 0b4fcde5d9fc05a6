---------------------------- MODULE Orchestrator ----------------------------
(***************************************************************************)
(* The sessions and locks below Pipeline: GenerationOrchestrator           *)
(* (app/services/orchestrator.py) as concurrent requests of one project,   *)
(* each with its own database session.                                     *)
(*                                                                         *)
(* An operation takes the lock of the project row, reads the rows, changes *)
(* them and commits; then it publishes its events and sends its messages   *)
(* one by one.  A message that is refused is compensated in a transaction  *)
(* of its own, which locks the row of the message and not the project: it  *)
(* is the only writer that runs beside an operation.  So an operation is   *)
(* two steps, its reads (`begin`) and its commit, and a row it did not     *)
(* lock may have changed in between.                                       *)
(*                                                                         *)
(* What an operation writes is seen by others at the commit only: from its *)
(* flushes until then it holds the row locks.  A session writes the rows   *)
(* it changed and leaves the others as they are in the table.  A lock that *)
(* is requested is waited for: requests that wait are not sessions yet.    *)
(*                                                                         *)
(* Implements Pipeline, which has every operation in one step.             *)
(***************************************************************************)
EXTENDS FiniteSets, Sequences, StageRows

CONSTANTS
    Sessions,    \* requests being handled at the same time
    Rows, Refs, Dependents, Initial, Plans, Names, Slot, MaxAttempts  \* as in Pipeline

VARIABLES
    autoApprove, exists, row, issued, queue, seen,  \* as in Pipeline
    pc,           \* what each session is doing
    op,           \* the operation it carries out, or the message it compensates
    loaded,       \* the rows as it has read them
    events,       \* of each row, the statuses it has yet to publish, in their order
    messages,     \* the messages it has yet to send
    cause,        \* history: the failure each row moved to ERROR with
    unannounced   \* history: rows whose last change no event has followed, nor been lost for

vars == <<autoApprove, exists, row, issued, queue, seen, pc, op, loaded,
          events, messages, cause, unannounced>>

(***************************************************************************)
(* The refinement mapping.  Pipeline's messages to send are those the      *)
(* sessions have left.  Pipeline's failure is the one that ended the       *)
(* attempt: cancel and expire_stuck may overwrite it afterwards            *)
(* (CanceledRowsWereActive).                                               *)
(***************************************************************************)
Unsent == UNION {messages[s] : s \in Sessions}

FirstFailure == [r \in Rows |-> [row[r] EXCEPT !.error = cause[r]]]

P == INSTANCE Pipeline WITH row <- FirstFailure, outbox <- Unsent

ASSUME PipelineAssumption == P!GraphAssumption /\ P!PlanAssumption /\ P!BoundAssumption

\* What ended an attempt is kept: a row in ERROR does not fail again.
ASSUME FailureIsFinal == ~is_valid_transition(ERROR, ERROR)

-----------------------------------------------------------------------------
NoOp  == [kind |-> "none"]
NoRow == [r \in Rows |-> NewRow]

\* A new _Work announces nothing.
NoEvents == [r \in Rows |-> <<>>]

\* The operations under the project lock, and what each is called with.
Operations ==
    [kind : {"advance", "cancel", "expire_stuck"}]
    \cup [kind : {"regenerate", "approve", "fail"}, row : Rows]
    \cup [kind : {"apply_failed"}, result : P!Message]
    \cup [kind : {"apply_success"}, result : P!Snapshot]

\* The variables keep their types; a session that is idle has nothing left to do, and
\* only one that is at work holds the project lock.
TypeOK ==
    /\ autoApprove \in BOOLEAN
    /\ exists \subseteq Rows
    /\ row \in [Rows -> StageRow(P!Attempts, P!Content)]
    /\ issued \in [Rows -> P!Attempts]
    /\ queue \subseteq P!Message
    /\ seen \subseteq P!Snapshot
    /\ pc \in [Sessions -> {"idle", "working", "dispatching", "compensating"}]
    /\ op \in [Sessions -> Operations \cup P!Message \cup {NoOp}]
    /\ loaded \in [Sessions -> [Rows -> StageRow(P!Attempts, P!Content)]]
    /\ events \in [Sessions -> [Rows -> Seq(StageStatus)]]
    /\ messages \in [Sessions -> SUBSET P!Message]
    /\ cause \in [Rows -> FailureCode \cup {NoError}]
    /\ unannounced \subseteq Rows
    /\ \A s \in Sessions :
          pc[s] \in {"idle", "working"} => events[s] = NoEvents /\ messages[s] = {}

Init ==
    /\ autoApprove \in BOOLEAN
    /\ exists = {}
    /\ row = NoRow
    /\ issued = [r \in Rows |-> 0]
    /\ queue = {}
    /\ seen = {}
    /\ pc = [s \in Sessions |-> "idle"]
    /\ op = [s \in Sessions |-> NoOp]
    /\ loaded = [s \in Sessions |-> NoRow]
    /\ events = [s \in Sessions |-> NoEvents]
    /\ messages = [s \in Sessions |-> {}]
    /\ cause = [r \in Rows |-> NoError]
    /\ unannounced = {}

-----------------------------------------------------------------------------
(***************************************************************************)
(* Locks.                                                                  *)
(***************************************************************************)

\* Mutant of ProjectLocked: nobody locks the project.
NeverLocked == FALSE

\* _lock_project would have to wait.
ProjectLocked == \E s \in Sessions : pc[s] = "working"

\* get_row(..., lock=True) at the beginning of an operation.
LockedRow(o) ==
    CASE o.kind \in {"regenerate", "approve", "fail"}      -> {o.row}
      [] o.kind \in {"apply_failed", "apply_success"}      -> {o.result.row}
      [] OTHER                                             -> {}

\* Mutant of RowLocked: the row of a message is read without a lock.
RowUnlocked(r) == FALSE

RowLocked(r) == \E s \in Sessions : pc[s] = "working" /\ r \in LockedRow(op[s])

(***************************************************************************)
(* Transactions.  View is the rows as the session sees them before it      *)
(* changes any, R the rows as it leaves them, told the events it has       *)
(* appended to its list so far.  The list is kept by row: which row's      *)
(* event is published first is left open, the order of one row's is not.   *)
(***************************************************************************)

\* A row the session has not changed stays what the table holds by now.
Written(View, R) == [x \in Rows |-> IF R[x] = View[x] THEN row[x] ELSE R[x]]

\* The failure a row moved to ERROR with.
CauseAfter(R) ==
    [x \in Rows |-> CASE R[x].status # ERROR                          -> NoError
                      [] R[x].status = ERROR /\ row[x].status = ERROR -> cause[x]
                      [] R[x].status = ERROR /\ row[x].status # ERROR -> R[x].error]

\* work.events.append, for every row of S.
Announce(told, S, status) ==
    [r \in Rows |-> IF r \in S THEN Append(told[r], status) ELSE told[r]]

\* A session with nothing left to publish or send has answered its request.
Dispatch(s, announce, send) ==
    /\ events' = [events EXCEPT ![s] = announce]
    /\ messages' = [messages EXCEPT ![s] = send]
    /\ op' = [op EXCEPT ![s] = NoOp]
    /\ pc' = [pc EXCEPT ![s] = IF announce = NoEvents /\ send = {} THEN "idle" ELSE "dispatching"]

\* The commit of session s, with E the rows that exist now and S the ones that start.
Commit(s, View, E, R, S, told) ==
    LET Started == [x \in Rows |-> IF x \in S
                                   THEN Transition(R[x], RUNNING, Plain, issued[x] + 1,
                                                   P!Now, P!Now)
                                   ELSE R[x]]
        Table == Written(View, Started)
    IN  /\ exists' = E
        /\ row' = Table
        /\ cause' = CauseAfter(Table)
        /\ issued' = [x \in Rows |-> IF x \in S THEN issued[x] + 1 ELSE issued[x]]
        /\ unannounced' = unannounced \cup {x \in Rows : Table[x] # row[x]} \cup (E \ exists)
        /\ Dispatch(s, told, {[row |-> x, attempt |-> issued[x] + 1] : x \in S})
        /\ loaded' = [loaded EXCEPT ![s] = NoRow]
        /\ UNCHANGED <<autoApprove, queue, seen>>

\* Mutant of Advance: a start is not announced.
AdvanceSilently(s, View, E, R, told) == Commit(s, View, E, R, P!Ready(E, R), told)

\* _advance: every start is announced.
Advance(s, View, E, R, told) ==
    Commit(s, View, E, R, P!Ready(E, R), Announce(told, P!Ready(E, R), RUNNING))

\* _grow_and_advance: so is every row that is created.
GrowAndAdvance(s, View, R, told) ==
    LET created == P!Missing(exists, R)
    IN  /\ P!Expandable(exists, R)
        /\ Advance(s, View, exists \cup created, R, Announce(told, created, PENDING))

\* The rows of S move to ERROR.
MoveToError(s, View, S, code) ==
    /\ \A r \in S : Accepted(View[r], ERROR, FailingWith(code))
    /\ Commit(s, View, exists,
              [r \in Rows |-> IF r \in S
                              THEN Transition(View[r], ERROR, FailingWith(code), NoAttempt,
                                              P!Now, P!Now)
                              ELSE View[r]],
              {}, Announce(NoEvents, S, ERROR))

-----------------------------------------------------------------------------
(***************************************************************************)
(* The operations.                                                         *)
(***************************************************************************)

\* Nobody knows the project before it is committed: its rows need no lock.
start(s) ==
    /\ pc[s] = "idle"
    /\ exists = {}
    /\ Advance(s, row, Initial, row, Announce(NoEvents, Initial, PENDING))

\* The rows regenerate resets.
Affected(r) == {r} \cup Dependents[r]

\* What may be asked for: the hook is called by a worker that has the message or has
\* read the snapshot, and rows that do not exist are answered with 404.  The attempts a
\* regeneration may need are left (the bound).
Requests ==
    [kind : {"advance", "cancel", "expire_stuck"}]
    \cup [kind : {"approve", "fail"}, row : exists]
    \cup [kind : {"regenerate"},
          row : {r \in exists : \A x \in exists \cap Affected(r) : issued[x] < MaxAttempts}]
    \cup [kind : {"apply_failed"}, result : queue]
    \cup [kind : {"apply_success"}, result : seen]

\* The project is locked, and the row if the operation is about one; the rows are read.
begin(s, o) ==
    /\ pc[s] = "idle"
    /\ exists # {}
    /\ ~ProjectLocked
    /\ pc' = [pc EXCEPT ![s] = "working"]
    /\ op' = [op EXCEPT ![s] = o]
    /\ loaded' = [loaded EXCEPT ![s] = row]
    /\ UNCHANGED <<autoApprove, exists, row, issued, queue, seen, cause,
                   events, messages, unannounced>>

Working(s, kind) == pc[s] = "working" /\ op[s].kind = kind

Current(View, m) == View[m.row].status = RUNNING /\ View[m.row].attempt = m.attempt

apply_failed(s) ==
    /\ Working(s, "apply_failed")
    /\ Current(loaded[s], op[s].result)
    /\ MoveToError(s, loaded[s], {op[s].result.row}, GENERATION_FAILED)

\* success_path: the statuses a result takes its row through, each of them announced.
SuccessPath(report) ==
    CASE report # Violations                 -> <<CONSISTENCY_CHECK, DONE>>
      [] report = Violations /\ ~autoApprove -> <<CONSISTENCY_CHECK, AWAITING_DECISION>>
      [] report = Violations /\ autoApprove  -> <<CONSISTENCY_CHECK, AWAITING_DECISION, DONE>>

apply_success(s) ==
    LET result == op[s].result
        View   == loaded[s]
    IN  /\ Working(s, "apply_success")
        /\ Current(View, result)
        /\ \E plan \in Plans[result.row], report \in {Clean, Violations} :
              LET content == [plan |-> plan, basis |-> result.basis]
                  stored  == RecordResult(View[result.row], {content}, report)
              IN  /\ \A x \in plan : \A y \in Names[x] : P!Holds(y, View)
                  /\ GrowAndAdvance(s, View, [View EXCEPT ![result.row] = P!WalkSuccess(stored)],
                                    [NoEvents EXCEPT ![result.row] = SuccessPath(report)])

advance(s) ==
    /\ Working(s, "advance")
    /\ Advance(s, loaded[s], exists, loaded[s], NoEvents)

\* reset_from locks the rows to reset one by one and reads them again.
Reread(s, r) == [x \in Rows |-> IF x \in Affected(r) THEN row[x] ELSE loaded[s][x]]

regenerate(s) ==
    LET r       == op[s].row
        View    == Reread(s, r)
        ToReset == {x \in exists \cap Affected(r) : View[x].status # PENDING}
    IN  /\ Working(s, "regenerate")
        /\ loaded[s][r].status \in RegenerateOffered
        /\ \A x \in ToReset : Accepted(View[x], PENDING, Plain)
        /\ Advance(s, View, exists,
              [x \in Rows |-> IF x \in ToReset
                              THEN Transition(View[x], PENDING, Plain, NoAttempt, P!Now, P!Now)
                              ELSE View[x]],
              Announce(NoEvents, ToReset, PENDING))

approve(s) ==
    LET r    == op[s].row
        View == loaded[s]
    IN  /\ Working(s, "approve")
        /\ View[r].status \in ApproveOffered
        /\ GrowAndAdvance(s, View,
              [View EXCEPT ![r] = Transition(@, DONE, Approving, NoAttempt, P!Now, P!Now)],
              Announce(NoEvents, {r}, DONE))

fail(s) ==
    /\ Working(s, "fail")
    /\ MoveToError(s, loaded[s], {op[s].row}, GENERATION_FAILED)

\* The active rows are the ones that were active when the rows were read.
cancel(s) ==
    /\ Working(s, "cancel")
    /\ MoveToError(s, loaded[s],
          {r \in exists : loaded[s][r].status \in {RUNNING, CONSISTENCY_CHECK}}, CANCELED_BY_USER)

\* So are the running ones; which of them have outlived the timeout is left open.
expire_stuck(s) ==
    /\ Working(s, "expire_stuck")
    /\ \E stuck \in SUBSET {r \in exists : loaded[s][r].status = RUNNING} :
          MoveToError(s, loaded[s], stuck, STUCK_TIMEOUT)

\* The transaction is rolled back: the operation is refused (duplicate, stale attempt,
\* not offered), an exception is raised, or the process dies.
rollback(s) ==
    /\ pc[s] = "working"
    /\ pc' = [pc EXCEPT ![s] = "idle"]
    /\ op' = [op EXCEPT ![s] = NoOp]
    /\ loaded' = [loaded EXCEPT ![s] = NoRow]
    /\ UNCHANGED <<autoApprove, exists, row, issued, queue, seen, cause,
                   events, messages, unannounced>>

-----------------------------------------------------------------------------
(***************************************************************************)
(* _commit_and_dispatch after the commit.                                  *)
(***************************************************************************)

\* An event is published, or its loss is logged.
publish(s) ==
    /\ pc[s] = "dispatching"
    /\ \E r \in Rows :
          /\ events[s][r] # <<>>
          /\ Dispatch(s, [events[s] EXCEPT ![r] = Tail(@)], messages[s])
          /\ unannounced' = unannounced \ {x \in {r} : Head(events[s][r]) = row[x].status}
    /\ UNCHANGED <<autoApprove, exists, row, issued, queue, seen, cause, loaded>>

enqueue(s) ==
    /\ pc[s] = "dispatching"
    /\ events[s] = NoEvents
    /\ \E m \in messages[s] :
          /\ queue' = queue \cup {m}
          /\ Dispatch(s, NoEvents, messages[s] \ {m})
    /\ UNCHANGED <<autoApprove, exists, row, issued, seen, cause, loaded, unannounced>>

\* enqueue raises, although the queue may have accepted the message after all.
enqueue_raises(s) ==
    /\ pc[s] = "dispatching"
    /\ events[s] = NoEvents
    /\ \E m \in messages[s] :
          /\ \E delivered \in SUBSET {m} : queue' = queue \cup delivered
          /\ op' = [op EXCEPT ![s] = m]
    /\ pc' = [pc EXCEPT ![s] = "compensating"]
    /\ UNCHANGED <<autoApprove, exists, row, issued, seen, cause, loaded, events, messages,
                   unannounced>>

\* Mutant of LeftAfter: the message is tried again.
LeftAfterRefusal(s, m) == messages[s]

LeftAfter(s, m) == messages[s] \ {m}

\* The row moves to ERROR if this attempt is still the one running.
compensate(s) ==
    LET m == op[s]
        failing == {r \in {m.row} : Current(row, m)}
        Table == [r \in Rows |-> IF r \in failing
                                 THEN Transition(row[r], ERROR, FailingWith(QUEUE_UNAVAILABLE),
                                                 NoAttempt, P!Now, P!Now)
                                 ELSE row[r]]
    IN  /\ pc[s] = "compensating"
        /\ ~RowLocked(m.row)
        /\ row' = Table
        /\ cause' = CauseAfter(Table)
        /\ unannounced' = unannounced \cup failing
        /\ Dispatch(s, Announce(NoEvents, failing, ERROR), LeftAfter(s, m))
        /\ UNCHANGED <<autoApprove, exists, issued, queue, seen, loaded>>

\* The session has still to publish the status the row has now.
WillAnnounce(s, r) ==
    events[s][r] # <<>> /\ events[s][r][Len(events[s][r])] = row[r].status

\* The process dies, or the compensation raises: the events and messages left are lost.
give_up(s) ==
    /\ pc[s] \in {"dispatching", "compensating"}
    /\ Dispatch(s, NoEvents, {})
    /\ unannounced' = unannounced \ {r \in Rows : WillAnnounce(s, r)}
    /\ UNCHANGED <<autoApprove, exists, row, issued, queue, seen, cause, loaded>>

\* The worker reads the rows the row of a message draws from, whenever it comes to it.
get_snapshot(m) ==
    LET done(y) == IF row[y].status = DONE THEN row[y].attempt ELSE NoAttempt
    IN  /\ seen' = seen \cup {[row |-> m.row, attempt |-> m.attempt,
                               basis |-> [y \in Refs[m.row] |-> done(y)]]}
        /\ UNCHANGED <<autoApprove, exists, row, issued, queue, cause,
                       pc, op, loaded, events, messages, unannounced>>

-----------------------------------------------------------------------------
Operate(s) ==
    \/ rollback(s)
    \/ apply_failed(s) \/ apply_success(s) \/ advance(s) \/ regenerate(s)
    \/ approve(s) \/ fail(s) \/ cancel(s) \/ expire_stuck(s)

Deliver(s) == publish(s) \/ enqueue(s) \/ enqueue_raises(s)

Proceed(s) == Operate(s) \/ Deliver(s)

Next ==
    \/ \E s \in Sessions :
          \/ start(s) \/ (\E o \in Requests : begin(s, o)) \/ Proceed(s)
          \/ compensate(s) \/ give_up(s)
    \/ \E m \in queue : get_snapshot(m)

(***************************************************************************)
(* A transaction that has begun comes to an end and the coroutine that     *)
(* dispatches goes on.  A request for a row lock is granted in its turn,   *)
(* however often the row is locked in between.  Nobody has to begin.       *)
(***************************************************************************)
Spec ==
    /\ Init
    /\ [][Next]_vars
    /\ \A s \in Sessions : WF_vars(Proceed(s)) /\ SF_vars(compensate(s))

-----------------------------------------------------------------------------
(***************************************************************************)
(* The orchestrator implements Pipeline: although operations read, lock    *)
(* and commit in steps and compensations run beside them, what they do is  *)
(* what single steps do in some order.  No start, result, reset or         *)
(* failure is lost or done twice.                                          *)
(***************************************************************************)
ImplementsPipeline == P!Spec

(***************************************************************************)
(* Whatever a commit has made of a row, its status is announced: an event  *)
(* with it has been published after the commit, or is the last one some    *)
(* session has for the row, or was lost with its session.  Every operation *)
(* appends its events where it changes a status; a row that is created and *)
(* started, or reset and started, at once takes two of them, in order, and *)
(* compensations add theirs while other sessions publish.                  *)
(***************************************************************************)
ChangesAreAnnounced == \A r \in unannounced : \E s \in Sessions : WillAnnounce(s, r)

(***************************************************************************)
(* Every request ends: neither a lock a session waits for nor a queue that *)
(* goes on refusing keeps it from answering.                               *)
(***************************************************************************)
RequestsEnd == \A s \in Sessions : pc[s] # "idle" ~> pc[s] = "idle"

(***************************************************************************)
(* cancel fails the rows that are active: the failure of a row that is in  *)
(* ERROR already is left as it is (docstring, orchestrator.py:240-243).    *)
(***************************************************************************)
CanceledRowsWereActive ==
    [][\A r \in Rows :
          row'[r].error = CANCELED_BY_USER /\ row[r].error # CANCELED_BY_USER =>
              row[r].status \in {RUNNING, CONSISTENCY_CHECK}]_vars

=============================================================================
