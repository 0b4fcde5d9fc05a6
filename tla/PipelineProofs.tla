--------------------------- MODULE PipelineProofs ---------------------------
(***************************************************************************)
(* Proofs about Pipeline, for every graph of rows, every set of plans,     *)
(* every stage machine that satisfies StageMachineAssumption and every     *)
(* bound on attempts.                                                      *)
(***************************************************************************)
EXTENDS Pipeline, StageRowsProofs

(***************************************************************************)
(* The inductive invariant.  Grounded alone is not inductive: regenerate   *)
(* resets the dependents that exist, so a row that does not exist has to   *)
(* be PENDING; TypeOK needs an attempt to be left for every row that may   *)
(* still start.  Its parts are stated of the rows R and the existing ids E *)
(* a transaction has arrived at.                                           *)
(***************************************************************************)
Rowed(R) == R \in [Rows -> StageRow(Attempts, Content)]

GroundedIn(R) ==
    \A r \in Rows : R[r].status # PENDING => \A y \in Refs[r] : R[y].status = DONE

AttemptLeftIn(R) == \A r \in Rows : R[r].status = PENDING => issued[r] < MaxAttempts

AbsentPendingIn(E, R) == \A r \in Rows \ E : R[r].status = PENDING

Consistent(E, R) ==
    E \subseteq Rows /\ Rowed(R) /\ GroundedIn(R) /\ AttemptLeftIn(R) /\ AbsentPendingIn(E, R)

IInv == TypeOK /\ Consistent(exists, row)

\* What the orchestrator passes to transition, and a new row, have their types.
LEMMA Typing ==
    /\ Plain \in Options
    /\ Approving \in Options
    /\ \A code \in FailureCode : /\ FailingWith(code) \in Options
                                 /\ FailingWith(code).failure # NoError
    /\ NoAttempt \in Attempts
    /\ Now \in Nat
    /\ NewRow \in StageRow(Attempts, Content)
<1>1. Plain \in Options /\ Approving \in Options
    BY DEF Plain, Approving, Call, Options
<1>2. ASSUME NEW code \in FailureCode
      PROVE  FailingWith(code) \in Options /\ FailingWith(code).failure # NoError
    BY DEF FailingWith, Call, Options, FailureCode, NoError, GENERATION_FAILED,
           QUEUE_UNAVAILABLE, CANCELED_BY_USER, STUCK_TIMEOUT
<1>3. NoAttempt \in Attempts /\ Now \in Nat
    BY BoundAssumption DEF NoAttempt, Attempts, Now
<1>4. NewRow \in StageRow(Attempts, Content)
    BY <1>3 DEF NewRow, StageRow, StageStatus, PENDING, Report, NoReport, Unset
<1> QED BY <1>1, <1>2, <1>3, <1>4

\* The statuses the proofs tell apart are different statuses.
LEMMA Distinct ==
    /\ {PENDING, RUNNING, CONSISTENCY_CHECK, AWAITING_DECISION, DONE, ERROR} \subseteq StageStatus
    /\ PENDING \notin {RUNNING, CONSISTENCY_CHECK, AWAITING_DECISION, DONE, ERROR}
    /\ DONE \notin {RUNNING, CONSISTENCY_CHECK, AWAITING_DECISION, ERROR}
    /\ ERROR \notin {RUNNING, CONSISTENCY_CHECK, AWAITING_DECISION}
BY DEF StageStatus, PENDING, RUNNING, CONSISTENCY_CHECK, AWAITING_DECISION, NEEDS_RETRY, DONE, ERROR

\* A row that may move to ERROR is neither PENDING nor DONE.
LEMMA ErrorEdges ==
    ASSUME NEW r, NEW opt, Accepted(r, ERROR, opt)
    PROVE  r.status \notin {PENDING, DONE}
BY StageMachineAssumption
   DEF Accepted, is_valid_transition, RefusedTransitions

(***************************************************************************)
(* Starting the ready rows of a consistent set of rows leaves a consistent *)
(* one.                                                                    *)
(***************************************************************************)
LEMMA AdvanceKeeps ==
    ASSUME TypeOK, NEW E, NEW R, Consistent(E, R), AdvanceAndCommit(E, R)
    PROVE  IInv'
<1> DEFINE ready == Ready(E, R)
<1> USE Typing, Distinct
<1>1. /\ exists' = E
      /\ row' = [x \in Rows |-> IF x \in ready
                                THEN Transition(R[x], RUNNING, Plain, issued[x] + 1, Now, Now)
                                ELSE R[x]]
      /\ issued' = [x \in Rows |-> IF x \in ready THEN issued[x] + 1 ELSE issued[x]]
      /\ outbox' = outbox \cup {[row |-> x, attempt |-> issued[x] + 1] : x \in ready}
      /\ UNCHANGED <<autoApprove, queue, seen>>
    BY DEF AdvanceAndCommit, StartAndCommit
<1>2. \A x \in ready : /\ x \in Rows
                       /\ R[x].status = PENDING
                       /\ \A y \in Refs[x] : R[y].status = DONE
                       /\ issued[x] + 1 \in Attempts \ {NoAttempt}
    BY BoundAssumption DEF Ready, Consistent, AttemptLeftIn, TypeOK, Attempts, NoAttempt
<1>3. \A x \in ready : Transition(R[x], RUNNING, Plain, issued[x] + 1, Now, Now)
                          \in StageRow(Attempts, Content)
  <2> SUFFICES ASSUME NEW x \in ready
               PROVE  Transition(R[x], RUNNING, Plain, issued[x] + 1, Now, Now)
                         \in StageRow(Attempts, Content)
      OBVIOUS
  <2>1. R[x] \in StageRow(Attempts, Content)
      BY <1>2 DEF Consistent, Rowed
  <2>2. issued[x] + 1 \in Attempts
      BY <1>2
  <2>3. RUNNING \in StageStatus /\ (RUNNING = ERROR => Plain.failure # NoError)
      OBVIOUS
  <2> QED BY <2>1, <2>2, <2>3, TransitionType
<1>4. \A x \in ready : row'[x].status = RUNNING
    BY <1>1, <1>2 DEF Transition, ArtifactsAfter
<1>5. \A x \in Rows \ ready : row'[x] = R[x]
    BY <1>1
<1>6. Rowed(row')
    BY <1>1, <1>3 DEF Rowed, Consistent
<1>7. GroundedIn(row')
    BY <1>2, <1>4, <1>5, GraphAssumption DEF GroundedIn, Consistent
<1>8. AttemptLeftIn(row)'
    BY <1>1, <1>4, <1>5 DEF AttemptLeftIn, Consistent
<1>9. AbsentPendingIn(exists, row)'
    BY <1>1, <1>5 DEF AbsentPendingIn, Consistent, Ready
<1>10. issued' \in [Rows -> Attempts] /\ outbox' \subseteq Message
    BY <1>1, <1>2 DEF TypeOK, Message
<1>11. TypeOK'
    BY <1>1, <1>6, <1>10 DEF TypeOK, Consistent, Rowed
<1> QED
    BY <1>1, <1>6, <1>7, <1>8, <1>9, <1>11 DEF IInv, Consistent, Rowed, GroundedIn, AttemptLeftIn, AbsentPendingIn

\* Rows that run, and so draw from DONE rows only, may fail: none of these fails.
LEMMA MoveToErrorKeeps ==
    ASSUME IInv, NEW S \in SUBSET Rows, NEW code \in FailureCode, MoveToError(S, code)
    PROVE  Consistent(exists, row)'
<1> DEFINE failed(r) == Transition(row[r], ERROR, FailingWith(code), NoAttempt, Now, Now)
<1> USE Typing, Distinct
<1>1. /\ \A r \in S : Accepted(row[r], ERROR, FailingWith(code))
      /\ row' = [r \in Rows |-> IF r \in S THEN failed(r) ELSE row[r]]
      /\ exists' = exists /\ issued' = issued
    BY DEF MoveToError
<1>2. \A r \in S : row[r].status \notin {PENDING, DONE}
    BY <1>1, ErrorEdges
<1>3. \A r \in Rows : row[r] \in StageRow(Attempts, Content)
    BY DEF IInv, Consistent, Rowed
<1>4. \A r \in S : failed(r) \in StageRow(Attempts, Content)
    BY <1>3, TransitionType
<1>5. \A r \in S : row'[r].status = ERROR
    BY <1>1 DEF Transition, ArtifactsAfter
<1>6. \A r \in Rows \ S : row'[r] = row[r]
    BY <1>1
<1>7. Rowed(row')
    BY <1>1, <1>3, <1>4 DEF Rowed
<1>8. GroundedIn(row')
    BY <1>2, <1>5, <1>6, GraphAssumption DEF IInv, Consistent, GroundedIn
<1>9. AttemptLeftIn(row)' /\ AbsentPendingIn(exists, row)'
    BY <1>1, <1>2, <1>5, <1>6 DEF IInv, Consistent, AttemptLeftIn, AbsentPendingIn
<1> QED
    BY <1>1, <1>7, <1>8, <1>9
    DEF IInv, Consistent, Rowed, GroundedIn, AttemptLeftIn, AbsentPendingIn

\* A row whose inputs are DONE and that no started row draws from may finish.
LEMMA FinishKeeps ==
    ASSUME IInv, NEW r \in exists, row[r].status \notin {PENDING, DONE},
           NEW new \in StageRow(Attempts, Content), new.status # PENDING,
           NEW E, exists \subseteq E, E \subseteq Rows
    PROVE  Consistent(E, [row EXCEPT ![r] = new])
<1> DEFINE R == [row EXCEPT ![r] = new]
<1>1. r \in Rows /\ row \in [Rows -> StageRow(Attempts, Content)]
    BY DEF IInv, Consistent, Rowed
<1>2. Rowed(R) /\ R[r] = new /\ \A x \in Rows \ {r} : R[x] = row[x]
    BY <1>1 DEF Rowed
<1>3. GroundedIn(R)
    BY <1>1, <1>2, GraphAssumption DEF IInv, Consistent, GroundedIn
<1>4. AttemptLeftIn(R) /\ AbsentPendingIn(E, R)
    BY <1>1, <1>2 DEF IInv, Consistent, AttemptLeftIn, AbsentPendingIn
<1> QED BY <1>2, <1>3, <1>4 DEF Consistent

\* What a successful result leaves on a row.
LEMMA WalkSuccessType ==
    ASSUME TypeOK, NEW stored \in StageRow(Attempts, Content)
    PROVE  /\ WalkSuccess(stored) \in StageRow(Attempts, Content)
           /\ WalkSuccess(stored).status \in {DONE, AWAITING_DECISION}
           /\ WalkSuccess(stored).attempt = stored.attempt
           /\ WalkSuccess(stored).artifacts = stored.artifacts
<1> USE Typing, Distinct
<1> DEFINE move(r, target, opt) == Transition(r, target, opt, NoAttempt, Now, Now)
           checked == move(stored, CONSISTENCY_CHECK, Plain)
           awaits  == move(checked, AWAITING_DECISION, Plain)
<1>1. checked \in StageRow(Attempts, Content)
    BY TransitionType
<1>2. awaits \in StageRow(Attempts, Content)
    BY <1>1, TransitionType
<1>3. move(checked, DONE, Plain) \in StageRow(Attempts, Content)
    BY <1>1, TransitionType
<1>4. move(awaits, DONE, Approving) \in StageRow(Attempts, Content)
    BY <1>2, TransitionType
<1>5. \A r, opt : \A target \in {CONSISTENCY_CHECK, AWAITING_DECISION, DONE} :
         /\ move(r, target, opt).status = target
         /\ move(r, target, opt).attempt = r.attempt
         /\ move(r, target, opt).artifacts = r.artifacts
    BY DEF Transition, ArtifactsAfter, PENDING, RUNNING, CONSISTENCY_CHECK, AWAITING_DECISION, DONE
<1> HIDE DEF move, checked, awaits
<1>6. /\ checked.attempt = stored.attempt /\ checked.artifacts = stored.artifacts
      /\ awaits.attempt = stored.attempt /\ awaits.artifacts = stored.artifacts
    BY <1>5 DEF checked, awaits
<1>7. WalkSuccess(stored) \in {move(checked, DONE, Plain), move(awaits, DONE, Approving), awaits}
    BY DEF WalkSuccess, move, checked, awaits
<1> QED
    BY <1>2, <1>3, <1>4, <1>5, <1>6, <1>7 DEF awaits

\* A project without rows is consistent.
LEMMA InitIInv == Init => IInv
<1> SUFFICES ASSUME Init PROVE IInv
    OBVIOUS
<1>1. Rowed(row)
    BY Typing DEF Init, Rowed
<1>2. \A r \in Rows : row[r].status = PENDING /\ issued[r] = 0
    BY DEF Init, NewRow
<1>3. TypeOK
    BY <1>1, BoundAssumption DEF Init, TypeOK, Rowed, Attempts
<1>4. AttemptLeftIn(row)
    BY <1>2, BoundAssumption DEF AttemptLeftIn
<1> QED
    BY <1>1, <1>2, <1>3, <1>4 DEF Init, IInv, Consistent, GroundedIn, AbsentPendingIn

\* expand_rows only ever asks for rows the project may have.
LEMMA MissingRows ==
    ASSUME NEW E, NEW R, E \subseteq Rows, Rowed(R)
    PROVE  Missing(E, R) \subseteq Rows
<1>1. \A x \in E : \A content \in R[x].artifacts : content.plan \subseteq Rows
    BY DEF Rowed, StageRow, Content
<1> QED BY <1>1 DEF Missing, Wanted

\* Finishing a row, creating the rows that became known and starting the ready ones.
LEMMA FinishGrowAdvance ==
    ASSUME IInv, NEW r \in exists, row[r].status \notin {PENDING, DONE},
           NEW new \in StageRow(Attempts, Content), new.status # PENDING,
           GrowAndAdvance([row EXCEPT ![r] = new])
    PROVE  IInv'
<1> DEFINE R == [row EXCEPT ![r] = new]
           E == exists \cup Missing(exists, R)
<1>1. AdvanceAndCommit(E, R)
    BY DEF GrowAndAdvance
<1>2. Consistent(exists, R)
    BY FinishKeeps DEF IInv, Consistent
<1>3. exists \subseteq E /\ E \subseteq Rows
    BY <1>2, MissingRows DEF Consistent
<1>4. Consistent(E, R)
    BY <1>3, FinishKeeps
<1> HIDE DEF E, R
<1> QED BY <1>1, <1>4, AdvanceKeeps DEF IInv

\* A row that record_result has stored a result on is a row still.
LEMMA StoredType ==
    ASSUME IInv, NEW s \in seen, NEW plan \in Plans[s.row], NEW report \in {Clean, Violations}
    PROVE  RecordResult(row[s.row], {[plan |-> plan, basis |-> s.basis]}, report)
              \in StageRow(Attempts, Content)
<1>1. s.row \in Rows /\ s.basis \in UNION {Basis(r) : r \in Rows}
    BY DEF IInv, TypeOK, Snapshot
<1>2. [plan |-> plan, basis |-> s.basis] \in Content
    BY <1>1, PlanAssumption DEF Content
<1>3. row[s.row] \in StageRow(Attempts, Content)
    BY <1>1 DEF IInv, TypeOK
<1> QED
    BY <1>2, <1>3 DEF RecordResult, StageRow, Report

\* start creates and starts the first rows of a consistent project.
LEMMA StartKeeps == IInv /\ start => IInv'
<1> SUFFICES ASSUME IInv, start PROVE IInv'
    OBVIOUS
<1>1. Consistent(Initial, row)
    BY PlanAssumption DEF start, IInv, Consistent, AbsentPendingIn
<1> QED BY <1>1, AdvanceKeeps DEF start, IInv

\* advance on its own keeps the rows consistent.
LEMMA AdvanceOpKeeps == IInv /\ advance => IInv'
BY AdvanceKeeps DEF advance, IInv

\* The hook keeps them consistent when it applies a successful result.
LEMMA ApplySuccessKeeps ==
    ASSUME IInv, NEW s \in seen, NEW plan \in Plans[s.row], NEW report \in {Clean, Violations},
           apply_success(s, plan, report)
    PROVE  IInv'
<1> DEFINE stored == RecordResult(row[s.row], {[plan |-> plan, basis |-> s.basis]}, report)
<1>1. s.row \in exists /\ row[s.row].status = RUNNING
    BY DEF apply_success, Current
<1>2. stored \in StageRow(Attempts, Content)
    BY StoredType
<1>3. GrowAndAdvance([row EXCEPT ![s.row] = WalkSuccess(stored)])
    BY DEF apply_success
<1> HIDE DEF stored
<1>4. /\ WalkSuccess(stored) \in StageRow(Attempts, Content)
      /\ WalkSuccess(stored).status # PENDING
    BY <1>2, WalkSuccessType, Distinct DEF IInv
<1> QED BY <1>1, <1>3, <1>4, Distinct, FinishGrowAdvance

\* So does the user's approve, which finishes a row whose inputs are DONE.
LEMMA ApproveKeeps == ASSUME IInv, NEW r \in Rows, approve(r) PROVE IInv'
<1> USE Typing, Distinct
<1> DEFINE new == Transition(row[r], DONE, Approving, NoAttempt, Now, Now)
<1>1. r \in exists /\ row[r].status = AWAITING_DECISION
    BY OffersAssumption DEF approve
<1>2. new \in StageRow(Attempts, Content) /\ new.status = DONE
    <2>1. row[r] \in StageRow(Attempts, Content)
        BY DEF IInv, TypeOK
    <2>2. new \in StageRow(Attempts, Content)
        BY <2>1, TransitionType
    <2> QED BY <2>2 DEF Transition, ArtifactsAfter
<1>3. GrowAndAdvance([row EXCEPT ![r] = new])
    BY DEF approve
<1> HIDE DEF new
<1> QED
    BY <1>1, <1>2, <1>3, FinishGrowAdvance DEF AWAITING_DECISION, DONE, PENDING

\* Resetting a row together with all its dependents keeps the others grounded.
LEMMA RegenerateConsistent ==
    ASSUME IInv, NEW r \in Rows, regenerate(r)
    PROVE  Consistent(exists, [x \in Rows |-> IF x \in ToReset(r)
                                              THEN Transition(row[x], PENDING, Plain, NoAttempt, Now, Now)
                                              ELSE row[x]])
<1> USE Typing, Distinct
<1> DEFINE reset(x) == Transition(row[x], PENDING, Plain, NoAttempt, Now, Now)
           R == [x \in Rows |-> IF x \in ToReset(r) THEN reset(x) ELSE row[x]]
<1>1. \A x \in ToReset(r) : issued[x] < MaxAttempts
    BY DEF regenerate
<1>2. \A x \in Rows : row[x] \in StageRow(Attempts, Content)
    BY DEF IInv, TypeOK
<1>3. ToReset(r) \subseteq Rows
    BY DEF ToReset, IInv, TypeOK
<1>4. \A x \in ToReset(r) : reset(x) \in StageRow(Attempts, Content)
    BY <1>2, <1>3, TransitionType
<1>5. \A x \in ToReset(r) : R[x].status = PENDING
    BY <1>3 DEF Transition, ArtifactsAfter
<1>6. \A x \in Rows \ ToReset(r) : R[x] = row[x]
    OBVIOUS
<1>7. Rowed(R)
    BY <1>2, <1>4 DEF Rowed
<1> HIDE DEF R
<1>8. GroundedIn(R)
  <2> SUFFICES ASSUME NEW x \in Rows, R[x].status # PENDING, NEW y \in Refs[x]
               PROVE  R[y].status = DONE
      BY DEF GroundedIn
  <2>1. x \notin ToReset(r) /\ row[x].status # PENDING
      BY <1>5, <1>6
  <2>2. x \in exists
      BY <2>1 DEF IInv, Consistent, AbsentPendingIn
  <2>3. y \in Rows /\ row[y].status = DONE
      BY <2>1, GraphAssumption DEF IInv, Consistent, GroundedIn
  <2>4. y \notin ToReset(r)
      BY <2>1, <2>2, <2>3, GraphAssumption DEF ToReset
  <2> QED BY <1>6, <2>3, <2>4
<1>9. AttemptLeftIn(R) /\ AbsentPendingIn(exists, R)
    BY <1>1, <1>3, <1>5, <1>6 DEF IInv, Consistent, AttemptLeftIn, AbsentPendingIn
<1>10. Consistent(exists, R)
    BY <1>7, <1>8, <1>9 DEF IInv, Consistent
<1> QED BY <1>10 DEF R

\* So does regenerate: reset, then start what is ready.
LEMMA RegenerateKeeps == ASSUME IInv, NEW r \in Rows, regenerate(r) PROVE IInv'
BY RegenerateConsistent, AdvanceKeeps DEF regenerate, IInv

\* Every step that moves rows to ERROR and changes nothing else but the messages.
LEMMA FailKeeps ==
    ASSUME IInv, NEW S \in SUBSET Rows, NEW code \in FailureCode, MoveToError(S, code),
           outbox' \subseteq outbox, queue' \subseteq queue \cup outbox
    PROVE  IInv'
<1>1. Consistent(exists, row)'
    BY MoveToErrorKeeps
<1>2. UNCHANGED <<autoApprove, exists, issued, seen>>
    BY DEF MoveToError
<1> QED BY <1>1, <1>2 DEF IInv, TypeOK, Consistent, Rowed

\* Steps of the queue and of the worker do not touch the rows.
LEMMA SnapshotType ==
    ASSUME IInv, NEW m \in queue, get_snapshot(m)
    PROVE  seen' \subseteq Snapshot
<1> DEFINE done(y) == IF row[y].status = DONE THEN row[y].attempt ELSE NoAttempt
           basis == [y \in Refs[m.row] |-> done(y)]
<1>1. m.row \in Rows /\ m.attempt \in Attempts \ {NoAttempt}
    BY DEF IInv, TypeOK, Message
<1>2. \A y \in Refs[m.row] : done(y) \in Attempts
    BY <1>1, GraphAssumption, Typing DEF IInv, TypeOK, StageRow
<1>3. basis \in Basis(m.row)
    BY <1>2 DEF Basis
<1>4. seen' = seen \cup {[row |-> m.row, attempt |-> m.attempt, basis |-> basis]}
    BY DEF get_snapshot
<1> HIDE DEF basis
<1> QED BY <1>1, <1>3, <1>4 DEF IInv, TypeOK, Snapshot

\* Every step keeps the invariant.
LEMMA NextKeeps == IInv /\ [Next]_vars => IInv'
<1> SUFFICES ASSUME IInv, [Next]_vars PROVE IInv'
    OBVIOUS
<1> USE DEF FailureCode
<1>1. CASE start
    BY <1>1, StartKeeps
<1>2. ASSUME NEW m \in queue, apply_failed(m) PROVE IInv'
    <2>1. {m.row} \in SUBSET Rows
        BY DEF IInv, TypeOK, Message
    <2> QED BY <1>2, <2>1, FailKeeps DEF apply_failed
<1>3. ASSUME NEW s \in seen, NEW plan \in Plans[s.row], NEW report \in {Clean, Violations},
             apply_success(s, plan, report)
      PROVE  IInv'
    BY <1>3, ApplySuccessKeeps
<1>4. CASE advance
    BY <1>4, AdvanceOpKeeps
<1>5. ASSUME NEW r \in Rows, regenerate(r) PROVE IInv'
    BY <1>5, RegenerateKeeps
<1>6. ASSUME NEW r \in Rows, approve(r) PROVE IInv'
    BY <1>6, ApproveKeeps
<1>7. ASSUME NEW r \in Rows, fail(r) PROVE IInv'
    <2>1. {r} \in SUBSET Rows
        OBVIOUS
    <2> QED BY <1>7, <2>1, FailKeeps DEF fail
<1>8. CASE cancel
    <2> DEFINE active == {r \in exists : row[r].status \in {RUNNING, CONSISTENCY_CHECK}}
    <2>1. active \in SUBSET Rows
        BY DEF IInv, TypeOK
    <2>2. MoveToError(active, CANCELED_BY_USER) /\ UNCHANGED <<outbox, queue>>
        BY <1>8 DEF cancel
    <2> HIDE DEF active
    <2> QED BY <2>1, <2>2, FailKeeps
<1>9. ASSUME NEW stuck \in SUBSET {r \in exists : row[r].status = RUNNING}, expire_stuck(stuck)
      PROVE  IInv'
    <2>1. stuck \in SUBSET Rows
        BY DEF IInv, TypeOK
    <2> QED BY <1>9, <2>1, FailKeeps DEF expire_stuck
<1>10. ASSUME NEW m \in outbox, enqueue(m) \/ accept(m) PROVE IInv'
    BY <1>10 DEF enqueue, accept, IInv, TypeOK, Consistent, Rowed,
                 GroundedIn, AttemptLeftIn, AbsentPendingIn
<1>11. ASSUME NEW m \in outbox, enqueue_raises(m) PROVE IInv'
    <2> DEFINE S == IF Current(m) THEN {m.row} ELSE {}
    <2>1. S \in SUBSET Rows
        BY DEF IInv, TypeOK, Message
    <2>2. /\ MoveToError(S, QUEUE_UNAVAILABLE)
          /\ outbox' \subseteq outbox /\ queue' \subseteq queue \cup outbox
        BY <1>11 DEF enqueue_raises
    <2> HIDE DEF S
    <2> QED BY <2>1, <2>2, FailKeeps
<1>12. ASSUME NEW m \in queue, get_snapshot(m) PROVE IInv'
    <2>1. UNCHANGED <<autoApprove, exists, row, issued, outbox, queue>>
        BY <1>12 DEF get_snapshot
    <2> QED
        BY <1>12, <2>1, SnapshotType
        DEF IInv, TypeOK, Consistent, Rowed, GroundedIn, AttemptLeftIn, AbsentPendingIn
<1>13. CASE UNCHANGED vars
    BY <1>13 DEF vars, IInv, TypeOK, Consistent, Rowed, GroundedIn, AttemptLeftIn, AbsentPendingIn
<1>14. ASSUME NEW lost \in SUBSET outbox, lose_messages(lost) PROVE IInv'
    BY <1>14 DEF lose_messages, IInv, TypeOK, Consistent, Rowed,
                 GroundedIn, AttemptLeftIn, AbsentPendingIn
<1> QED
    BY <1>1, <1>2, <1>3, <1>4, <1>5, <1>6, <1>7, <1>8, <1>9, <1>10, <1>11, <1>12, <1>13, <1>14 DEF Next

\* The inductive invariant holds throughout, whatever the constants are.
THEOREM InductiveInvariant == Spec => []IInv
<1>1. Init => IInv
    BY InitIInv
<1>2. IInv /\ [Next]_vars => IInv'
    BY NextKeeps
<1> QED BY <1>1, <1>2, PTL DEF Spec

\* The variables keep their types: no attempt is started that was not left.
THEOREM TypeCorrect == Spec => []TypeOK
<1>1. IInv => TypeOK
    BY DEF IInv
<1> QED BY <1>1, InductiveInvariant, PTL

\* Every row outside PENDING draws from DONE rows only, in every graph of rows
\* and whatever the hook, the user, the queue and the watchdog do in which order.
THEOREM AlwaysGrounded == Spec => []Grounded
<1>1. IInv => Grounded
    BY DEF IInv, Consistent, GroundedIn, Grounded
<1> QED BY <1>1, InductiveInvariant, PTL

-----------------------------------------------------------------------------
(***************************************************************************)
(* That what a row holds was made from what its inputs hold now, proved    *)
(* from the invariant and the bookkeeping of attempts: which attempt a row *)
(* has in which status, and what the snapshots read for it show.           *)
(***************************************************************************)

\* A pending row has no attempt and holds nothing, a running one holds nothing
\* yet, and every other row has the attempt issued to it last.
AttemptsIn(R) ==
    \A r \in Rows :
        /\ R[r].status = PENDING => R[r].attempt = NoAttempt /\ R[r].artifacts = {}
        /\ R[r].status # PENDING => R[r].attempt = issued[r]
        /\ R[r].status = RUNNING => R[r].artifacts = {}

\* A snapshot read for the current attempt of a row shows the current inputs.
SeenIn(R) ==
    \A s \in seen : s.attempt = R[s.row].attempt =>
        s.basis = [y \in Refs[s.row] |-> R[y].attempt]

MadeIn(R) ==
    \A r \in Rows : \A content \in R[r].artifacts :
        content.basis = [y \in Refs[r] |-> R[y].attempt]

Traced(R) == AttemptsIn(R) /\ SeenIn(R) /\ MadeIn(R)

\* No message and no snapshot is for an attempt that has not been issued.
Issued(messages) == \A m \in messages : m.attempt <= issued[m.row]

AllIssued == Issued(outbox) /\ Issued(queue) /\ Issued(seen)

Trace == IInv /\ Traced(row) /\ AllIssued

\* A message or snapshot names a row and one of its attempts.
LEMMA SentTypes ==
    ASSUME TypeOK
    PROVE  /\ \A m \in outbox \cup queue \cup seen :
                 m.row \in Rows /\ m.attempt \in Nat /\ m.attempt # NoAttempt
           /\ \A r \in Rows : issued[r] \in Nat
BY BoundAssumption DEF TypeOK, Message, Snapshot, Attempts

\* Starting rows keeps the trace: a new attempt is newer than any in a snapshot.
LEMMA AdvanceTraces ==
    ASSUME TypeOK, AllIssued, NEW E, NEW R, Consistent(E, R), Traced(R), AdvanceAndCommit(E, R)
    PROVE  Traced(row)' /\ AllIssued'
<1> DEFINE ready == Ready(E, R)
           started(x) == Transition(R[x], RUNNING, Plain, issued[x] + 1, Now, Now)
<1> USE Distinct, SentTypes
<1>1. /\ row' = [x \in Rows |-> IF x \in ready THEN started(x) ELSE R[x]]
      /\ issued' = [x \in Rows |-> IF x \in ready THEN issued[x] + 1 ELSE issued[x]]
      /\ outbox' = outbox \cup {[row |-> x, attempt |-> issued[x] + 1] : x \in ready}
      /\ queue' = queue /\ seen' = seen
    BY DEF AdvanceAndCommit, StartAndCommit
<1>2. \A x \in ready : x \in Rows /\ R[x].status = PENDING /\ R[x].artifacts = {}
    BY DEF Ready, Consistent, Traced, AttemptsIn
<1>3. \A x \in ready : /\ row'[x].status = RUNNING
                       /\ row'[x].attempt = issued[x] + 1
                       /\ row'[x].artifacts = {}
                       /\ issued'[x] = issued[x] + 1
    BY <1>1, <1>2 DEF Transition, ArtifactsAfter
<1>4. \A x \in Rows \ ready : row'[x] = R[x] /\ issued'[x] = issued[x]
    BY <1>1
<1> HIDE DEF ready, started
<1>5. \A x \in Rows : R[x].status # PENDING => \A y \in Refs[x] : y \in Rows /\ row'[y] = R[y]
    BY <1>2, <1>4, GraphAssumption DEF Consistent, GroundedIn
<1>6. AttemptsIn(row)'
    BY <1>3, <1>4 DEF AttemptsIn, Traced
<1>7. SeenIn(row)'
  <2> SUFFICES ASSUME NEW s \in seen, s.attempt = row'[s.row].attempt
               PROVE  s.basis = [y \in Refs[s.row] |-> row'[y].attempt]
      BY <1>1 DEF SeenIn
  <2>1. s.row \in Rows /\ s.attempt \in Nat /\ s.attempt # NoAttempt /\ s.attempt <= issued[s.row]
      BY DEF AllIssued, Issued
  <2>2. s.row \notin ready
      BY <1>3, <2>1
  <2>3. row'[s.row] = R[s.row]
      BY <1>4, <2>1, <2>2
  <2>4. s.basis = [y \in Refs[s.row] |-> R[y].attempt]
      BY <2>3 DEF Traced, SeenIn
  <2>5. R[s.row].status # PENDING
      BY <2>1, <2>3 DEF Traced, AttemptsIn
  <2> QED BY <1>5, <2>1, <2>4, <2>5
<1>8. MadeIn(row)'
  <2> SUFFICES ASSUME NEW r \in Rows, NEW content \in row'[r].artifacts
               PROVE  content.basis = [y \in Refs[r] |-> row'[y].attempt]
      BY DEF MadeIn
  <2>1. row'[r] = R[r]
      BY <1>3, <1>4
  <2>2. R[r].status # PENDING
      BY <2>1 DEF Traced, AttemptsIn
  <2>3. content.basis = [y \in Refs[r] |-> R[y].attempt]
      BY <2>1 DEF Traced, MadeIn
  <2> QED BY <1>5, <2>2, <2>3
<1>9. \A x \in Rows : issued[x] <= issued'[x]
    BY <1>3, <1>4
<1>10. AllIssued'
    BY <1>1, <1>2, <1>3, <1>9 DEF AllIssued, Issued
<1> QED BY <1>6, <1>7, <1>8, <1>10 DEF Traced

\* Rows that keep their attempts stay traced if what they hold does.
LEMMA SameAttempts ==
    ASSUME Traced(row), NEW R,
           \A r \in Rows : /\ R[r].attempt = row[r].attempt
                           /\ R[r].status = PENDING <=> row[r].status = PENDING
                           /\ R[r].status = RUNNING => R[r].artifacts = {}
                           /\ R[r].status = PENDING => R[r].artifacts = {}
                           /\ \A content \in R[r].artifacts :
                                 content.basis = [y \in Refs[r] |-> row[y].attempt],
           TypeOK
    PROVE  Traced(R)
<1>1. \A r \in Rows : [y \in Refs[r] |-> R[y].attempt] = [y \in Refs[r] |-> row[y].attempt]
    BY GraphAssumption
<1>2. AttemptsIn(R)
    BY DEF AttemptsIn, Traced
<1>3. SeenIn(R)
    BY <1>1, SentTypes DEF SeenIn, Traced
<1>4. MadeIn(R)
    BY <1>1 DEF MadeIn
<1> QED BY <1>2, <1>3, <1>4 DEF Traced

\* Finishing a row with what it may hold, then growing and advancing.
LEMMA FinishTraces ==
    ASSUME Trace, NEW r \in exists, row[r].status \notin {PENDING, DONE},
           NEW new \in StageRow(Attempts, Content), new.status \notin {PENDING, RUNNING},
           new.attempt = row[r].attempt,
           \A content \in new.artifacts : content.basis = [y \in Refs[r] |-> row[y].attempt],
           GrowAndAdvance([row EXCEPT ![r] = new])
    PROVE  Traced(row)' /\ AllIssued'
<1> DEFINE R == [row EXCEPT ![r] = new]
           E == exists \cup Missing(exists, R)
<1>1. r \in Rows /\ \A x \in Rows : R[x] = IF x = r THEN new ELSE row[x]
    BY DEF Trace, IInv, TypeOK
<1>2. AdvanceAndCommit(E, R)
    BY DEF GrowAndAdvance
<1>3. Consistent(exists, R)
    BY FinishKeeps DEF Trace, IInv, Consistent
<1>4. exists \subseteq E /\ E \subseteq Rows
    BY <1>3, MissingRows DEF Consistent
<1>5. Consistent(E, R)
    BY <1>4, FinishKeeps DEF Trace
<1> HIDE DEF E, R
<1>6. \A x \in Rows : /\ R[x].attempt = row[x].attempt
                      /\ R[x].status = PENDING <=> row[x].status = PENDING
                      /\ R[x].status = RUNNING => R[x].artifacts = {}
                      /\ R[x].status = PENDING => R[x].artifacts = {}
                      /\ \A content \in R[x].artifacts :
                            content.basis = [y \in Refs[x] |-> row[y].attempt]
    BY <1>1 DEF Trace, Traced, AttemptsIn, MadeIn
<1>7. Traced(R)
    BY <1>6, SameAttempts DEF Trace, IInv
<1> QED BY <1>2, <1>5, <1>7, AdvanceTraces DEF Trace, IInv

\* An applied result was made from the attempts its row's inputs have now.
LEMMA ApplySuccessTraces ==
    ASSUME Trace, NEW s \in seen, NEW plan \in Plans[s.row], NEW report \in {Clean, Violations},
           apply_success(s, plan, report)
    PROVE  Traced(row)' /\ AllIssued'
<1> DEFINE content == [plan |-> plan, basis |-> s.basis]
           stored == RecordResult(row[s.row], {content}, report)
           new == WalkSuccess(stored)
<1>1. s.row \in exists /\ row[s.row].status = RUNNING /\ row[s.row].attempt = s.attempt
    BY DEF apply_success, Current
<1>2. stored \in StageRow(Attempts, Content)
    BY StoredType DEF Trace
<1>3. GrowAndAdvance([row EXCEPT ![s.row] = new])
    BY DEF apply_success
<1>4. stored.attempt = row[s.row].attempt /\ stored.artifacts = {content}
  <2>1. row[s.row] \in StageRow(Attempts, Content)
      BY <1>1 DEF Trace, IInv, TypeOK
  <2> QED BY <2>1 DEF RecordResult, StageRow
<1>5. content.basis = [y \in Refs[s.row] |-> row[y].attempt]
    BY <1>1 DEF Trace, Traced, SeenIn
<1> HIDE DEF content, stored
<1>6. /\ new \in StageRow(Attempts, Content)
      /\ new.status \notin {PENDING, RUNNING}
      /\ new.attempt = row[s.row].attempt
      /\ new.artifacts = {content}
    BY <1>2, <1>4, WalkSuccessType, Distinct DEF Trace, IInv, RUNNING, DONE, AWAITING_DECISION
<1> HIDE DEF new
<1> QED BY <1>1, <1>3, <1>5, <1>6, Distinct, FinishTraces

\* approve changes no attempt and no artifact.
LEMMA ApproveTraces == ASSUME Trace, NEW r \in Rows, approve(r) PROVE Traced(row)' /\ AllIssued'
<1> USE Typing, Distinct
<1> DEFINE new == Transition(row[r], DONE, Approving, NoAttempt, Now, Now)
<1>1. r \in exists /\ row[r].status = AWAITING_DECISION
    BY OffersAssumption DEF approve
<1>2. new \in StageRow(Attempts, Content)
    BY TransitionType DEF Trace, IInv, TypeOK
<1>3. new.status = DONE /\ new.attempt = row[r].attempt /\ new.artifacts = row[r].artifacts
    BY DEF Transition, ArtifactsAfter, DONE, PENDING, RUNNING
<1>4. GrowAndAdvance([row EXCEPT ![r] = new])
    BY DEF approve
<1>5. \A content \in row[r].artifacts : content.basis = [y \in Refs[r] |-> row[y].attempt]
    BY DEF Trace, Traced, MadeIn
<1> HIDE DEF new
<1> QED
    BY <1>1, <1>2, <1>3, <1>4, <1>5, FinishTraces DEF AWAITING_DECISION, DONE, PENDING, RUNNING

\* regenerate resets every row that holds something made from what it resets.
LEMMA RegenerateTraces ==
    ASSUME Trace, NEW r \in Rows, regenerate(r) PROVE Traced(row)' /\ AllIssued'
<1> USE Typing, Distinct
<1> DEFINE reset(x) == Transition(row[x], PENDING, Plain, NoAttempt, Now, Now)
           R == [x \in Rows |-> IF x \in ToReset(r) THEN reset(x) ELSE row[x]]
<1>1. AdvanceAndCommit(exists, R)
    BY DEF regenerate
<1>2. ToReset(r) \subseteq Rows
    BY DEF ToReset, Trace, IInv, TypeOK
<1>3. \A x \in ToReset(r) : R[x].status = PENDING /\ R[x].attempt = NoAttempt /\ R[x].artifacts = {}
    BY <1>2 DEF Transition, ArtifactsAfter
<1>4. \A x \in Rows \ ToReset(r) : R[x] = row[x]
    OBVIOUS
<1>5. Consistent(exists, R)
    BY RegenerateConsistent DEF Trace
<1> HIDE DEF R
<1>6. \A x \in Rows : R[x].status # PENDING =>
          /\ R[x] = row[x]
          /\ [y \in Refs[x] |-> R[y].attempt] = [y \in Refs[x] |-> row[y].attempt]
    BY <1>3, <1>4, <1>5, GraphAssumption DEF Consistent, GroundedIn
<1>7. AttemptsIn(R)
    BY <1>3, <1>4 DEF Trace, Traced, AttemptsIn
<1>8. SeenIn(R)
  <2> SUFFICES ASSUME NEW s \in seen, s.attempt = R[s.row].attempt
               PROVE  s.basis = [y \in Refs[s.row] |-> R[y].attempt]
      BY DEF SeenIn
  <2>1. s.row \in Rows /\ s.attempt # NoAttempt
      BY SentTypes DEF Trace, IInv
  <2>2. R[s.row].status # PENDING
      BY <1>7, <2>1 DEF AttemptsIn
  <2> QED BY <1>6, <2>1, <2>2 DEF Trace, Traced, SeenIn
<1>9. MadeIn(R)
    BY <1>6, <1>7 DEF MadeIn, AttemptsIn, Trace, Traced
<1> QED BY <1>1, <1>5, <1>7, <1>8, <1>9, AdvanceTraces DEF Trace, IInv, Traced

\* Moving rows to ERROR changes neither attempts nor artifacts.
LEMMA FailTraces ==
    ASSUME Trace, NEW S \in SUBSET Rows, NEW code \in FailureCode, MoveToError(S, code),
           outbox' \subseteq outbox, queue' \subseteq queue \cup outbox
    PROVE  Traced(row)' /\ AllIssued'
<1> DEFINE failed(r) == Transition(row[r], ERROR, FailingWith(code), NoAttempt, Now, Now)
<1>1. /\ \A r \in S : Accepted(row[r], ERROR, FailingWith(code))
      /\ row' = [r \in Rows |-> IF r \in S THEN failed(r) ELSE row[r]]
      /\ UNCHANGED <<autoApprove, exists, issued, seen>>
    BY DEF MoveToError
<1>2. \A r \in S : /\ row[r].status # PENDING
                   /\ row'[r].status = ERROR
                   /\ row'[r].attempt = row[r].attempt
                   /\ row'[r].artifacts = row[r].artifacts
    BY <1>1, ErrorEdges DEF Transition, ArtifactsAfter, PENDING, RUNNING, ERROR
<1>3. \A r \in Rows \ S : row'[r] = row[r]
    BY <1>1
<1>4. \A x \in Rows : /\ row'[x].attempt = row[x].attempt
                      /\ row'[x].status = PENDING <=> row[x].status = PENDING
                      /\ row'[x].status = RUNNING => row'[x].artifacts = {}
                      /\ row'[x].status = PENDING => row'[x].artifacts = {}
                      /\ \A content \in row'[x].artifacts :
                            content.basis = [y \in Refs[x] |-> row[y].attempt]
    BY <1>2, <1>3, Distinct DEF Trace, Traced, AttemptsIn, MadeIn
<1>5. Traced(row')
    BY <1>4, SameAttempts DEF Trace, IInv
<1>6. Traced(row)'
    BY <1>1, <1>5 DEF Traced, AttemptsIn, SeenIn, MadeIn
<1>7. AllIssued'
    BY <1>1 DEF Trace, AllIssued, Issued
<1> QED BY <1>6, <1>7

\* A snapshot of a running row shows its inputs' current attempts.
LEMMA SnapshotTraces ==
    ASSUME Trace, NEW m \in queue, get_snapshot(m) PROVE Traced(row)' /\ AllIssued'
<1> DEFINE done(y) == IF row[y].status = DONE THEN row[y].attempt ELSE NoAttempt
           basis == [y \in Refs[m.row] |-> done(y)]
<1>1. /\ seen' = seen \cup {[row |-> m.row, attempt |-> m.attempt, basis |-> basis]}
      /\ UNCHANGED <<autoApprove, exists, row, issued, outbox, queue>>
    BY DEF get_snapshot
<1>2. m.row \in Rows /\ m.attempt # NoAttempt /\ m.attempt <= issued[m.row]
    BY SentTypes DEF Trace, IInv, AllIssued, Issued
<1>3. m.attempt = row[m.row].attempt => basis = [y \in Refs[m.row] |-> row[y].attempt]
    BY <1>2, GraphAssumption DEF Trace, Traced, AttemptsIn, IInv, Consistent, GroundedIn
<1> HIDE DEF basis
<1>4. SeenIn(row)'
    BY <1>1, <1>3 DEF Trace, Traced, SeenIn
<1>5. AttemptsIn(row)' /\ MadeIn(row)'
    BY <1>1 DEF Trace, Traced, AttemptsIn, MadeIn
<1>6. AllIssued'
    BY <1>1, <1>2 DEF Trace, AllIssued, Issued
<1> QED BY <1>4, <1>5, <1>6 DEF Traced

\* Every step keeps the trace.
LEMMA NextTraces == Trace /\ [Next]_vars => Trace'
<1> SUFFICES ASSUME Trace, [Next]_vars PROVE Traced(row)' /\ AllIssued'
    BY NextKeeps DEF Trace
<1> USE DEF FailureCode
<1>1. CASE start
    <2>1. Consistent(Initial, row)
        BY <1>1, PlanAssumption DEF start, Trace, IInv, Consistent, AbsentPendingIn
    <2> QED BY <1>1, <2>1, AdvanceTraces DEF start, Trace, IInv
<1>2. ASSUME NEW m \in queue, apply_failed(m) PROVE Traced(row)' /\ AllIssued'
    <2>1. {m.row} \in SUBSET Rows
        BY DEF Trace, IInv, TypeOK, Message
    <2> QED BY <1>2, <2>1, FailTraces DEF apply_failed
<1>3. ASSUME NEW s \in seen, NEW plan \in Plans[s.row], NEW report \in {Clean, Violations},
             apply_success(s, plan, report)
      PROVE  Traced(row)' /\ AllIssued'
    BY <1>3, ApplySuccessTraces
<1>4. CASE advance
    BY <1>4, AdvanceTraces DEF advance, Trace, IInv
<1>5. ASSUME NEW r \in Rows, regenerate(r) PROVE Traced(row)' /\ AllIssued'
    BY <1>5, RegenerateTraces
<1>6. ASSUME NEW r \in Rows, approve(r) PROVE Traced(row)' /\ AllIssued'
    BY <1>6, ApproveTraces
<1>7. ASSUME NEW r \in Rows, fail(r) PROVE Traced(row)' /\ AllIssued'
    BY <1>7, FailTraces DEF fail
<1>8. CASE cancel
    <2> DEFINE active == {r \in exists : row[r].status \in {RUNNING, CONSISTENCY_CHECK}}
    <2>1. active \in SUBSET Rows
        BY DEF Trace, IInv, TypeOK
    <2>2. MoveToError(active, CANCELED_BY_USER) /\ UNCHANGED <<outbox, queue>>
        BY <1>8 DEF cancel
    <2> HIDE DEF active
    <2> QED BY <2>1, <2>2, FailTraces
<1>9. ASSUME NEW stuck \in SUBSET {r \in exists : row[r].status = RUNNING}, expire_stuck(stuck)
      PROVE  Traced(row)' /\ AllIssued'
    <2>1. stuck \in SUBSET Rows
        BY DEF Trace, IInv, TypeOK
    <2> QED BY <1>9, <2>1, FailTraces DEF expire_stuck
<1>10. ASSUME NEW m \in outbox, enqueue(m) \/ accept(m) PROVE Traced(row)' /\ AllIssued'
    <2>1. /\ row' = row /\ issued' = issued /\ seen' = seen
          /\ outbox' \subseteq outbox /\ queue' \subseteq queue \cup outbox
        BY <1>10 DEF enqueue, accept
    <2> QED BY <2>1 DEF Trace, Traced, AttemptsIn, SeenIn, MadeIn, AllIssued, Issued
<1>11. ASSUME NEW m \in outbox, enqueue_raises(m) PROVE Traced(row)' /\ AllIssued'
    <2> DEFINE S == IF Current(m) THEN {m.row} ELSE {}
    <2>1. S \in SUBSET Rows
        BY DEF Trace, IInv, TypeOK, Message
    <2>2. /\ MoveToError(S, QUEUE_UNAVAILABLE)
          /\ outbox' \subseteq outbox /\ queue' \subseteq queue \cup outbox
        BY <1>11 DEF enqueue_raises
    <2> HIDE DEF S
    <2>3. AllIssued' /\ Traced(row)'
        BY <2>1, <2>2, FailTraces
    <2> QED BY <2>3
<1>12. ASSUME NEW m \in queue, get_snapshot(m) PROVE Traced(row)' /\ AllIssued'
    BY <1>12, SnapshotTraces
<1>13. CASE UNCHANGED vars
    BY <1>13 DEF vars, Trace, Traced, AttemptsIn, SeenIn, MadeIn, AllIssued, Issued
<1>14. ASSUME NEW lost \in SUBSET outbox, lose_messages(lost) PROVE Traced(row)' /\ AllIssued'
    <2>1. /\ row' = row /\ issued' = issued /\ seen' = seen
          /\ outbox' \subseteq outbox /\ queue' = queue
        BY <1>14 DEF lose_messages
    <2> QED BY <2>1 DEF Trace, Traced, AttemptsIn, SeenIn, MadeIn, AllIssued, Issued
<1> QED BY <1>1, <1>2, <1>3, <1>4, <1>5, <1>6, <1>7, <1>8, <1>9, <1>10, <1>11, <1>12, <1>13, <1>14 DEF Next

\* Nothing has been issued or read in a project without rows.
LEMMA InitTrace == Init => Trace
<1> SUFFICES ASSUME Init PROVE Trace
    OBVIOUS
<1>1. \A r \in Rows : /\ row[r].status = PENDING
                      /\ row[r].attempt = NoAttempt
                      /\ row[r].artifacts = {}
    BY DEF Init, NewRow
<1>2. Traced(row)
    BY <1>1, Distinct DEF Init, Traced, AttemptsIn, SeenIn, MadeIn
<1> QED BY <1>2, InitIInv DEF Init, Trace, AllIssued, Issued

\* Whatever a row holds was made from what its inputs hold now, for every graph
\* of rows: no regeneration leaves an output of replaced inputs behind, and no
\* late result brings one back.
THEOREM AlwaysMadeFromCurrentInputs == Spec => []MadeFromCurrentInputs
<1>1. Init => Trace
    BY InitTrace
<1>2. Trace /\ [Next]_vars => Trace'
    BY NextTraces
<1>3. Trace => MadeFromCurrentInputs
    BY DEF Trace, Traced, MadeIn, MadeFromCurrentInputs
<1> QED BY <1>1, <1>2, <1>3, PTL DEF Spec

-----------------------------------------------------------------------------

(***************************************************************************)
(* The rows the operations leave behind: which statuses and artifacts they *)
(* have, which rows exist, and that nothing which could start is left.     *)
(***************************************************************************)

\* Between transactions no row is checked or awaits a retry.
Resting == {PENDING, RUNNING, AWAITING_DECISION, DONE, ERROR}

RestingIn(R) == \A r \in Rows : R[r].status \in Resting

\* A row holds nothing before its attempt has ended, and something when it has succeeded.
HoldingIn(R) ==
    \A r \in Rows :
        /\ R[r].status \in {PENDING, RUNNING} => R[r].artifacts = {}
        /\ R[r].status \in {AWAITING_DECISION, DONE} => R[r].artifacts # {}

\* What a row holds is one result, with a plan such a result can have.
PlannedIn(R) ==
    \A r \in Rows : \A c, d \in R[r].artifacts : c = d /\ c.plan \in Plans[r]

\* The planner would find every row that a DONE row calls for.
Found(E, x) == \E y \in E : Slot[y] = Slot[x]

CoveredIn(E, R) ==
    \A r \in E : R[r].status = DONE => \A c \in R[r].artifacts : \A x \in c.plan : Found(E, x)

SlotOnce(E) == \A x, y \in E : Slot[x] = Slot[y] => x = y

Tidy(E, R) == RestingIn(R) /\ HoldingIn(R) /\ PlannedIn(R) /\ CoveredIn(E, R) /\ SlotOnce(E)

RInv == IInv /\ Tidy(exists, row) /\ NothingReadyIsLeft

\* What the status changes of the orchestrator do to status and artifacts.
LEMMA Moves ==
    ASSUME NEW r, NEW target, NEW opt, NEW fresh
    PROVE  /\ Transition(r, target, opt, fresh, Now, Now).status = target
           /\ Transition(r, target, opt, fresh, Now, Now).artifacts =
                 (IF target = PENDING THEN {} ELSE r.artifacts)
           /\ Transition(r, target, opt, fresh, Now, Now).consistency =
                 (IF target = PENDING THEN NoReport ELSE r.consistency)
BY DEF Transition, ArtifactsAfter

\* Starting the ready rows of tidy rows leaves tidy rows, and none that is ready.
LEMMA AdvanceTidies ==
    ASSUME TypeOK, NEW E, NEW R, Consistent(E, R), Tidy(E, R), AdvanceAndCommit(E, R)
    PROVE  RInv'
<1> USE Distinct
<1> DEFINE ready == Ready(E, R)
<1>1. /\ exists' = E
      /\ row' = [x \in Rows |-> IF x \in ready
                                THEN Transition(R[x], RUNNING, Plain, issued[x] + 1, Now, Now)
                                ELSE R[x]]
    BY DEF AdvanceAndCommit, StartAndCommit
<1>2. \A x \in ready : x \in Rows /\ R[x].status = PENDING
    BY DEF Ready, Consistent
<1>3. \A x \in ready : row'[x].status = RUNNING /\ row'[x].artifacts = R[x].artifacts
    BY <1>1, <1>2, Moves
<1>4. \A x \in Rows \ ready : row'[x] = R[x]
    BY <1>1
<1>5. IInv'
    BY AdvanceKeeps
<1> HIDE DEF ready
<1>6. RestingIn(row')
    BY <1>3, <1>4 DEF RestingIn, Resting, Tidy
<1>7. HoldingIn(row')
    BY <1>2, <1>3, <1>4 DEF HoldingIn, Tidy, RUNNING, AWAITING_DECISION, DONE
<1>8. PlannedIn(row')
    BY <1>3, <1>4 DEF PlannedIn, Tidy
<1>9. CoveredIn(E, row')
    BY <1>3, <1>4 DEF CoveredIn, Tidy, Consistent
<1>10. Ready(E, row') = {}
  <2> SUFFICES ASSUME NEW x \in E, row'[x].status = PENDING,
                      \A y \in Refs[x] : row'[y].status = DONE
               PROVE  FALSE
      BY DEF Ready
  <2>1. x \in Rows /\ x \notin ready /\ R[x].status = PENDING
      BY <1>3, <1>4 DEF Consistent
  <2>2. \A y \in Refs[x] : R[y].status = DONE
      BY <1>3, <1>4, <2>1, GraphAssumption
  <2> QED BY <2>1, <2>2 DEF ready, Ready
<1>11. Tidy(E, row')
    BY <1>6, <1>7, <1>8, <1>9 DEF Tidy
<1> QED
    BY <1>1, <1>5, <1>10, <1>11
    DEF RInv, NothingReadyIsLeft, Ready, Tidy, RestingIn, HoldingIn, PlannedIn, CoveredIn, SlotOnce

\* Rows that fail are neither PENDING nor DONE, so nothing becomes ready or is called for.
LEMMA FailTidies ==
    ASSUME RInv, NEW S \in SUBSET Rows, NEW code \in FailureCode, MoveToError(S, code),
           outbox' \subseteq outbox, queue' \subseteq queue \cup outbox
    PROVE  RInv'
<1> USE Distinct
<1>1. /\ \A r \in S : Accepted(row[r], ERROR, FailingWith(code))
      /\ row' = [r \in Rows |-> IF r \in S
                                THEN Transition(row[r], ERROR, FailingWith(code), NoAttempt, Now, Now)
                                ELSE row[r]]
      /\ exists' = exists
    BY DEF MoveToError
<1>2. \A r \in S : row[r].status \notin {PENDING, DONE}
    BY <1>1, ErrorEdges
<1>3. \A r \in S : row'[r].status = ERROR /\ row'[r].artifacts = row[r].artifacts
    BY <1>1, Moves
<1>4. \A r \in Rows \ S : row'[r] = row[r]
    BY <1>1
<1>5. IInv'
    BY FailKeeps DEF RInv
<1>6. RestingIn(row') /\ HoldingIn(row')
    BY <1>3, <1>4 DEF RestingIn, HoldingIn, Resting, RInv, Tidy
<1>7. PlannedIn(row')
    BY <1>3, <1>4 DEF PlannedIn, RInv, Tidy
<1>8. CoveredIn(exists, row')
    BY <1>3, <1>4 DEF CoveredIn, RInv, Tidy, IInv, TypeOK
<1>9. Ready(exists, row') = {}
  <2> SUFFICES ASSUME NEW x \in exists, row'[x].status = PENDING,
                      \A y \in Refs[x] : row'[y].status = DONE
               PROVE  FALSE
      BY DEF Ready
  <2>1. x \in Rows /\ row[x].status = PENDING /\ \A y \in Refs[x] : row[y].status = DONE
      BY <1>3, <1>4, GraphAssumption DEF RInv, IInv, TypeOK
  <2> QED BY <2>1 DEF RInv, NothingReadyIsLeft, Ready
<1>10. Tidy(exists, row')
    BY <1>6, <1>7, <1>8 DEF Tidy, RInv
<1> QED
    BY <1>1, <1>5, <1>9, <1>10
    DEF RInv, NothingReadyIsLeft, Ready, Tidy, RestingIn, HoldingIn, PlannedIn, CoveredIn, SlotOnce

\* Of what the rows call for once r has finished, only its own result can be missing.
LEMMA MissingFromPlan ==
    ASSUME RInv, NEW r \in exists, NEW new, NEW content, new.artifacts = {content}
    PROVE  Missing(exists, [row EXCEPT ![r] = new]) \subseteq content.plan
<1> DEFINE R == [row EXCEPT ![r] = new]
<1>1. exists \subseteq Rows /\ \A x \in Rows : R[x] = IF x = r THEN new ELSE row[x]
    BY DEF RInv, IInv, TypeOK
<1> HIDE DEF R
<1> SUFFICES ASSUME NEW x \in Missing(exists, R) PROVE x \in content.plan
    BY DEF R
<1>2. PICK y \in exists : R[y].status = DONE /\ \E c \in R[y].artifacts : x \in c.plan
    BY DEF Missing, Wanted
<1>3. ~Found(exists, x)
    BY DEF Missing, Found
<1>4. y = r
    BY <1>1, <1>2, <1>3 DEF RInv, Tidy, CoveredIn
<1> QED BY <1>1, <1>2, <1>4

(***************************************************************************)
(* What a step does to a row: it keeps the result, stores one on a row     *)
(* without, or clears it; and a row that is refused by the queue was       *)
(* running the attempt of the refused message.                             *)
(***************************************************************************)
ResultKept(r, new) ==
    /\ new.artifacts = row[r].artifacts
    /\ new.consistency = row[r].consistency
    /\ new.status = ERROR =>
          row[r].status = ERROR \/ is_valid_transition(row[r].status, ERROR)

ResultChange(r, new) ==
    \/ ResultKept(r, new)
    \/ row[r].artifacts = {} /\ new.status # ERROR
    \/ new.artifacts = {}

OwnRefusal(r) ==
    row'[r].error = QUEUE_UNAVAILABLE /\ row[r].error # QUEUE_UNAVAILABLE =>
        [row |-> r, attempt |-> row[r].attempt] \in outbox \ outbox'

Stepped(r) == ResultChange(r, row'[r]) /\ OwnRefusal(r)

\* What status changes do to the failure.
LEMMA MoveErrors ==
    ASSUME NEW r, NEW target, NEW opt, NEW fresh
    PROVE  Transition(r, target, opt, fresh, Now, Now).error =
              (CASE target \in {RUNNING, PENDING} -> NoError
                 [] target = ERROR -> opt.failure
                 [] OTHER -> r.error)
BY DEF Transition, Restarting, ERROR, RUNNING, PENDING

\* Rows that an operation has changed to R and that it hands to _advance.
LEMMA AdvanceSteps ==
    ASSUME TypeOK, NEW E, NEW R, Consistent(E, R), Tidy(E, R), AdvanceAndCommit(E, R),
           \A r \in Rows : ResultChange(r, R[r]) /\ R[r].error \in {row[r].error, NoError}
    PROVE  \A r \in Rows : Stepped(r)
<1> SUFFICES ASSUME NEW r \in Rows PROVE Stepped(r)
    OBVIOUS
<1>1. row'[r] = IF r \in Ready(E, R)
                THEN Transition(R[r], RUNNING, Plain, issued[r] + 1, Now, Now)
                ELSE R[r]
    BY DEF AdvanceAndCommit, StartAndCommit
<1>2. CASE r \in Ready(E, R)
    <2>1. R[r].artifacts = {}
        BY <1>2 DEF Ready, Tidy, HoldingIn
    <2>2. row'[r].artifacts = {} /\ row'[r].error = NoError
        BY <1>1, <1>2, <2>1, Moves, MoveErrors, Distinct
    <2> QED BY <2>2 DEF Stepped, ResultChange, OwnRefusal, NoError, QUEUE_UNAVAILABLE
<1>3. CASE r \notin Ready(E, R)
    BY <1>1, <1>3 DEF Stepped, OwnRefusal, NoError, QUEUE_UNAVAILABLE
<1> QED BY <1>2, <1>3

\* Rows that fail, with any code but that of a refused message, or of their own message.
LEMMA FailSteps ==
    ASSUME RInv, NEW S \in SUBSET Rows, NEW code \in FailureCode, MoveToError(S, code),
           \A r \in S : code = QUEUE_UNAVAILABLE =>
               [row |-> r, attempt |-> row[r].attempt] \in outbox \ outbox'
    PROVE  \A r \in Rows : Stepped(r)
<1> SUFFICES ASSUME NEW r \in Rows PROVE Stepped(r)
    OBVIOUS
<1>1. row'[r] = IF r \in S
                THEN Transition(row[r], ERROR, FailingWith(code), NoAttempt, Now, Now)
                ELSE row[r]
    BY DEF MoveToError
<1>2. CASE r \in S
    <2>1. is_valid_transition(row[r].status, ERROR)
        BY <1>2 DEF MoveToError, Accepted
    <2>2. FailingWith(code).failure = code
        BY DEF FailingWith, Call
    <2>3. row'[r].error = code
        BY <1>1, <1>2, <2>2, MoveErrors, Distinct
    <2>4. /\ row'[r].artifacts = row[r].artifacts
          /\ row'[r].consistency = row[r].consistency
        BY <1>1, <1>2, Moves, Distinct
    <2>5. ResultChange(r, row'[r])
        BY <2>1, <2>4 DEF ResultChange, ResultKept
    <2> QED BY <1>2, <2>3, <2>5 DEF Stepped, OwnRefusal
<1>3. CASE r \notin S
    BY <1>1, <1>3 DEF Stepped, ResultChange, ResultKept, OwnRefusal
<1> QED BY <1>2, <1>3

\* A result that is walked to its end has the failure of the row it was stored on.
LEMMA WalkSuccessError ==
    ASSUME NEW stored
    PROVE  WalkSuccess(stored).error = stored.error
<1> DEFINE move(r, target, opt) == Transition(r, target, opt, NoAttempt, Now, Now)
           checked == move(stored, CONSISTENCY_CHECK, Plain)
           awaits  == move(checked, AWAITING_DECISION, Plain)
<1>1. \A r, opt : \A target \in {CONSISTENCY_CHECK, AWAITING_DECISION, DONE} :
         move(r, target, opt).error = r.error
    BY DEF Transition, Restarting, PENDING, RUNNING, CONSISTENCY_CHECK, AWAITING_DECISION, DONE, ERROR
<1> HIDE DEF move, checked, awaits
<1>2. checked.error = stored.error /\ awaits.error = stored.error
    BY <1>1 DEF checked, awaits
<1>3. WalkSuccess(stored) \in {move(checked, DONE, Plain), move(awaits, DONE, Approving), awaits}
    BY DEF WalkSuccess, move, checked, awaits
<1> QED BY <1>1, <1>2, <1>3

\* Finishing a row and creating what its result calls for leaves tidy rows.
LEMMA FinishTidy ==
    ASSUME RInv, NEW r \in exists, row[r].status \notin {PENDING, DONE},
           NEW new \in StageRow(Attempts, Content), new.status \in {AWAITING_DECISION, DONE},
           NEW content, new.artifacts = {content}, content.plan \in Plans[r],
           NEW R, R = [row EXCEPT ![r] = new]
    PROVE  Consistent(exists \cup Missing(exists, R), R) /\ Tidy(exists \cup Missing(exists, R), R)
<1> USE Distinct
<1> DEFINE missing == Missing(exists, R)
           E == exists \cup missing
<1>1. exists \subseteq Rows /\ r \in Rows /\ \A x \in Rows : R[x] = IF x = r THEN new ELSE row[x]
    BY DEF RInv, IInv, TypeOK
<1>2. Consistent(exists, R)
    BY FinishKeeps DEF RInv, IInv, Consistent
<1>3. exists \subseteq E /\ E \subseteq Rows
    BY <1>2, MissingRows DEF Consistent
<1>4. Consistent(E, R)
    BY <1>3, FinishKeeps DEF RInv
<1>5. missing \subseteq content.plan
    BY MissingFromPlan
<1>6. \A x \in missing, y \in exists : Slot[x] # Slot[y]
    BY DEF Missing
<1>7. \A q \in exists : R[q].status = DONE =>
         \A c \in R[q].artifacts : \A x \in c.plan : Found(exists, x) \/ x \in missing
    BY DEF Missing, Wanted, Found
<1> HIDE DEF missing
<1>8. RestingIn(R) /\ HoldingIn(R) /\ PlannedIn(R)
    BY <1>1 DEF RInv, Tidy, RestingIn, HoldingIn, PlannedIn, Resting,
                PENDING, RUNNING, AWAITING_DECISION, DONE
<1>9. CoveredIn(E, R)
  <2> SUFFICES ASSUME NEW q \in E, R[q].status = DONE, NEW c \in R[q].artifacts, NEW x \in c.plan
               PROVE  Found(E, x)
      BY DEF CoveredIn
  <2>1. q \in exists
      BY <1>2, <1>3 DEF Consistent, AbsentPendingIn
  <2> QED BY <1>7, <2>1 DEF Found
<1>10. SlotOnce(E)
    BY <1>1, <1>5, <1>6, PlanAssumption DEF SlotOnce, RInv, Tidy
<1> HIDE DEF E
<1>11. Tidy(E, R)
    BY <1>8, <1>9, <1>10 DEF Tidy
<1> QED BY <1>4, <1>11 DEF E, missing

\* Then what is ready starts, and the failures of the rows stay what they were.
LEMMA FinishTidies ==
    ASSUME RInv, NEW r \in exists, row[r].status \notin {PENDING, DONE},
           NEW new \in StageRow(Attempts, Content), new.status \in {AWAITING_DECISION, DONE},
           NEW content, new.artifacts = {content}, content.plan \in Plans[r],
           ResultChange(r, new), new.error = row[r].error,
           GrowAndAdvance([row EXCEPT ![r] = new])
    PROVE  RInv' /\ \A x \in Rows : Stepped(x)
<1> DEFINE R == [row EXCEPT ![r] = new]
           E == exists \cup Missing(exists, R)
<1>1. \A x \in Rows : R[x] = IF x = r THEN new ELSE row[x]
    BY DEF RInv, IInv, TypeOK
<1>2. AdvanceAndCommit(E, R)
    BY DEF GrowAndAdvance
<1> HIDE DEF R
<1>3. Consistent(E, R) /\ Tidy(E, R)
    BY FinishTidy DEF R
<1> HIDE DEF E
<1>4. \A x \in Rows : ResultChange(x, R[x]) /\ R[x].error \in {row[x].error, NoError}
    BY <1>1 DEF ResultChange, ResultKept
<1> QED BY <1>2, <1>3, <1>4, AdvanceTidies, AdvanceSteps DEF RInv, IInv

\* The hook finishes a running row with a result that may call for its plan.
LEMMA ApplySuccessTidies ==
    ASSUME RInv, NEW s \in seen, NEW plan \in Plans[s.row], NEW report \in {Clean, Violations},
           apply_success(s, plan, report)
    PROVE  RInv' /\ \A x \in Rows : Stepped(x)
<1> USE Distinct
<1> DEFINE content == [plan |-> plan, basis |-> s.basis]
           stored == RecordResult(row[s.row], {content}, report)
<1>1. s.row \in exists /\ row[s.row].status = RUNNING
    BY DEF apply_success, Current
<1>2. GrowAndAdvance([row EXCEPT ![s.row] = WalkSuccess(stored)])
    BY DEF apply_success
<1>3. stored \in StageRow(Attempts, Content)
    BY StoredType DEF RInv
<1>4. row[s.row] \in StageRow(Attempts, Content)
    BY <1>1 DEF RInv, IInv, TypeOK
<1>5. stored.artifacts = {content} /\ stored.error = row[s.row].error
    BY <1>4 DEF RecordResult, StageRow
<1>6. content.plan \in Plans[s.row]
    OBVIOUS
<1> HIDE DEF content, stored
<1>7. /\ WalkSuccess(stored) \in StageRow(Attempts, Content)
      /\ WalkSuccess(stored).status \in {AWAITING_DECISION, DONE}
      /\ WalkSuccess(stored).artifacts = {content}
      /\ WalkSuccess(stored).error = row[s.row].error
    BY <1>3, <1>5, WalkSuccessType, WalkSuccessError DEF RInv, IInv
<1>8. ResultChange(s.row, WalkSuccess(stored))
    BY <1>1, <1>7 DEF ResultChange, RInv, IInv, TypeOK, Tidy, HoldingIn
<1> QED BY <1>1, <1>2, <1>6, <1>7, <1>8, FinishTidies

\* approve finishes a row with the result it holds already.
LEMMA ApproveTidies ==
    ASSUME RInv, NEW r \in Rows, approve(r)
    PROVE  RInv' /\ \A x \in Rows : Stepped(x)
<1> USE Typing, Distinct
<1> DEFINE new == Transition(row[r], DONE, Approving, NoAttempt, Now, Now)
<1>1. r \in exists /\ row[r].status = AWAITING_DECISION
    BY OffersAssumption DEF approve
<1>2. row[r] \in StageRow(Attempts, Content)
    BY DEF RInv, IInv, TypeOK
<1>3. new \in StageRow(Attempts, Content)
    BY <1>2, TransitionType
<1>4. /\ new.status = DONE
      /\ new.artifacts = row[r].artifacts
      /\ new.consistency = row[r].consistency
      /\ new.error = row[r].error
    BY Moves, MoveErrors DEF PENDING, RUNNING, DONE, ERROR
<1>5. PICK content \in row[r].artifacts : TRUE
    BY <1>1 DEF RInv, Tidy, HoldingIn
<1>6. row[r].artifacts = {content} /\ content.plan \in Plans[r]
    BY <1>5 DEF RInv, Tidy, PlannedIn
<1>7. GrowAndAdvance([row EXCEPT ![r] = new])
    BY DEF approve
<1> HIDE DEF new
<1>8. row[r].status \notin {PENDING, DONE}
    BY <1>1
<1>9. new.artifacts = {content} /\ new.status \in {AWAITING_DECISION, DONE}
    BY <1>4, <1>6
<1>10. ResultChange(r, new)
    BY <1>4 DEF ResultChange, ResultKept
<1> QED BY <1>1, <1>3, <1>4, <1>6, <1>7, <1>8, <1>9, <1>10, FinishTidies

\* A reset clears what the rows held, so nothing new is called for.
LEMMA RegenerateTidies ==
    ASSUME RInv, NEW r \in Rows, regenerate(r)
    PROVE  RInv' /\ \A x \in Rows : Stepped(x)
<1> USE Distinct
<1> DEFINE R == [x \in Rows |-> IF x \in ToReset(r)
                                THEN Transition(row[x], PENDING, Plain, NoAttempt, Now, Now)
                                ELSE row[x]]
<1>1. Consistent(exists, R)
    BY RegenerateConsistent DEF RInv
<1>2. AdvanceAndCommit(exists, R)
    BY DEF regenerate
<1>3. ToReset(r) \subseteq Rows
    BY DEF ToReset, RInv, IInv, TypeOK
<1>4. \A x \in ToReset(r) : R[x].status = PENDING /\ R[x].artifacts = {} /\ R[x].error = NoError
    BY <1>3, Moves, MoveErrors
<1>5. \A x \in Rows \ ToReset(r) : R[x] = row[x]
    OBVIOUS
<1> HIDE DEF R
<1>6. RestingIn(R) /\ HoldingIn(R) /\ PlannedIn(R)
    BY <1>4, <1>5 DEF RInv, Tidy, RestingIn, HoldingIn, PlannedIn, Resting
<1>7. CoveredIn(exists, R)
    BY <1>4, <1>5 DEF CoveredIn, RInv, Tidy, IInv, TypeOK
<1>8. Tidy(exists, R)
    BY <1>6, <1>7 DEF Tidy, RInv
<1>9. \A x \in Rows : ResultChange(x, R[x]) /\ R[x].error \in {row[x].error, NoError}
    BY <1>4, <1>5 DEF ResultChange, ResultKept
<1> QED BY <1>1, <1>2, <1>8, <1>9, AdvanceTidies, AdvanceSteps DEF RInv, IInv

\* The first rows of a project are different rows to the planner.
LEMMA StartTidies ==
    ASSUME RInv, start
    PROVE  RInv' /\ \A x \in Rows : Stepped(x)
<1>1. Consistent(Initial, row)
    BY PlanAssumption DEF start, RInv, IInv, Consistent, AbsentPendingIn
<1>2. \A r \in Rows : row[r].status = PENDING
    BY DEF start, RInv, IInv, Consistent, AbsentPendingIn
<1>3. Tidy(Initial, row)
    BY <1>2, PlanAssumption, Distinct DEF Tidy, CoveredIn, SlotOnce, RInv
<1>4. \A x \in Rows : ResultChange(x, row[x])
    BY DEF ResultChange, ResultKept
<1> QED BY <1>1, <1>3, <1>4, AdvanceTidies, AdvanceSteps DEF start, RInv, IInv

\* Every step keeps the invariant and treats the rows as described.
LEMMA NextTidies ==
    ASSUME RInv, [Next]_vars
    PROVE  RInv' /\ \A x \in Rows : Stepped(x)
<1> DEFINE Goal == RInv' /\ \A x \in Rows : Stepped(x)
<1> USE DEF FailureCode, GENERATION_FAILED, QUEUE_UNAVAILABLE, CANCELED_BY_USER, STUCK_TIMEOUT
<1>1. IInv /\ IInv'
    BY NextKeeps DEF RInv
<1>2. UNCHANGED <<exists, row>> => Goal
    BY <1>1 DEF Stepped, ResultChange, ResultKept, OwnRefusal, RInv, NothingReadyIsLeft, Ready,
                Tidy, RestingIn, HoldingIn, PlannedIn, CoveredIn, SlotOnce
<1>3. CASE start
    BY <1>3, StartTidies
<1>4. ASSUME NEW m \in queue, apply_failed(m) PROVE Goal
    <2>1. {m.row} \in SUBSET Rows
        BY <1>1 DEF IInv, TypeOK, Message
    <2> QED BY <1>4, <2>1, FailTidies, FailSteps DEF apply_failed
<1>5. ASSUME NEW s \in seen, NEW plan \in Plans[s.row], NEW report \in {Clean, Violations},
             apply_success(s, plan, report)
      PROVE  Goal
    BY <1>5, ApplySuccessTidies
<1>6. CASE advance
    BY <1>6, AdvanceTidies, AdvanceSteps DEF advance, RInv, IInv, ResultChange, ResultKept
<1>7. ASSUME NEW r \in Rows, regenerate(r) PROVE Goal
    BY <1>7, RegenerateTidies
<1>8. ASSUME NEW r \in Rows, approve(r) PROVE Goal
    BY <1>8, ApproveTidies
<1>9. ASSUME NEW r \in Rows, fail(r) PROVE Goal
    <2>1. {r} \in SUBSET Rows
        OBVIOUS
    <2> QED BY <1>9, <2>1, FailTidies, FailSteps DEF fail
<1>10. CASE cancel
    <2> DEFINE active == {r \in exists : row[r].status \in {RUNNING, CONSISTENCY_CHECK}}
    <2>1. active \in SUBSET Rows
        BY <1>1 DEF IInv, TypeOK
    <2>2. MoveToError(active, CANCELED_BY_USER) /\ UNCHANGED <<outbox, queue>>
        BY <1>10 DEF cancel
    <2> HIDE DEF active
    <2> QED BY <2>1, <2>2, FailTidies, FailSteps
<1>11. ASSUME NEW stuck \in SUBSET {r \in exists : row[r].status = RUNNING}, expire_stuck(stuck)
       PROVE  Goal
    <2>1. stuck \in SUBSET Rows
        BY <1>1 DEF IInv, TypeOK
    <2> QED BY <1>11, <2>1, FailTidies, FailSteps DEF expire_stuck
<1>12. ASSUME NEW m \in outbox, enqueue(m) \/ accept(m) PROVE Goal
    BY <1>2, <1>12 DEF enqueue, accept
<1>13. ASSUME NEW m \in outbox, enqueue_raises(m) PROVE Goal
    <2> DEFINE S == IF Current(m) THEN {m.row} ELSE {}
    <2>1. S \in SUBSET Rows
        BY <1>1 DEF IInv, TypeOK, Message
    <2>2. /\ MoveToError(S, QUEUE_UNAVAILABLE)
          /\ outbox' \subseteq outbox /\ queue' \subseteq queue \cup outbox
        BY <1>13 DEF enqueue_raises
    <2>3. \A r \in S : r = m.row /\ row[r].attempt = m.attempt
        BY DEF Current
    <2>4. m = [row |-> m.row, attempt |-> m.attempt]
        BY <1>1 DEF IInv, TypeOK, Message
    <2>5. m \in outbox \ outbox'
        BY <1>13 DEF enqueue_raises
    <2>6. \A r \in S : [row |-> r, attempt |-> row[r].attempt] \in outbox \ outbox'
        BY <2>3, <2>4, <2>5
    <2> HIDE DEF S
    <2> QED BY <2>1, <2>2, <2>6, FailTidies, FailSteps
<1>14. ASSUME NEW lost \in SUBSET outbox, lose_messages(lost) PROVE Goal
    BY <1>2, <1>14 DEF lose_messages
<1>15. ASSUME NEW m \in queue, get_snapshot(m) PROVE Goal
    BY <1>2, <1>15 DEF get_snapshot
<1>16. CASE UNCHANGED vars
    BY <1>2, <1>16 DEF vars
<1> QED
    BY <1>3, <1>4, <1>5, <1>6, <1>7, <1>8, <1>9, <1>10, <1>11, <1>12, <1>13, <1>14, <1>15, <1>16
    DEF Next

-----------------------------------------------------------------------------
\* A project without rows is tidy.
LEMMA InitTidy == Init => RInv
<1> SUFFICES ASSUME Init PROVE RInv
    OBVIOUS
<1>1. IInv
    BY InitIInv
<1>2. \A r \in Rows : row[r].status = PENDING /\ row[r].artifacts = {}
    BY DEF Init, NewRow
<1>3. Tidy(exists, row)
    BY <1>2, Distinct DEF Init, Tidy, RestingIn, HoldingIn, PlannedIn, CoveredIn, SlotOnce, Resting
<1> QED BY <1>1, <1>3 DEF RInv, NothingReadyIsLeft, Ready, Init

\* The rows are tidy throughout and none that could start is left.
THEOREM RowsInvariant == Spec => []RInv
<1>1. Init => RInv
    BY InitTidy
<1>2. RInv /\ [Next]_vars => RInv'
    BY NextTidies
<1> QED BY <1>1, <1>2, PTL DEF Spec

\* No operation leaves a row waiting that could start, whatever it finished, reset or created.
THEOREM NothingWaits == Spec => []NothingReadyIsLeft
<1>1. RInv => NothingReadyIsLeft
    BY DEF RInv
<1> QED BY <1>1, RowsInvariant, PTL

\* The planner creates no row twice, whatever rows become DONE again with which content.
THEOREM AlwaysCreatedOnce == Spec => []RowsCreatedOnce
<1>1. RInv => RowsCreatedOnce
    BY DEF RInv, Tidy, SlotOnce, RowsCreatedOnce
<1> QED BY <1>1, RowsInvariant, PTL

\* Regenerating is never refused where it is offered: every dependent row is in a status
\* from which the stage machine lets it go back to PENDING.
THEOREM AlwaysRegenerates == Spec => []RegenerateGoesThrough
<1>1. RInv => RegenerateGoesThrough
  <2> SUFFICES ASSUME RInv, NEW r \in exists, NEW x \in ToReset(r)
               PROVE  Accepted(row[x], PENDING, Plain)
      BY DEF RegenerateGoesThrough
  <2>1. row[x].status \in {RUNNING, AWAITING_DECISION, DONE, ERROR}
      BY DEF RInv, Tidy, RestingIn, Resting, IInv, TypeOK, ToReset
  <2>2. is_valid_transition(row[x].status, PENDING)
      BY <2>1, StageMachineAssumption DEF KnownTransitions, is_valid_transition
  <2> QED BY <2>2 DEF Accepted, Plain, Call, PENDING, ERROR
<1> QED BY <1>1, RowsInvariant, PTL

\* The hook can always create the rows a result it accepts calls for: what the other DONE
\* rows call for is there already, and the maps this result names were looked up.
THEOREM AlwaysExpand == Spec => []AcceptedResultsExpand
<1>1. RInv => AcceptedResultsExpand
  <2> SUFFICES ASSUME RInv, NEW s \in seen, NEW plan \in Plans[s.row],
                      NEW report \in {Clean, Violations}, Current(s), Valid(plan),
                      NEW stored,
                      stored = RecordResult(row[s.row], {[plan |-> plan, basis |-> s.basis]}, report)
               PROVE  Expandable(exists, [row EXCEPT ![s.row] = WalkSuccess(stored)])
      BY DEF AcceptedResultsExpand
  <2> DEFINE content == [plan |-> plan, basis |-> s.basis]
             R == [row EXCEPT ![s.row] = WalkSuccess(stored)]
  <2>1. s.row \in exists /\ exists \subseteq Rows /\ row[s.row] \in StageRow(Attempts, Content)
      BY DEF Current, RInv, IInv, TypeOK
  <2>2. stored \in StageRow(Attempts, Content) /\ stored.artifacts = {content}
      BY <2>1, StoredType DEF RInv, RecordResult, StageRow
  <2>3. WalkSuccess(stored).artifacts = {content}
      BY <2>2, WalkSuccessType DEF RInv, IInv
  <2>4. content.plan = plan
      OBVIOUS
  <2> HIDE DEF content
  <2>5. Missing(exists, R) \subseteq plan
      BY <2>1, <2>3, <2>4, MissingFromPlan
  <2>6. \A y \in Rows : row[y].artifacts # {} => R[y].artifacts # {}
      BY <2>1, <2>3 DEF RInv, IInv, TypeOK
  <2>7. \A x \in plan : x \in Rows /\ \A y \in Names[x] : y \in Rows /\ row[y].artifacts # {}
      BY <2>1, PlanAssumption DEF Valid, Holds
  <2> QED BY <2>5, <2>6, <2>7 DEF Expandable, Holds
<1> QED BY <1>1, RowsInvariant, PTL

\* No call of the hook, repeated or late, overwrites a result that has been applied.
THEOREM AlwaysAppliedOnce == Spec => ResultsAppliedOnce
<1> DEFINE once ==
       \A r \in Rows :
          Holds(r, row) /\ Holds(r, row') =>
              /\ row'[r].artifacts = row[r].artifacts
              /\ row'[r].consistency = row[r].consistency
<1>1. RInv /\ [Next]_vars => once
    BY NextTidies DEF Stepped, ResultChange, ResultKept, Holds
<1>2. RInv /\ [Next]_vars => [once]_vars
    BY <1>1
<1> QED BY <1>2, RowsInvariant, PTL DEF Spec, ResultsAppliedOnce, once

\* A message the queue refuses fails its own attempt only.
THEOREM RefusalsStayTheirOwn == Spec => RefusalFailsItsOwnAttempt
<1> DEFINE own ==
       \A r \in Rows :
          row'[r].error = QUEUE_UNAVAILABLE /\ row[r].error # QUEUE_UNAVAILABLE =>
              [row |-> r, attempt |-> row[r].attempt] \in outbox \ outbox'
<1>1. RInv /\ [Next]_vars => own
    BY NextTidies DEF Stepped, OwnRefusal
<1>2. RInv /\ [Next]_vars => [own]_vars
    BY <1>1
<1> QED BY <1>2, RowsInvariant, PTL DEF Spec, RefusalFailsItsOwnAttempt, own

\* If only running attempts can fail, a row holds something exactly when it has succeeded.
THEOREM HoldsWhatSucceeded ==
    ASSUME ~is_valid_transition(AWAITING_DECISION, ERROR)
    PROVE  Spec => []HoldsOnlyWhatItFinished
<1> DEFINE FailedEmpty == \A r \in Rows : row[r].status = ERROR => row[r].artifacts = {}
<1>1. Init => FailedEmpty
    BY DEF Init, NewRow
<1>2. RInv /\ FailedEmpty /\ [Next]_vars => FailedEmpty'
  <2> SUFFICES ASSUME RInv, FailedEmpty, [Next]_vars, NEW r \in Rows, row'[r].status = ERROR
               PROVE  row'[r].artifacts = {}
      OBVIOUS
  <2>1. ResultChange(r, row'[r])
      BY NextTidies DEF Stepped
  <2>2. ASSUME is_valid_transition(row[r].status, ERROR) PROVE row[r].status \in {RUNNING, ERROR}
      BY <2>2, StageMachineAssumption
         DEF RInv, Tidy, RestingIn, Resting, is_valid_transition, RefusedTransitions
  <2> QED BY <2>1, <2>2 DEF ResultChange, ResultKept, RInv, Tidy, HoldingIn
<1>3. RInv /\ FailedEmpty => HoldsOnlyWhatItFinished
    BY Distinct DEF HoldsOnlyWhatItFinished, Holds, RInv, Tidy, RestingIn, HoldingIn, Resting
<1> QED BY <1>1, <1>2, <1>3, RowsInvariant, PTL DEF Spec

=============================================================================
