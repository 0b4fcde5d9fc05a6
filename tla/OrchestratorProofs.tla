------------------------- MODULE OrchestratorProofs -------------------------
(***************************************************************************)
(* Orchestrator implements Pipeline, for every project, every stage        *)
(* machine and any number of sessions: each step of a session is a step of *)
(* Pipeline under the refinement mapping, or none.                         *)
(***************************************************************************)
EXTENDS Orchestrator, StageRowsProofs

RowType == StageRow(P!Attempts, P!Content)

\* At most one session is at work, on a project that has rows.
Exclusive ==
    \A s, t \in Sessions : pc[s] = "working" /\ pc[t] = "working" => s = t /\ exists # {}

\* What a session at work has read of a row is what the table holds, or the row was
\* running, the session has not locked it, and the message of its attempt was refused.
AsRead(s, x) ==
    \/ loaded[s][x] = row[x]
    \/ /\ x \notin LockedRow(op[s])
       /\ loaded[s][x].status = RUNNING
       /\ row[x] = Transition(loaded[s][x], ERROR, FailingWith(QUEUE_UNAVAILABLE), NoAttempt, P!Now, P!Now)

\* An operation is carried out for a request that could be made.
Asked(s) ==
    /\ op[s] \in Operations
    /\ op[s].kind \in {"regenerate", "approve", "fail"} => op[s].row \in exists
    /\ op[s].kind = "regenerate" =>
          \A x \in exists \cap Affected(op[s].row) : issued[x] < MaxAttempts
    /\ op[s].kind = "apply_failed" => op[s].result \in queue
    /\ op[s].kind = "apply_success" => op[s].result \in seen

AtWork ==
    \A s \in Sessions : pc[s] = "working" => Asked(s) /\ \A x \in Rows : AsRead(s, x)

\* The failure that is recorded is that of a row in ERROR.
NoCause == \A x \in Rows : row[x].status # ERROR => cause[x] = NoError

\* Rows that do not exist are PENDING, and a PENDING row has an attempt left.
Absent == \A x \in Rows \ exists : row[x].status = PENDING

AttemptLeft == \A x \in Rows : row[x].status = PENDING => issued[x] < MaxAttempts

\* A message is sent by one session; it is of an attempt that has been issued.
Sends ==
    /\ \A s \in Sessions : pc[s] = "compensating" => op[s] \in messages[s]
    /\ \A s, t \in Sessions : s # t => messages[s] \cap messages[t] = {}
    /\ \A s \in Sessions : \A m \in messages[s] : m.attempt <= issued[m.row]

OInv == TypeOK /\ Exclusive /\ AtWork /\ NoCause /\ Absent /\ AttemptLeft /\ Sends

-----------------------------------------------------------------------------
\* Pipeline, as an instance, has the statuses and codes of the rows.
LEMMA SameNames ==
    /\ P!PENDING = PENDING /\ P!RUNNING = RUNNING /\ P!CONSISTENCY_CHECK = CONSISTENCY_CHECK
    /\ P!AWAITING_DECISION = AWAITING_DECISION /\ P!DONE = DONE /\ P!ERROR = ERROR
    /\ P!NoAttempt = NoAttempt /\ P!NoError = NoError /\ P!NewRow = NewRow
    /\ P!GENERATION_FAILED = GENERATION_FAILED /\ P!QUEUE_UNAVAILABLE = QUEUE_UNAVAILABLE
    /\ P!CANCELED_BY_USER = CANCELED_BY_USER /\ P!STUCK_TIMEOUT = STUCK_TIMEOUT
    /\ P!Clean = Clean /\ P!Violations = Violations
    /\ P!Plain = Plain /\ P!Approving = Approving
    /\ \A code : P!FailingWith(code) = FailingWith(code)
BY DEF P!PENDING, PENDING, P!RUNNING, RUNNING, P!CONSISTENCY_CHECK, CONSISTENCY_CHECK,
       P!AWAITING_DECISION, AWAITING_DECISION, P!DONE, DONE, P!ERROR, ERROR,
       P!NoAttempt, NoAttempt, P!NoError, NoError, P!NewRow, NewRow, P!Unset, Unset,
       P!NoReport, NoReport, P!GENERATION_FAILED, GENERATION_FAILED,
       P!QUEUE_UNAVAILABLE, QUEUE_UNAVAILABLE, P!CANCELED_BY_USER, CANCELED_BY_USER,
       P!STUCK_TIMEOUT, STUCK_TIMEOUT, P!Clean, Clean, P!Violations, Violations,
       P!Plain, Plain, P!Approving, Approving, P!FailingWith, FailingWith, P!Call, Call

\* And what is done to a row.
LEMMA SameRows ==
    /\ \A A, C : P!StageRow(A, C) = StageRow(A, C)
    /\ \A r, target, opt, fresh, now, later :
          P!Transition(r, target, opt, fresh, now, later) =
             Transition(r, target, opt, fresh, now, later)
    /\ \A r, target, opt : P!Accepted(r, target, opt) <=> Accepted(r, target, opt)
    /\ \A r, contents, report : P!RecordResult(r, contents, report) = RecordResult(r, contents, report)
<1>1. ASSUME NEW A, NEW C PROVE P!StageRow(A, C) = StageRow(A, C)
    BY SameNames
    DEF P!StageRow, StageRow, P!StageStatus, StageStatus, P!NEEDS_RETRY, NEEDS_RETRY,
        P!Report, Report, P!NoReport, NoReport, P!FailureCode, FailureCode
<1>2. ASSUME NEW r, NEW target, NEW opt, NEW fresh, NEW now, NEW later
      PROVE  P!Transition(r, target, opt, fresh, now, later) =
                Transition(r, target, opt, fresh, now, later)
    BY SameNames
    DEF P!Transition, Transition, P!ArtifactsAfter, ArtifactsAfter, P!Restarting, Restarting,
        P!Settled, Settled, P!FinishedAt, FinishedAt, P!ApprovedAt, ApprovedAt,
        P!RetryCount, RetryCount,
        P!NoReport, NoReport, P!Unset, Unset
<1>3. ASSUME NEW r, NEW target, NEW opt
      PROVE  P!Accepted(r, target, opt) <=> Accepted(r, target, opt)
    BY SameNames DEF P!Accepted, Accepted, P!is_valid_transition, is_valid_transition
<1>4. ASSUME NEW r, NEW contents, NEW report
      PROVE  P!RecordResult(r, contents, report) = RecordResult(r, contents, report)
    BY DEF P!RecordResult, RecordResult
<1> QED BY <1>1, <1>2, <1>3, <1>4

LEMMA Distinct ==
    /\ {PENDING, RUNNING, CONSISTENCY_CHECK, AWAITING_DECISION, DONE, ERROR} \subseteq StageStatus
    /\ PENDING \notin {RUNNING, CONSISTENCY_CHECK, AWAITING_DECISION, DONE, ERROR}
    /\ RUNNING \notin {CONSISTENCY_CHECK, AWAITING_DECISION, DONE, ERROR}
    /\ DONE \notin {CONSISTENCY_CHECK, AWAITING_DECISION, ERROR}
    /\ ERROR \notin {CONSISTENCY_CHECK, AWAITING_DECISION}
BY DEF StageStatus, PENDING, RUNNING, CONSISTENCY_CHECK, AWAITING_DECISION, NEEDS_RETRY, DONE, ERROR

LEMMA Typing ==
    /\ Plain \in Options /\ Approving \in Options
    /\ \A code \in FailureCode : /\ FailingWith(code) \in Options
                                 /\ FailingWith(code).failure = code
                                 /\ code # NoError
    /\ NoAttempt \in P!Attempts /\ P!Now \in Nat
    /\ NewRow \in RowType
<1>1. Plain \in Options /\ Approving \in Options
    BY DEF Plain, Approving, Call, Options
<1>2. ASSUME NEW code \in FailureCode
      PROVE  FailingWith(code) \in Options /\ FailingWith(code).failure = code /\ code # NoError
    BY DEF FailingWith, Call, Options, FailureCode, NoError, GENERATION_FAILED,
           QUEUE_UNAVAILABLE, CANCELED_BY_USER, STUCK_TIMEOUT
<1>3. NoAttempt \in P!Attempts /\ P!Now \in Nat
    BY PipelineAssumption DEF P!BoundAssumption, NoAttempt, P!Attempts, P!Now
<1>4. NewRow \in RowType
    BY <1>3 DEF NewRow, RowType, StageRow, StageStatus, PENDING, Report, NoReport, Unset
<1> QED BY <1>1, <1>2, <1>3, <1>4

\* What status changes do to the fields the mapping and the planner look at.
LEMMA Moves ==
    ASSUME NEW r, NEW target, NEW opt, NEW fresh
    PROVE  /\ Transition(r, target, opt, fresh, P!Now, P!Now).status = target
           /\ Transition(r, target, opt, fresh, P!Now, P!Now).artifacts =
                 (IF target = PENDING THEN {} ELSE r.artifacts)
           /\ Transition(r, target, opt, fresh, P!Now, P!Now).error =
                 (CASE target \in {RUNNING, PENDING} -> NoError
                    [] target = ERROR -> opt.failure
                    [] OTHER -> r.error)
BY Distinct DEF Transition, ArtifactsAfter, Restarting

\* Neither a start nor a reset nor a failure depends on the failure before.
LEMMA TransitionForgets ==
    ASSUME NEW r \in RowType, NEW e, NEW target \in {RUNNING, PENDING, ERROR}, NEW opt, NEW fresh
    PROVE  Transition([r EXCEPT !.error = e], target, opt, fresh, P!Now, P!Now) =
               Transition(r, target, opt, fresh, P!Now, P!Now)
BY Distinct
DEF Transition, ArtifactsAfter, Restarting, Settled, FinishedAt, ApprovedAt, RetryCount, RowType, StageRow

\* Every other status change keeps it.
LEMMA TransitionKeeps ==
    ASSUME NEW r \in RowType, NEW e, NEW target \in {CONSISTENCY_CHECK, AWAITING_DECISION, DONE},
           NEW opt, NEW fresh
    PROVE  Transition([r EXCEPT !.error = e], target, opt, fresh, P!Now, P!Now) =
               [Transition(r, target, opt, fresh, P!Now, P!Now) EXCEPT !.error = e]
BY Distinct
DEF Transition, ArtifactsAfter, Restarting, Settled, FinishedAt, ApprovedAt, RetryCount, RowType, StageRow

\* What the mapping shows of a row.
LEMMA Mapped ==
    ASSUME TypeOK
    PROVE  \A x \in Rows : /\ FirstFailure[x] = [row[x] EXCEPT !.error = cause[x]]
                           /\ FirstFailure[x].status = row[x].status
                           /\ FirstFailure[x].artifacts = row[x].artifacts
                           /\ FirstFailure[x].attempt = row[x].attempt
                           /\ FirstFailure[x].error = cause[x]
BY DEF TypeOK, FirstFailure, StageRow

\* The events of a _Work, and the last one told of row x.
Lists == [Rows -> Seq(StageStatus)]

Tells(told, x, status) == told[x] # <<>> /\ told[x][Len(told[x])] = status

LEMMA AppendEnds ==
    ASSUME NEW q \in Seq(StageStatus), NEW status \in StageStatus
    PROVE  /\ Append(q, status) \in Seq(StageStatus)
           /\ Append(q, status) # <<>>
           /\ Append(q, status)[Len(Append(q, status))] = status
OBVIOUS

LEMMA TailEnds ==
    ASSUME NEW q \in Seq(StageStatus), q # <<>>
    PROVE  /\ Tail(q) \in Seq(StageStatus)
           /\ Tail(q) = <<>> => q[Len(q)] = Head(q)
           /\ Tail(q) # <<>> => Tail(q)[Len(Tail(q))] = q[Len(q)]
<1>1. \A p \in Seq(StageStatus) : Len(p) \in Nat /\ (Len(p) = 0 <=> p = <<>>)
    OBVIOUS
<1>2. Tail(q) \in Seq(StageStatus) /\ Len(Tail(q)) = Len(q) - 1
    OBVIOUS
<1>3. \A i \in 1..Len(Tail(q)) : Tail(q)[i] = q[i + 1]
    OBVIOUS
<1>4. Head(q) = q[1]
    OBVIOUS
<1>5. ASSUME Tail(q) = <<>> PROVE q[Len(q)] = Head(q)
  <2>1. Len(q) \in Nat /\ Len(Tail(q)) \in Nat /\ Len(<<>>) = 0
      BY <1>1, <1>2
  <2>2. Len(Tail(q)) = Len(<<>>)
      BY <1>5, Zenon
  <2> DEFINE n == Len(q)
             k == Len(Tail(q))
  <2>3. n \in Nat /\ k = 0 /\ k = n - 1
      BY <1>2, <2>1, <2>2
  <2> HIDE DEF n, k
  <2>4. n = 1
      BY <2>3
  <2> QED BY <1>4, <2>4 DEF n
<1>6. ASSUME Tail(q) # <<>> PROVE Tail(q)[Len(Tail(q))] = q[Len(q)]
  <2>1. Len(Tail(q)) \in Nat \ {0} /\ Len(q) \in Nat
      BY <1>1, <1>2, <1>6
  <2>2. Len(Tail(q)) \in 1..Len(Tail(q)) /\ Len(Tail(q)) + 1 = Len(q)
      BY <1>2, <2>1
  <2> QED BY <1>3, <2>2
<1> QED BY <1>2, <1>5, <1>6

\* What is announced is told, and nothing else.
LEMMA AnnounceTells ==
    ASSUME NEW told \in Lists, NEW S, NEW status \in StageStatus
    PROVE  /\ Announce(told, S, status) \in Lists
           /\ \A x \in Rows : /\ x \in S => Tells(Announce(told, S, status), x, status)
                              /\ x \notin S => Announce(told, S, status)[x] = told[x]
BY AppendEnds DEF Announce, Lists, Tells

LEMMA NothingTold == NoEvents \in Lists
BY DEF NoEvents, Lists

-----------------------------------------------------------------------------
(***************************************************************************)
(* The commit of an operation.                                             *)
(***************************************************************************)

\* What a commit leaves of every row.
Left(View, R, S, x) ==
    LET started == IF x \in S THEN Transition(R[x], RUNNING, Plain, issued[x] + 1, P!Now, P!Now) ELSE R[x]
    IN  IF started = View[x] THEN row[x] ELSE started

LEMMA CommitRows ==
    ASSUME NEW s, NEW View, NEW E, NEW R, NEW S, NEW told, Commit(s, View, E, R, S, told),
           NEW x \in Rows
    PROVE  /\ row'[x] = Left(View, R, S, x)
           /\ cause'[x] = (IF row'[x].status # ERROR THEN NoError
                           ELSE IF row[x].status = ERROR THEN cause[x] ELSE row'[x].error)
BY DEF Commit, Written, CauseAfter, Left

\* Operations keep the invariant when they commit rows that may be committed.
LEMMA CommitKeeps ==
    ASSUME OInv, NEW s \in Sessions, \A t \in Sessions : pc[t] = "working" => t = s,
           messages[s] = {},
           NEW View, NEW E \in SUBSET Rows, exists \subseteq E,
           NEW R, NEW S \in SUBSET E,
           \A x \in Rows : /\ R[x] \in RowType
                           /\ R[x].status = PENDING => issued[x] < MaxAttempts
                           /\ x \notin E => R[x] = View[x],
           \A x \in S : R[x].status = PENDING /\ View[x] = row[x],
           NEW told \in Lists, Commit(s, View, E, R, S, told)
    PROVE  OInv'
<1> USE Typing, Distinct
<1>0. MaxAttempts \in Nat /\ P!Attempts = 0..MaxAttempts
    BY PipelineAssumption DEF P!BoundAssumption, P!Attempts
<1>1. \A x \in S : issued[x] + 1 \in P!Attempts \ {NoAttempt}
    BY <1>0 DEF OInv, TypeOK, NoAttempt
<1>2. \A x \in S : Transition(R[x], RUNNING, Plain, issued[x] + 1, P!Now, P!Now) \in RowType
  <2> SUFFICES ASSUME NEW x \in S
               PROVE  Transition(R[x], RUNNING, Plain, issued[x] + 1, P!Now, P!Now) \in RowType
      OBVIOUS
  <2>1. R[x] \in StageRow(P!Attempts, P!Content) /\ issued[x] + 1 \in P!Attempts
      BY <1>1 DEF RowType
  <2> QED BY <2>1, TransitionType DEF RowType
<1>3. \A x \in Rows : row'[x] \in RowType /\ row[x] \in RowType
  <2>1. \A x \in Rows : row'[x] = Left(View, R, S, x)
      BY CommitRows
  <2>2. \A x \in Rows : row[x] \in RowType
      BY DEF OInv, TypeOK, RowType
  <2> QED BY <1>2, <2>1, <2>2 DEF Left
<1>4. \A x \in S : Transition(R[x], RUNNING, Plain, issued[x] + 1, P!Now, P!Now).status = RUNNING
    BY Moves
<1>5. \A x \in Rows : row'[x] = row[x] \/ row'[x].status = RUNNING \/ (x \notin S /\ row'[x] = R[x])
    BY <1>4, CommitRows DEF Left
<1>6. /\ exists' = E
      /\ issued' = [x \in Rows |-> IF x \in S THEN issued[x] + 1 ELSE issued[x]]
      /\ loaded' = [loaded EXCEPT ![s] = NoRow]
      /\ op' = [op EXCEPT ![s] = NoOp]
      /\ UNCHANGED <<autoApprove, queue, seen>>
    BY DEF Commit, Dispatch
<1>7. PICK sent \in SUBSET P!Message :
         /\ sent = {[row |-> x, attempt |-> issued[x] + 1] : x \in S}
         /\ events' = [events EXCEPT ![s] = told]
         /\ messages' = [messages EXCEPT ![s] = sent]
         /\ pc' = [pc EXCEPT ![s] = IF told = NoEvents /\ sent = {} THEN "idle" ELSE "dispatching"]
  <2> DEFINE sent == {[row |-> x, attempt |-> issued[x] + 1] : x \in S}
  <2>1. sent \in SUBSET P!Message
      BY <1>1 DEF P!Message, P!NoAttempt, NoAttempt
  <2>2. Dispatch(s, told, sent)
      BY DEF Commit
  <2> QED BY <2>1, <2>2 DEF Dispatch
<1>8. TypeOK'
  <2>1. row' \in [Rows -> RowType]
      BY <1>3 DEF Commit, Written
  <2>2. issued' \in [Rows -> P!Attempts]
      BY <1>1, <1>6 DEF OInv, TypeOK
  <2>3. loaded' \in [Sessions -> [Rows -> RowType]]
      BY <1>6 DEF OInv, TypeOK, RowType, NoRow
  <2>4. op' \in [Sessions -> Operations \cup P!Message \cup {NoOp}]
      BY <1>6 DEF OInv, TypeOK
  <2>5. /\ events' \in [Sessions -> Lists]
        /\ messages' \in [Sessions -> SUBSET P!Message]
        /\ pc' \in [Sessions -> {"idle", "working", "dispatching", "compensating"}]
        /\ \A t \in Sessions : pc'[t] \in {"idle", "working"} =>
              events'[t] = NoEvents /\ messages'[t] = {}
      BY <1>7 DEF OInv, TypeOK, Lists
  <2>6. cause' \in [Rows -> FailureCode \cup {NoError}]
    <3>1. \A x \in Rows : cause'[x] \in FailureCode \cup {NoError}
        BY <1>3, CommitRows DEF OInv, TypeOK, RowType, StageRow
    <3> QED BY <3>1 DEF Commit, CauseAfter
  <2>7. unannounced' \subseteq Rows
      BY DEF Commit, OInv, TypeOK
  <2> QED BY <1>6, <2>1, <2>2, <2>3, <2>4, <2>5, <2>6, <2>7 DEF TypeOK, RowType, OInv, Lists
<1>9. \A t \in Sessions : pc'[t] # "working"
    BY <1>7 DEF OInv, TypeOK
<1>10. Exclusive' /\ AtWork'
    BY <1>9 DEF Exclusive, AtWork
<1>11. NoCause'
    BY CommitRows DEF NoCause
<1>12. Absent'
    BY <1>6, CommitRows DEF Left, Absent, OInv
<1>13. AttemptLeft'
  <2> SUFFICES ASSUME NEW x \in Rows, row'[x].status = PENDING
               PROVE  issued'[x] < MaxAttempts
      BY DEF AttemptLeft
  <2>1. CASE x \in S
      BY <2>1, <1>4, CommitRows DEF Left
  <2>2. CASE x \notin S
      BY <2>2, <1>5, <1>6 DEF OInv, AttemptLeft
  <2> QED BY <2>1, <2>2
<1>14. Sends'
  <2>1. \A t \in Sessions \ {s} : messages'[t] = messages[t] /\ pc'[t] = pc[t] /\ op'[t] = op[t]
      BY <1>6, <1>7 DEF OInv, TypeOK
  <2>2. messages'[s] = sent /\ pc'[s] # "compensating"
      BY <1>7 DEF OInv, TypeOK
  <2>3. \A x \in Rows : issued[x] <= issued'[x] /\ issued'[x] \in Nat /\ issued[x] \in Nat
      BY <1>0, <1>6 DEF OInv, TypeOK
  <2>4. \A t \in Sessions \ {s} : \A m \in messages[t] :
           m.row \in Rows /\ m.attempt \in Nat /\ m.attempt <= issued[m.row]
      BY <1>0 DEF OInv, TypeOK, Sends, P!Message
  <2>5. \A m \in sent : m.attempt = issued[m.row] + 1 /\ m.attempt = issued'[m.row]
      BY <1>6, <1>7
  <2>6. \A m \in sent : m.row \in Rows
      BY <1>7
  <2>7. \A t \in Sessions \ {s} : messages[t] \cap sent = {}
      BY <2>3, <2>4, <2>5, <2>6
  <2> HIDE <1>7
  <2>8. \A t, u \in Sessions : t # u => messages'[t] \cap messages'[u] = {}
      BY <2>1, <2>2, <2>7 DEF OInv, Sends
  <2>9. \A t \in Sessions : \A m \in messages'[t] : m.attempt <= issued'[m.row]
      BY <2>1, <2>2, <2>3, <2>4, <2>5, <2>6
  <2>10. \A t \in Sessions : pc'[t] = "compensating" => op'[t] \in messages'[t]
      BY <2>1, <2>2 DEF OInv, Sends
  <2> QED BY <2>8, <2>9, <2>10 DEF Sends
<1> QED BY <1>8, <1>10, <1>11, <1>12, <1>13, <1>14 DEF OInv

(***************************************************************************)
(* An operation that starts what is ready.  RP is what Pipeline makes of   *)
(* the rows where the session has made R of what it read.                  *)
(***************************************************************************)

\* A row the operation has left alone, which it may have read before a compensation.
Untouched(View, R, RP, x) ==
    /\ R[x] = View[x]
    /\ RP[x] = FirstFailure[x]
    /\ \/ View[x] = row[x]
       \/ /\ View[x].status = RUNNING /\ row[x].status = ERROR
          /\ row[x].artifacts = View[x].artifacts

\* A row it has changed, which it has locked.
Touched(View, R, RP, x) ==
    /\ x \in exists
    /\ View[x] = row[x]
    /\ R[x].status # ERROR
    /\ R[x].status = PENDING => issued[x] < MaxAttempts
    /\ RP[x] = [R[x] EXCEPT !.error = NoError]

Prepared(View, R, RP) ==
    /\ \A x \in Rows : R[x] \in RowType
    /\ \A x \in Rows : Untouched(View, R, RP, x) \/ Touched(View, R, RP, x)
    /\ RP = [x \in Rows |-> RP[x]]

\* The planner sees the same in both.
LEMMA SamePlanning ==
    ASSUME OInv, NEW View, NEW R, NEW RP, Prepared(View, R, RP)
    PROVE  /\ \A x \in Rows : /\ RP[x].status = PENDING <=> R[x].status = PENDING
                              /\ RP[x].status = DONE <=> R[x].status = DONE
                              /\ RP[x].artifacts = R[x].artifacts
           /\ \A E \in SUBSET Rows : P!Ready(E, RP) = P!Ready(E, R)
           /\ P!Missing(exists, RP) = P!Missing(exists, R)
           /\ P!Missing(exists, R) \subseteq Rows
           /\ P!Expandable(exists, R) => P!Expandable(exists, RP)
<1> USE SameNames, Distinct
<1>1. exists \subseteq Rows /\ \A x \in Rows : Refs[x] \subseteq Rows /\ Names[x] \subseteq Rows
    BY PipelineAssumption DEF P!GraphAssumption, P!PlanAssumption, OInv, TypeOK
<1>2. \A x \in Rows : /\ RP[x].status = PENDING <=> R[x].status = PENDING
                      /\ RP[x].status = DONE <=> R[x].status = DONE
                      /\ RP[x].artifacts = R[x].artifacts
  <2> SUFFICES ASSUME NEW x \in Rows
               PROVE  /\ RP[x].status = PENDING <=> R[x].status = PENDING
                      /\ RP[x].status = DONE <=> R[x].status = DONE
                      /\ RP[x].artifacts = R[x].artifacts
      OBVIOUS
  <2>1. CASE Untouched(View, R, RP, x)
      BY <2>1, Mapped DEF Untouched, OInv
  <2>2. CASE Touched(View, R, RP, x)
    <3>1. R[x] \in StageRow(P!Attempts, P!Content)
        BY DEF Prepared, RowType
    <3> QED BY <2>2, <3>1 DEF Touched, StageRow
  <2> QED BY <2>1, <2>2 DEF Prepared
<1>3. \A E \in SUBSET Rows : P!Ready(E, RP) = P!Ready(E, R)
    BY <1>1, <1>2 DEF P!Ready
<1>4. {x \in exists : RP[x].status = P!DONE} = {x \in exists : R[x].status = P!DONE}
    BY <1>1, <1>2
<1>5. \A r \in {x \in exists : R[x].status = P!DONE} : RP[r].artifacts = R[r].artifacts
    BY <1>1, <1>2
<1>6. P!Wanted(exists, RP) = P!Wanted(exists, R)
    BY <1>4, <1>5 DEF P!Wanted
<1>7. P!Missing(exists, RP) = P!Missing(exists, R)
    BY <1>6 DEF P!Missing
<1>8. P!Missing(exists, R) \subseteq Rows
  <2>1. \A x \in exists : \A content \in R[x].artifacts : content.plan \subseteq Rows
      BY <1>1 DEF Prepared, RowType, StageRow, P!Content
  <2> QED BY <2>1 DEF P!Missing, P!Wanted
<1>9. P!Expandable(exists, R) => P!Expandable(exists, RP)
    BY <1>1, <1>2, <1>7, <1>8 DEF P!Expandable, P!Holds
<1> QED BY <1>2, <1>3, <1>7, <1>8, <1>9

\* The messages the sessions have left, when one session gets new ones.
LEMMA UnsentAfter ==
    ASSUME TypeOK, NEW s \in Sessions, NEW sent, messages' = [messages EXCEPT ![s] = sent]
    PROVE  /\ messages[s] = {} => Unsent' = Unsent \cup sent
           /\ sent \subseteq messages[s] => Unsent' \subseteq Unsent
           /\ Unsent' \subseteq Unsent \cup sent
<1>1. \A t \in Sessions : messages'[t] = IF t = s THEN sent ELSE messages[t]
    BY DEF TypeOK
<1> QED BY <1>1 DEF Unsent

\* The commit maps to Pipeline's.
LEMMA AdvanceMaps ==
    ASSUME OInv, NEW s \in Sessions, messages[s] = {}, \A t \in Sessions : pc[t] = "working" => t = s,
           NEW View, NEW E \in SUBSET Rows, exists \subseteq E, NEW R, NEW RP,
           Prepared(View, R, RP), NEW told \in Lists, Advance(s, View, E, R, told)
    PROVE  OInv' /\ P!AdvanceAndCommit(E, RP)
<1> USE Distinct
<1> DEFINE S == P!Ready(E, R)
<1> DEFINE all == Announce(told, S, RUNNING)
<1>1. Commit(s, View, E, R, S, all) /\ all \in Lists
    BY AnnounceTells DEF Advance
<1>2. \A x \in S : x \in E /\ x \in Rows /\ R[x].status = PENDING
    BY SameNames DEF P!Ready
<1>3. \A x \in Rows : R[x] \in RowType /\ row[x] \in RowType
    BY DEF Prepared, OInv, TypeOK, RowType
<1>4. \A x \in S : View[x] = row[x]
    BY <1>2 DEF Prepared, Untouched, Touched
<1>5. \A x \in Rows : R[x].status = PENDING => issued[x] < MaxAttempts
    BY DEF Prepared, Untouched, Touched, OInv, AttemptLeft
<1>6. \A x \in Rows : x \notin E => R[x] = View[x]
    BY DEF Prepared, Untouched, Touched
<1>7. S = P!Ready(E, RP)
    BY SamePlanning
<1> HIDE DEF S, all
<1>8. OInv'
  <2>1. S \in SUBSET E
      BY <1>2
  <2> QED BY <1>1, <1>2, <1>3, <1>4, <1>5, <1>6, <2>1, CommitKeeps
<1>9. \A x \in Rows : FirstFailure'[x] =
         IF x \in S THEN Transition(RP[x], RUNNING, Plain, issued[x] + 1, P!Now, P!Now) ELSE RP[x]
  <2> SUFFICES ASSUME NEW x \in Rows
               PROVE  FirstFailure'[x] =
                        IF x \in S
                        THEN Transition(RP[x], RUNNING, Plain, issued[x] + 1, P!Now, P!Now)
                        ELSE RP[x]
      OBVIOUS
  <2>1. FirstFailure'[x] = [row'[x] EXCEPT !.error = cause'[x]]
      BY DEF FirstFailure
  <2>2. /\ row'[x] = Left(View, R, S, x)
        /\ cause'[x] = (IF row'[x].status # ERROR THEN NoError
                        ELSE IF row[x].status = ERROR THEN cause[x] ELSE row'[x].error)
      BY <1>1, CommitRows
  <2>3. Untouched(View, R, RP, x) \/ Touched(View, R, RP, x)
      BY DEF Prepared
  <2>4. FirstFailure[x] = [row[x] EXCEPT !.error = cause[x]]
      BY DEF FirstFailure
  <2>5. CASE x \in S
    <3> DEFINE started == Transition(R[x], RUNNING, Plain, issued[x] + 1, P!Now, P!Now)
    <3>1. row'[x] = started
        BY <1>4, <2>2, <2>5 DEF Left
    <3>2. started.status = RUNNING /\ started.error = NoError
        BY Moves
    <3>3. cause'[x] = NoError
        BY <2>2, <3>1, <3>2
    <3>4. [started EXCEPT !.error = NoError] = started
        BY <3>2 DEF Transition
    <3>5. \E e : RP[x] = [R[x] EXCEPT !.error = e]
        BY <1>4, <2>3, <2>4, <2>5 DEF Untouched, Touched
    <3>6. Transition(RP[x], RUNNING, Plain, issued[x] + 1, P!Now, P!Now) = started
        BY <1>3, <3>5, TransitionForgets
    <3> HIDE DEF started
    <3> QED BY <2>1, <2>5, <3>1, <3>3, <3>4, <3>6
  <2>6. CASE x \notin S /\ Untouched(View, R, RP, x)
    <3>1. row'[x] = row[x]
        BY <2>2, <2>6 DEF Left, Untouched
    <3>2. cause'[x] = cause[x]
        BY <2>2, <3>1 DEF OInv, NoCause
    <3> QED BY <2>1, <2>4, <2>6, <3>1, <3>2 DEF Untouched
  <2>7. CASE x \notin S /\ Touched(View, R, RP, x)
    <3>1. row'[x] = R[x]
        BY <2>2, <2>7 DEF Left, Touched
    <3>2. cause'[x] = NoError
        BY <2>2, <2>7, <3>1 DEF Touched
    <3> QED BY <2>1, <2>7, <3>1, <3>2 DEF Touched
  <2> QED BY <2>3, <2>5, <2>6, <2>7
<1>10. FirstFailure' = [x \in Rows |-> IF x \in S
                                       THEN P!Transition(RP[x], P!RUNNING, P!Plain,
                                                         issued[x] + 1, P!Now, P!Now)
                                       ELSE RP[x]]
  <2>1. \A x \in Rows : Transition(RP[x], RUNNING, Plain, issued[x] + 1, P!Now, P!Now) =
                        P!Transition(RP[x], P!RUNNING, P!Plain, issued[x] + 1, P!Now, P!Now)
      BY SameRows, SameNames
  <2>2. FirstFailure' = [x \in Rows |-> FirstFailure'[x]]
      BY DEF FirstFailure
  <2> HIDE DEF FirstFailure
  <2> QED BY <1>9, <2>1, <2>2
<1>11. Unsent' = Unsent \cup {[row |-> x, attempt |-> issued[x] + 1] : x \in S}
  <2>1. messages' = [messages EXCEPT ![s] = {[row |-> x, attempt |-> issued[x] + 1] : x \in S}]
      BY <1>1 DEF Commit, Dispatch
  <2> QED BY <2>1, UnsentAfter DEF OInv
<1>12. /\ exists' = E
       /\ issued' = [x \in Rows |-> IF x \in S THEN issued[x] + 1 ELSE issued[x]]
       /\ UNCHANGED <<autoApprove, queue, seen>>
    BY <1>1 DEF Commit
<1>13. P!StartAndCommit(E, RP, S)
    BY <1>10, <1>11, <1>12 DEF P!StartAndCommit
<1> QED BY <1>7, <1>8, <1>13 DEF P!AdvanceAndCommit

-----------------------------------------------------------------------------
(***************************************************************************)
(* The operations that start rows.                                         *)
(***************************************************************************)

\* What the next state has to be: the invariant holds and Pipeline took a step or none.
Implements == OInv' /\ [P!Next]_(P!vars)

\* What a session at work goes by.
LEMMA WorkingView ==
    ASSUME OInv, NEW s \in Sessions, pc[s] = "working"
    PROVE  /\ messages[s] = {} /\ exists # {}
           /\ \A t \in Sessions : pc[t] = "working" => t = s
           /\ loaded[s] \in [Rows -> RowType] /\ row \in [Rows -> RowType]
           /\ Asked(s)
           /\ \A x \in Rows :
                 \/ loaded[s][x] = row[x]
                 \/ /\ x \notin LockedRow(op[s])
                    /\ loaded[s][x].status = RUNNING /\ row[x].status = ERROR
                    /\ row[x].artifacts = loaded[s][x].artifacts
<1>1. Asked(s) /\ \A x \in Rows : AsRead(s, x)
    BY DEF OInv, AtWork
<1>2. \A x \in Rows :
         \/ loaded[s][x] = row[x]
         \/ /\ x \notin LockedRow(op[s])
            /\ loaded[s][x].status = RUNNING /\ row[x].status = ERROR
            /\ row[x].artifacts = loaded[s][x].artifacts
    BY <1>1, Moves, Distinct DEF AsRead
<1> QED BY <1>1, <1>2 DEF OInv, TypeOK, Exclusive, RowType

\* A row that fails or is PENDING has no result to finish, a running one has an attempt.
LEMMA Existing ==
    ASSUME OInv, NEW r \in Rows, row[r].status # PENDING
    PROVE  r \in exists
BY DEF OInv, Absent

LEMMA StartImplements ==
    ASSUME OInv, NEW s \in Sessions, start(s)
    PROVE  Implements
<1> DEFINE told == Announce(NoEvents, Initial, PENDING)
<1>1. /\ pc[s] = "idle" /\ exists = {} /\ Advance(s, row, Initial, row, told)
      /\ told \in Lists
    BY NothingTold, AnnounceTells, Distinct DEF start
<1> HIDE DEF told
<1>2. messages[s] = {} /\ \A t \in Sessions : pc[t] = "working" => t = s
    BY <1>1 DEF OInv, TypeOK, Exclusive
<1>3. Initial \in SUBSET Rows
    BY PipelineAssumption DEF P!PlanAssumption
<1>4. Prepared(row, row, FirstFailure)
    BY DEF Prepared, Untouched, FirstFailure, OInv, TypeOK, RowType
<1>5. OInv' /\ P!AdvanceAndCommit(Initial, FirstFailure)
    BY <1>1, <1>2, <1>3, <1>4, AdvanceMaps
<1> QED BY <1>1, <1>5 DEF Implements, P!Next, P!start

LEMMA AdvanceImplements ==
    ASSUME OInv, NEW s \in Sessions, advance(s)
    PROVE  Implements
<1>1. pc[s] = "working" /\ Advance(s, loaded[s], exists, loaded[s], NoEvents)
    BY DEF advance, Working
<1>2. Prepared(loaded[s], loaded[s], FirstFailure)
    BY <1>1, WorkingView DEF Prepared, Untouched, FirstFailure
<1>3. exists \in SUBSET Rows
    BY DEF OInv, TypeOK
<1>4. OInv' /\ P!AdvanceAndCommit(exists, FirstFailure)
    BY <1>1, <1>2, <1>3, NothingTold, WorkingView, AdvanceMaps
<1> QED BY <1>1, <1>4, WorkingView DEF Implements, P!Next, P!advance

\* Rows are created for what has finished, then what is ready starts.
LEMMA GrowMaps ==
    ASSUME OInv, NEW s \in Sessions, pc[s] = "working", NEW R, NEW RP,
           Prepared(loaded[s], R, RP), NEW told \in Lists,
           GrowAndAdvance(s, loaded[s], R, told)
    PROVE  OInv' /\ P!GrowAndAdvance(RP)
<1> DEFINE E == exists \cup P!Missing(exists, R)
           all == Announce(told, P!Missing(exists, R), PENDING)
<1>1. P!Expandable(exists, R) /\ Advance(s, loaded[s], E, R, all) /\ all \in Lists
    BY AnnounceTells, Distinct DEF GrowAndAdvance
<1>2. E \in SUBSET Rows /\ E = exists \cup P!Missing(exists, RP) /\ P!Expandable(exists, RP)
    BY <1>1, SamePlanning DEF OInv, TypeOK
<1>3. exists \subseteq E
    OBVIOUS
<1> HIDE DEF E, all
<1>4. OInv' /\ P!AdvanceAndCommit(E, RP)
    BY <1>1, <1>2, <1>3, WorkingView, AdvanceMaps
<1> QED BY <1>2, <1>4 DEF P!GrowAndAdvance

LEMMA ApproveImplements ==
    ASSUME OInv, NEW s \in Sessions, approve(s)
    PROVE  Implements
<1> USE Typing, Distinct
<1> DEFINE r == op[s].row
           new == Transition(loaded[s][r], DONE, Approving, NoAttempt, P!Now, P!Now)
           newP == Transition(FirstFailure[r], DONE, Approving, NoAttempt, P!Now, P!Now)
           R == [loaded[s] EXCEPT ![r] = new]
           RP == [FirstFailure EXCEPT ![r] = newP]
           told == Announce(NoEvents, {r}, DONE)
<1>1. /\ pc[s] = "working" /\ op[s].kind = "approve"
      /\ loaded[s][r].status \in ApproveOffered
      /\ GrowAndAdvance(s, loaded[s], R, told) /\ told \in Lists
    BY NothingTold, AnnounceTells DEF approve, Working
<1>2. r \in exists /\ r \in Rows
    BY <1>1, WorkingView DEF Asked, OInv, TypeOK
<1>3. loaded[s][r] = row[r] /\ row[r] \in RowType
    BY <1>1, <1>2, WorkingView DEF LockedRow
<1>4. new \in RowType /\ new.status = DONE
  <2>1. new \in RowType
      BY <1>3, TransitionType DEF RowType
  <2> QED BY <2>1, Moves
<1>5. newP = [new EXCEPT !.error = NoError]
  <2>1. row[r].status = AWAITING_DECISION
      BY <1>1, <1>3, OffersAssumption
  <2>2. cause[r] = NoError
      BY <1>2, <2>1 DEF OInv, NoCause
  <2>3. FirstFailure[r] = [row[r] EXCEPT !.error = NoError]
      BY <1>2, <2>2 DEF FirstFailure
  <2> QED BY <1>3, <2>3, TransitionKeeps
<1> HIDE DEF new, newP, told
<1>6. Prepared(loaded[s], R, RP)
  <2>1. \A x \in Rows : R[x] = IF x = r THEN new ELSE loaded[s][x]
      BY <1>1, WorkingView
  <2>2. \A x \in Rows : RP[x] = IF x = r THEN newP ELSE FirstFailure[x]
      BY DEF FirstFailure
  <2>3. RP = [x \in Rows |-> RP[x]]
      BY DEF FirstFailure
  <2> HIDE DEF R, RP, r
  <2>4. \A x \in Rows : R[x] \in RowType
      BY <1>1, <1>4, <2>1, WorkingView
  <2>5. ASSUME NEW x \in Rows PROVE Untouched(loaded[s], R, RP, x) \/ Touched(loaded[s], R, RP, x)
    <3>1. CASE x = r
        BY <1>2, <1>3, <1>4, <1>5, <2>1, <2>2, <3>1 DEF Touched
    <3>2. CASE x # r
        BY <1>1, <2>1, <2>2, <3>2, WorkingView DEF Untouched
    <3> QED BY <3>1, <3>2
  <2> QED BY <2>3, <2>4, <2>5 DEF Prepared
<1>7. OInv' /\ P!GrowAndAdvance(RP)
    BY <1>1, <1>6, GrowMaps
<1>8. P!approve(r)
  <2>1. FirstFailure[r].status \in ApproveOffered
      BY <1>1, <1>2, <1>3, Mapped DEF OInv
  <2>2. newP = P!Transition(FirstFailure[r], P!DONE, P!Approving, P!NoAttempt, P!Now, P!Now)
      BY SameNames, SameRows DEF newP
  <2> HIDE DEF r
  <2> QED BY <1>2, <1>7, <2>1, <2>2 DEF P!approve
<1> QED BY <1>2, <1>7, <1>8 DEF Implements, P!Next

-----------------------------------------------------------------------------
(***************************************************************************)
(* The operations that end attempts.  Where one overwrites the failure a   *)
(* compensation has put under its read, Pipeline does nothing to the row.  *)
(***************************************************************************)

\* The rows of S that are still as they were read.
AsTheyWere(s, S) == {x \in S : loaded[s][x] = row[x]}

LEMMA MoveToErrorMaps ==
    ASSUME OInv, NEW s \in Sessions, pc[s] = "working", NEW S \in SUBSET exists,
           NEW code \in FailureCode, MoveToError(s, loaded[s], S, code)
    PROVE  /\ OInv' /\ P!MoveToError(AsTheyWere(s, S), code)
           /\ Unsent' = Unsent /\ UNCHANGED <<autoApprove, exists, issued, queue, seen>>
<1> USE Typing, Distinct
<1> DEFINE View == loaded[s]
           failed(x) == Transition(View[x], ERROR, FailingWith(code), NoAttempt, P!Now, P!Now)
           R == [r \in Rows |-> IF r \in S THEN failed(r) ELSE View[r]]
           told == Announce(NoEvents, S, ERROR)
<1>1. /\ Commit(s, View, exists, R, {}, told) /\ told \in Lists
      /\ \A x \in S : Accepted(View[x], ERROR, FailingWith(code))
    BY NothingTold, AnnounceTells DEF MoveToError
<1>2. exists \in SUBSET Rows /\ S \subseteq Rows
    BY DEF OInv, TypeOK
<1>3. \A x \in Rows : View[x] \in RowType /\ row[x] \in RowType
    BY WorkingView
<1>4. \A x \in Rows : View[x] = row[x] \/ (View[x].status = RUNNING /\ row[x].status = ERROR)
    BY WorkingView
<1>5. \A x \in S : View[x].status # ERROR
    BY <1>1, FailureIsFinal DEF Accepted, is_valid_transition
<1>6. \A x \in Rows : failed(x) \in RowType /\ failed(x).status = ERROR /\ failed(x).error = code
  <2> SUFFICES ASSUME NEW x \in Rows
               PROVE  failed(x) \in RowType /\ failed(x).status = ERROR /\ failed(x).error = code
      OBVIOUS
  <2>1. View[x] \in StageRow(P!Attempts, P!Content)
      BY <1>3 DEF RowType
  <2>2. failed(x) \in RowType
      BY <2>1, TransitionType DEF RowType
  <2> QED BY <2>2, Moves
<1> HIDE DEF failed, View, told
<1>7. \A x \in Rows : R[x] = IF x \in S THEN failed(x) ELSE View[x]
    OBVIOUS
<1> HIDE DEF R
<1>8. OInv'
  <2>1. \A x \in Rows : /\ R[x] \in RowType
                        /\ R[x].status = PENDING => issued[x] < MaxAttempts
                        /\ x \notin exists => R[x] = View[x]
      BY <1>3, <1>4, <1>6, <1>7 DEF OInv, AttemptLeft
  <2>2. messages[s] = {} /\ \A t \in Sessions : pc[t] = "working" => t = s
      BY WorkingView
  <2> QED BY <1>1, <1>2, <2>1, <2>2, CommitKeeps
<1>9. \A x \in Rows : row'[x] = IF x \in S THEN failed(x) ELSE row[x]
  <2> SUFFICES ASSUME NEW x \in Rows
               PROVE  row'[x] = IF x \in S THEN failed(x) ELSE row[x]
      OBVIOUS
  <2>1. row'[x] = IF R[x] = View[x] THEN row[x] ELSE R[x]
      BY <1>1, CommitRows DEF Left
  <2> QED BY <1>5, <1>6, <1>7, <2>1
<1>10. ASSUME NEW x \in Rows
       PROVE  FirstFailure'[x] =
                IF x \in AsTheyWere(s, S)
                THEN Transition(FirstFailure[x], ERROR, FailingWith(code), NoAttempt, P!Now, P!Now)
                ELSE FirstFailure[x]
  <2>1. FirstFailure'[x] = [row'[x] EXCEPT !.error = cause'[x]]
        /\ FirstFailure[x] = [row[x] EXCEPT !.error = cause[x]]
      BY DEF FirstFailure
  <2>2. cause'[x] = (IF row'[x].status # ERROR THEN NoError
                     ELSE IF row[x].status = ERROR THEN cause[x] ELSE row'[x].error)
      BY <1>1, CommitRows
  <2>3. CASE x \notin S
    <3>1. cause'[x] = cause[x]
        BY <1>9, <2>2, <2>3 DEF OInv, NoCause
    <3> QED BY <1>9, <2>1, <2>3, <3>1 DEF AsTheyWere
  <2>4. CASE x \in S /\ View[x] = row[x]
    <3>1. row'[x] = failed(x) /\ cause'[x] = code
        BY <1>5, <1>6, <1>9, <2>2, <2>4
    <3>2. [failed(x) EXCEPT !.error = code] = failed(x)
        BY <1>6 DEF RowType, StageRow
    <3>3. Transition(FirstFailure[x], ERROR, FailingWith(code), NoAttempt, P!Now, P!Now) =
             Transition(row[x], ERROR, FailingWith(code), NoAttempt, P!Now, P!Now)
        BY <1>3, <2>1, TransitionForgets
    <3>4. failed(x) = Transition(row[x], ERROR, FailingWith(code), NoAttempt, P!Now, P!Now)
        BY <2>4 DEF failed
    <3> QED BY <2>1, <2>4, <3>1, <3>2, <3>3, <3>4 DEF AsTheyWere, View
  <2>5. CASE x \in S /\ View[x] # row[x]
    <3>1. AsRead(s, x)
        BY DEF OInv, AtWork
    <3>2. row[x] = Transition(View[x], ERROR, FailingWith(QUEUE_UNAVAILABLE), NoAttempt, P!Now, P!Now)
        BY <2>5, <3>1 DEF AsRead, View
    <3>3. cause'[x] = cause[x]
        BY <1>4, <1>6, <1>9, <2>2, <2>5
    <3>4. [failed(x) EXCEPT !.error = cause[x]] = [row[x] EXCEPT !.error = cause[x]]
        BY <3>2 DEF failed, Transition, FailingWith, Call, ArtifactsAfter, FinishedAt, ApprovedAt, RetryCount
    <3> QED BY <1>9, <2>1, <2>5, <3>3, <3>4 DEF AsTheyWere, View
  <2> QED BY <2>3, <2>4, <2>5
<1>11. FirstFailure' = [x \in Rows |-> IF x \in AsTheyWere(s, S)
                                       THEN P!Transition(FirstFailure[x], P!ERROR, P!FailingWith(code),
                                                         P!NoAttempt, P!Now, P!Now)
                                       ELSE FirstFailure[x]]
  <2>1. \A x \in Rows :
          P!Transition(FirstFailure[x], P!ERROR, P!FailingWith(code), P!NoAttempt, P!Now, P!Now) =
          Transition(FirstFailure[x], ERROR, FailingWith(code), NoAttempt, P!Now, P!Now)
      BY SameNames, SameRows
  <2>2. FirstFailure' = [x \in Rows |-> FirstFailure'[x]]
      BY DEF FirstFailure
  <2> HIDE DEF FirstFailure
  <2> QED BY <1>10, <2>1, <2>2
<1>12. \A x \in AsTheyWere(s, S) : P!Accepted(FirstFailure[x], P!ERROR, P!FailingWith(code))
  <2> SUFFICES ASSUME NEW x \in AsTheyWere(s, S)
               PROVE  P!Accepted(FirstFailure[x], P!ERROR, P!FailingWith(code))
      OBVIOUS
  <2>1. Accepted(row[x], ERROR, FailingWith(code)) /\ x \in Rows
      BY <1>1, <1>2 DEF AsTheyWere, View
  <2>2. Accepted(FirstFailure[x], ERROR, FailingWith(code))
      BY <2>1, Mapped DEF Accepted, OInv
  <2> QED BY <2>2, SameNames, SameRows
<1>13. UNCHANGED <<autoApprove, exists, issued, queue, seen>>
  <2>1. \A x \in Rows : issued[x] = issued'[x]
      BY <1>1 DEF Commit
  <2>2. issued' = [x \in Rows |-> issued[x]]
      BY <1>1 DEF Commit
  <2> QED BY <1>1, <2>2 DEF Commit, OInv, TypeOK
<1>14. Unsent' = Unsent
  <2>1. messages' = [messages EXCEPT ![s] = {}]
      BY <1>1 DEF Commit, Dispatch
  <2>2. Unsent' = Unsent \cup {}
      BY <2>1, WorkingView, UnsentAfter DEF OInv
  <2> QED BY <2>2
<1> QED BY <1>8, <1>11, <1>12, <1>13, <1>14 DEF P!MoveToError

\* A row that the operation has locked is as it was read.
LEMMA LockedFails ==
    ASSUME OInv, NEW s \in Sessions, pc[s] = "working",
           NEW r \in exists, r \in LockedRow(op[s]), NEW code \in FailureCode,
           MoveToError(s, loaded[s], {r}, code)
    PROVE  OInv' /\ P!MoveToError({r}, code) /\ Unsent' = Unsent /\ queue' = queue
<1>1. r \in Rows
    BY DEF OInv, TypeOK
<1>2. AsTheyWere(s, {r}) = {r}
    BY <1>1, WorkingView DEF AsTheyWere
<1> QED BY <1>2, MoveToErrorMaps

\* Nothing that is mapped changes when no row does.
LEMMA NothingFails ==
    ASSUME OInv, NEW code, P!MoveToError({}, code), Unsent' = Unsent, queue' = queue
    PROVE  UNCHANGED P!vars
<1>1. FirstFailure' = [r \in Rows |-> FirstFailure[r]]
    BY DEF P!MoveToError
<1>2. FirstFailure' = FirstFailure
    BY <1>1 DEF FirstFailure
<1> QED BY <1>2 DEF P!MoveToError, P!vars

LEMMA ApplyFailedImplements ==
    ASSUME OInv, NEW s \in Sessions, apply_failed(s)
    PROVE  Implements
<1> DEFINE m == op[s].result
<1>1. /\ pc[s] = "working" /\ op[s].kind = "apply_failed"
      /\ Current(loaded[s], m) /\ MoveToError(s, loaded[s], {m.row}, GENERATION_FAILED)
    BY DEF apply_failed, Working
<1>2. m \in queue /\ m.row \in Rows
    BY <1>1, WorkingView DEF Asked, OInv, TypeOK, P!Message
<1>3. m.row \in LockedRow(op[s])
    BY <1>1 DEF LockedRow
<1>4. Current(row, m)
    BY <1>1, <1>2, <1>3, WorkingView DEF Current
<1>5. m.row \in exists /\ P!Current(m)
  <2>1. m.row \in exists
      BY <1>2, <1>4, Existing, Distinct DEF Current
  <2> QED BY <1>2, <1>4, <2>1, Mapped, SameNames DEF P!Current, Current, OInv
<1> HIDE DEF m
<1>6. OInv' /\ P!MoveToError({m.row}, GENERATION_FAILED) /\ Unsent' = Unsent /\ queue' = queue
    BY <1>1, <1>3, <1>5, LockedFails DEF FailureCode
<1>7. P!apply_failed(m)
    BY <1>5, <1>6, SameNames DEF P!apply_failed
<1> QED BY <1>2, <1>6, <1>7 DEF Implements, P!Next

LEMMA FailImplements ==
    ASSUME OInv, NEW s \in Sessions, fail(s)
    PROVE  Implements
<1> DEFINE r == op[s].row
<1>1. /\ pc[s] = "working" /\ op[s].kind = "fail"
      /\ MoveToError(s, loaded[s], {r}, GENERATION_FAILED)
    BY DEF fail, Working
<1>2. r \in exists /\ r \in Rows /\ r \in LockedRow(op[s])
    BY <1>1, WorkingView DEF Asked, LockedRow, OInv, TypeOK
<1> HIDE DEF r
<1>3. OInv' /\ P!MoveToError({r}, GENERATION_FAILED) /\ Unsent' = Unsent /\ queue' = queue
    BY <1>1, <1>2, LockedFails DEF FailureCode
<1>4. P!fail(r)
    BY <1>2, <1>3, SameNames DEF P!fail
<1> QED BY <1>2, <1>3, <1>4 DEF Implements, P!Next

LEMMA CancelImplements ==
    ASSUME OInv, NEW s \in Sessions, cancel(s)
    PROVE  Implements
<1> DEFINE S == {r \in exists : loaded[s][r].status \in {RUNNING, CONSISTENCY_CHECK}}
           T == {r \in exists : FirstFailure[r].status \in {P!RUNNING, P!CONSISTENCY_CHECK}}
<1>1. pc[s] = "working" /\ MoveToError(s, loaded[s], S, CANCELED_BY_USER)
    BY DEF cancel, Working
<1>2. AsTheyWere(s, S) = T
  <2>1. \A x \in exists : x \in Rows /\ FirstFailure[x].status = row[x].status
      BY Mapped DEF OInv, TypeOK
  <2>2. \A x \in exists : loaded[s][x] = row[x] \/ row[x].status = ERROR
      BY <1>1, <2>1, WorkingView
  <2> QED BY <2>1, <2>2, SameNames, Distinct DEF AsTheyWere
<1> HIDE DEF T
<1>3. OInv' /\ P!MoveToError(T, CANCELED_BY_USER) /\ Unsent' = Unsent /\ queue' = queue
    BY <1>1, <1>2, MoveToErrorMaps DEF FailureCode
<1>4. CASE T = {}
    BY <1>3, <1>4, NothingFails DEF Implements
<1>5. CASE T # {}
  <2>1. P!cancel
      BY <1>3, <1>5, SameNames DEF P!cancel, T
  <2> QED BY <1>3, <2>1 DEF Implements, P!Next
<1> QED BY <1>4, <1>5

LEMMA ExpireStuckImplements ==
    ASSUME OInv, NEW s \in Sessions, expire_stuck(s)
    PROVE  Implements
<1>1. PICK S \in SUBSET {r \in exists : loaded[s][r].status = RUNNING} :
         pc[s] = "working" /\ MoveToError(s, loaded[s], S, STUCK_TIMEOUT)
    BY DEF expire_stuck, Working
<1> DEFINE T == AsTheyWere(s, S)
<1>2. T \in SUBSET {r \in exists : FirstFailure[r].status = P!RUNNING}
  <2>1. \A x \in exists : x \in Rows /\ FirstFailure[x].status = row[x].status
      BY Mapped DEF OInv, TypeOK
  <2> QED BY <1>1, <2>1, SameNames DEF AsTheyWere
<1>3. OInv' /\ P!MoveToError(T, STUCK_TIMEOUT) /\ Unsent' = Unsent /\ queue' = queue
    BY <1>1, MoveToErrorMaps DEF FailureCode
<1> HIDE DEF T
<1>4. CASE T = {}
    BY <1>3, <1>4, NothingFails DEF Implements
<1>5. CASE T # {}
  <2>1. P!expire_stuck(T)
      BY <1>3, <1>5, SameNames DEF P!expire_stuck
  <2> QED BY <1>2, <1>3, <2>1 DEF Implements, P!Next
<1> QED BY <1>4, <1>5

-----------------------------------------------------------------------------
(***************************************************************************)
(* regenerate reads the rows it resets again, so none of them is stale.    *)
(***************************************************************************)
LEMMA RegenerateImplements ==
    ASSUME OInv, NEW s \in Sessions, regenerate(s)
    PROVE  Implements
<1> USE Typing, Distinct
<1> DEFINE r == op[s].row
           View == Reread(s, r)
           ToReset == {x \in exists \cap Affected(r) : View[x].status # PENDING}
           new(x) == Transition(View[x], PENDING, Plain, NoAttempt, P!Now, P!Now)
           R == [x \in Rows |-> IF x \in ToReset THEN new(x) ELSE View[x]]
           RP == [x \in Rows |-> IF x \in ToReset
                                 THEN P!Transition(FirstFailure[x], P!PENDING, P!Plain,
                                                   P!NoAttempt, P!Now, P!Now)
                                 ELSE FirstFailure[x]]
           told == Announce(NoEvents, ToReset, PENDING)
<1>1. /\ pc[s] = "working" /\ op[s].kind = "regenerate"
      /\ loaded[s][r].status \in RegenerateOffered
      /\ \A x \in ToReset : Accepted(View[x], PENDING, Plain)
      /\ Advance(s, View, exists, R, told) /\ told \in Lists
    BY NothingTold, AnnounceTells DEF regenerate, Working
<1>2. r \in exists /\ r \in Rows /\ exists \subseteq Rows
    BY <1>1, WorkingView DEF Asked, OInv, TypeOK
<1>3. \A x \in exists \cap Affected(r) : issued[x] < MaxAttempts
    BY <1>1, WorkingView DEF Asked
<1>4. \A x \in Rows : /\ View[x] \in RowType /\ row[x] \in RowType
                      /\ \/ View[x] = row[x]
                         \/ /\ x \notin Affected(r) /\ View[x].status = RUNNING
                            /\ row[x].status = ERROR /\ row[x].artifacts = View[x].artifacts
    BY <1>1, WorkingView DEF Reread
<1>5. loaded[s][r] = row[r]
    BY <1>1, <1>2, WorkingView DEF LockedRow
<1>6. \A x \in Rows : new(x) \in RowType /\ new(x).status = PENDING /\ new(x).error = NoError
  <2> SUFFICES ASSUME NEW x \in Rows
               PROVE  new(x) \in RowType /\ new(x).status = PENDING /\ new(x).error = NoError
      OBVIOUS
  <2>1. View[x] \in StageRow(P!Attempts, P!Content)
      BY <1>4 DEF RowType
  <2>2. new(x) \in RowType
      BY <2>1, TransitionType DEF RowType
  <2> QED BY <2>2, Moves
<1>7. ToReset = P!ToReset(r)
  <2>1. \A x \in exists \cap Affected(r) : FirstFailure[x].status = View[x].status
      BY <1>2, <1>4, Mapped DEF OInv
  <2> QED BY <2>1, SameNames DEF P!ToReset, Affected
<1>8. \A x \in ToReset : x \in exists /\ x \in Rows /\ x \in Affected(r) /\ View[x] = row[x]
    BY <1>2, <1>4
<1>9. \A x \in ToReset : P!Transition(FirstFailure[x], P!PENDING, P!Plain, P!NoAttempt, P!Now, P!Now) = new(x)
  <2> SUFFICES ASSUME NEW x \in ToReset
               PROVE  Transition(FirstFailure[x], PENDING, Plain, NoAttempt, P!Now, P!Now) = new(x)
      BY SameNames, SameRows
  <2> HIDE DEF ToReset, View, r
  <2>1. x \in Rows /\ View[x] = row[x] /\ row[x] \in RowType
      BY <1>4, <1>8
  <2>2. FirstFailure[x] = [row[x] EXCEPT !.error = cause[x]]
      BY <2>1 DEF FirstFailure
  <2> QED BY <2>1, <2>2, TransitionForgets
<1>11. \A x \in ToReset : P!Accepted(FirstFailure[x], P!PENDING, P!Plain)
  <2> SUFFICES ASSUME NEW x \in ToReset PROVE Accepted(FirstFailure[x], PENDING, Plain)
      BY SameNames, SameRows
  <2>1. Accepted(View[x], PENDING, Plain) /\ x \in Rows /\ View[x] = row[x]
      BY <1>1, <1>8
  <2> HIDE DEF ToReset, View, r
  <2> QED BY <2>1, Mapped DEF Accepted, OInv
<1>12. \A x \in Rows : R[x] = IF x \in ToReset THEN new(x) ELSE View[x]
    OBVIOUS
<1>13. \A x \in Rows : RP[x] = IF x \in ToReset THEN new(x) ELSE FirstFailure[x]
    BY <1>9
<1>14. FirstFailure[r].status \in RegenerateOffered
    BY <1>1, <1>2, <1>5, Mapped DEF OInv
<1>15. RP = [x \in Rows |-> RP[x]]
    OBVIOUS
<1>16. ASSUME OInv', P!AdvanceAndCommit(exists, RP)
       PROVE  Implements
  <2>1. \A x \in P!ToReset(r) : issued[x] < MaxAttempts
      BY <1>3, <1>7, <1>8
  <2>2. P!regenerate(r)
      BY <1>2, <1>7, <1>11, <1>14, <1>16, <2>1 DEF P!regenerate
  <2> HIDE DEF r
  <2> QED BY <1>2, <1>16, <2>2 DEF Implements, P!Next
<1> HIDE DEF R, RP, new, told, ToReset, View
<1>17. Prepared(View, R, RP)
  <2>1. \A x \in Rows : R[x] \in RowType
      BY <1>4, <1>6, <1>12
  <2>2. ASSUME NEW x \in Rows PROVE Untouched(View, R, RP, x) \/ Touched(View, R, RP, x)
    <3>1. CASE x \in ToReset
      <4>1. [new(x) EXCEPT !.error = NoError] = new(x)
          BY <1>6 DEF RowType, StageRow
      <4> QED BY <1>3, <1>6, <1>8, <1>12, <1>13, <3>1, <4>1 DEF Touched
    <3>2. CASE x \notin ToReset
        BY <1>4, <1>12, <1>13, <3>2 DEF Untouched
    <3> QED BY <3>1, <3>2
  <2> QED BY <1>15, <2>1, <2>2 DEF Prepared
<1>18. OInv' /\ P!AdvanceAndCommit(exists, RP)
  <2>1. messages[s] = {} /\ \A t \in Sessions : pc[t] = "working" => t = s
      BY <1>1, WorkingView
  <2>2. exists \in SUBSET Rows /\ exists \subseteq exists
      BY <1>2
  <2> QED BY <1>1, <1>17, <2>1, <2>2, AdvanceMaps
<1> QED BY <1>16, <1>18

-----------------------------------------------------------------------------
(***************************************************************************)
(* apply_result, with artifacts: the row is locked, the ones that hold the *)
(* maps it names are not.                                                  *)
(***************************************************************************)

\* The statuses a result takes its row through.
LEMMA WalkType ==
    ASSUME NEW q \in RowType, NEW e
    PROVE  /\ P!WalkSuccess(q) \in RowType
           /\ P!WalkSuccess(q).status \in {DONE, AWAITING_DECISION}
           /\ P!WalkSuccess(q).status = (IF q.consistency # Violations \/ autoApprove
                                         THEN DONE ELSE AWAITING_DECISION)
           /\ P!WalkSuccess([q EXCEPT !.error = e]) = [P!WalkSuccess(q) EXCEPT !.error = e]
<1> USE Typing, Distinct
<1> DEFINE move(x, target, opt) == Transition(x, target, opt, NoAttempt, P!Now, P!Now)
           checked(x) == move(x, CONSISTENCY_CHECK, Plain)
           awaits(x) == move(checked(x), AWAITING_DECISION, Plain)
           done(x) == move(checked(x), DONE, Plain)
           approved(x) == move(awaits(x), DONE, Approving)
           failed == [q EXCEPT !.error = e]
<1>1. \A x : P!WalkSuccess(x) = IF x.consistency # Violations THEN done(x)
                                ELSE IF autoApprove THEN approved(x) ELSE awaits(x)
    BY SameNames, SameRows DEF P!WalkSuccess
<1>2. ASSUME NEW x \in RowType, NEW target \in {CONSISTENCY_CHECK, AWAITING_DECISION, DONE},
             NEW opt \in {Plain, Approving}
      PROVE  /\ move(x, target, opt) \in RowType
             /\ move(x, target, opt).status = target
             /\ move([x EXCEPT !.error = e], target, opt) = [move(x, target, opt) EXCEPT !.error = e]
  <2>1. x \in StageRow(P!Attempts, P!Content) /\ opt \in Options /\ target \in StageStatus /\ target # ERROR
      BY DEF RowType
  <2>2. move(x, target, opt) \in RowType
      BY <2>1, TransitionType DEF RowType
  <2> QED BY <2>2, Moves, TransitionKeeps
<1> HIDE DEF move
<1>3. checked(q) \in RowType /\ checked(failed) = [checked(q) EXCEPT !.error = e]
    BY <1>2
<1> HIDE DEF checked
<1>4. /\ awaits(q) \in RowType /\ awaits(q).status = AWAITING_DECISION
      /\ awaits(failed) = [awaits(q) EXCEPT !.error = e]
    BY <1>2, <1>3
<1>5. /\ done(q) \in RowType /\ done(q).status = DONE
      /\ done(failed) = [done(q) EXCEPT !.error = e]
    BY <1>2, <1>3
<1> HIDE DEF awaits, done
<1>6. /\ approved(q) \in RowType /\ approved(q).status = DONE
      /\ approved(failed) = [approved(q) EXCEPT !.error = e]
    BY <1>2, <1>4
<1> HIDE DEF approved
<1>7. failed.consistency = q.consistency
    BY DEF RowType, StageRow
<1> QED BY <1>1, <1>4, <1>5, <1>6, <1>7

LEMMA ApplySuccessImplements ==
    ASSUME OInv, NEW s \in Sessions, apply_success(s)
    PROVE  Implements
<1> USE Typing, Distinct
<1> DEFINE result == op[s].result
           r == result.row
           View == loaded[s]
<1>1. /\ pc[s] = "working" /\ op[s].kind = "apply_success"
      /\ Current(View, result)
    BY DEF apply_success, Working
<1>2. PICK plan \in Plans[r], report \in {Clean, Violations} :
         /\ \A x \in plan : \A y \in Names[x] : P!Holds(y, View)
         /\ GrowAndAdvance(s, View,
               [View EXCEPT ![r] = P!WalkSuccess(RecordResult(View[r],
                   {[plan |-> plan, basis |-> result.basis]}, report))],
               [NoEvents EXCEPT ![r] = SuccessPath(report)])
    BY DEF apply_success
<1> DEFINE content == [plan |-> plan, basis |-> result.basis]
           stored == RecordResult(View[r], {content}, report)
           storedP == P!RecordResult(FirstFailure[r], {content}, report)
           R == [View EXCEPT ![r] = P!WalkSuccess(stored)]
           RP == [FirstFailure EXCEPT ![r] = P!WalkSuccess(storedP)]
<1>3. result \in seen /\ result \in P!Snapshot /\ r \in Rows
    BY <1>1, WorkingView DEF Asked, OInv, TypeOK, P!Snapshot
<1>4. r \in LockedRow(op[s])
    BY <1>1 DEF LockedRow
<1>5. View[r] = row[r] /\ row[r] \in RowType /\ row[r].status = RUNNING /\ row[r].attempt = result.attempt
    BY <1>1, <1>3, <1>4, WorkingView DEF Current
<1>6. r \in exists
    BY <1>3, <1>5, Existing
<1>7. plan \subseteq Rows /\ \A x \in Rows : Names[x] \subseteq Rows
    BY <1>3, PipelineAssumption DEF P!PlanAssumption
<1>8. stored \in RowType
  <2>1. content \in P!Content
      BY <1>3, <1>7 DEF P!Content, P!Snapshot
  <2>2. report \in Report
      BY DEF Report
  <2> QED BY <1>5, <2>1, <2>2 DEF RecordResult, RowType, StageRow
<1>9. storedP = [stored EXCEPT !.error = NoError]
  <2>1. FirstFailure[r] = [row[r] EXCEPT !.error = NoError]
      BY <1>3, <1>5 DEF OInv, NoCause, FirstFailure
  <2>2. storedP = RecordResult(FirstFailure[r], {content}, report)
      BY SameRows
  <2>3. \A q \in RowType : RecordResult([q EXCEPT !.error = NoError], {content}, report) =
                             [RecordResult(q, {content}, report) EXCEPT !.error = NoError]
      BY DEF RecordResult, RowType, StageRow
  <2> QED BY <1>5, <2>1, <2>2, <2>3
<1>10. P!Current(result)
    BY <1>3, <1>5, <1>6, Mapped, SameNames DEF P!Current, OInv
<1>11. P!Valid(plan)
  <2>1. \A y \in Rows : row[y].artifacts = View[y].artifacts
      BY <1>1, WorkingView
  <2>2. \A y \in Rows : FirstFailure[y].artifacts = View[y].artifacts
      BY <2>1, Mapped DEF OInv
  <2> QED BY <1>2, <1>7, <2>2 DEF P!Valid, P!Holds
<1> DEFINE told == [NoEvents EXCEPT ![r] = SuccessPath(report)]
<1>12. GrowAndAdvance(s, View, R, told) /\ told \in Lists
  <2>1. SuccessPath(report) \in Seq(StageStatus)
      BY DEF SuccessPath
  <2> QED BY <1>2, <2>1, NothingTold DEF Lists
<1>13. ASSUME OInv', P!GrowAndAdvance(RP)
       PROVE  Implements
  <2>1. P!apply_success(result, plan, report)
      BY <1>10, <1>11, <1>13 DEF P!apply_success
  <2>2. report \in {P!Clean, P!Violations}
      BY SameNames
  <2> QED BY <1>3, <1>13, <2>1, <2>2 DEF Implements, P!Next
<1> DEFINE new == P!WalkSuccess(stored)
           newP == P!WalkSuccess(storedP)
<1>14. /\ new \in RowType /\ new.status \in {DONE, AWAITING_DECISION}
       /\ newP = [new EXCEPT !.error = NoError]
    BY <1>8, <1>9, WalkType
<1>15. \A x \in Rows : R[x] = IF x = r THEN new ELSE View[x]
    BY <1>1, WorkingView
<1>16. \A x \in Rows : RP[x] = IF x = r THEN newP ELSE FirstFailure[x]
    BY DEF FirstFailure
<1>17. RP = [x \in Rows |-> RP[x]]
    BY DEF FirstFailure
<1> HIDE DEF R, RP, new, newP, told, stored, storedP, r, result
<1>18. Prepared(View, R, RP)
  <2>1. \A x \in Rows : R[x] \in RowType
      BY <1>1, <1>14, <1>15, WorkingView
  <2>2. ASSUME NEW x \in Rows PROVE Untouched(View, R, RP, x) \/ Touched(View, R, RP, x)
    <3>1. CASE x = r
        BY <1>5, <1>6, <1>14, <1>15, <1>16, <3>1 DEF Touched
    <3>2. CASE x # r
        BY <1>1, <1>15, <1>16, <3>2, WorkingView DEF Untouched
    <3> QED BY <3>1, <3>2
  <2> QED BY <1>17, <2>1, <2>2 DEF Prepared
<1>19. OInv' /\ P!GrowAndAdvance(RP)
    BY <1>1, <1>12, <1>18, GrowMaps
<1> QED BY <1>13, <1>19

-----------------------------------------------------------------------------
(***************************************************************************)
(* The steps that change no row.                                           *)
(***************************************************************************)

\* Sessions at work are not disturbed.
LEMMA OthersStay ==
    ASSUME OInv, UNCHANGED <<exists, row, issued, cause>>, queue \subseteq queue', seen \subseteq seen',
           \A t \in Sessions : pc'[t] = "working" =>
              pc[t] = "working" /\ op'[t] = op[t] /\ loaded'[t] = loaded[t]
    PROVE  /\ Exclusive' /\ AtWork' /\ NoCause' /\ Absent' /\ AttemptLeft'
           /\ FirstFailure' = FirstFailure
<1>1. Exclusive'
    BY DEF OInv, Exclusive
<1>2. AtWork'
  <2> SUFFICES ASSUME NEW t \in Sessions, pc'[t] = "working"
               PROVE  Asked(t)' /\ \A x \in Rows : AsRead(t, x)'
      BY DEF AtWork
  <2>1. op'[t] = op[t] /\ loaded'[t] = loaded[t] /\ Asked(t) /\ \A x \in Rows : AsRead(t, x)
      BY DEF OInv, AtWork
  <2>2. Asked(t)'
    <3>1. Operations' = Operations
        BY DEF Operations
    <3> QED BY <2>1, <3>1 DEF Asked, Affected
  <2>3. LockedRow(op[t])' = LockedRow(op[t])
      BY <2>1 DEF LockedRow
  <2> QED BY <2>1, <2>2, <2>3 DEF AsRead
<1>3. NoCause' /\ Absent' /\ AttemptLeft'
    BY DEF OInv, NoCause, Absent, AttemptLeft
<1>4. FirstFailure' = FirstFailure
    BY DEF FirstFailure
<1> QED BY <1>1, <1>2, <1>3, <1>4

LEMMA BeginImplements ==
    ASSUME OInv, NEW s \in Sessions, NEW o \in Requests, begin(s, o)
    PROVE  Implements
<1>1. /\ pc[s] = "idle" /\ exists # {} /\ ~ProjectLocked
      /\ pc' = [pc EXCEPT ![s] = "working"]
      /\ op' = [op EXCEPT ![s] = o]
      /\ loaded' = [loaded EXCEPT ![s] = row]
      /\ UNCHANGED <<autoApprove, exists, row, issued, queue, seen, cause,
                     events, messages, unannounced>>
    BY DEF begin
<1>2. /\ o \in Operations
      /\ o.kind \in {"regenerate", "approve", "fail"} => o.row \in exists
      /\ o.kind = "regenerate" => \A x \in exists \cap Affected(o.row) : issued[x] < MaxAttempts
      /\ o.kind = "apply_failed" => o.result \in queue
      /\ o.kind = "apply_success" => o.result \in seen
    BY DEF Requests, Operations, OInv, TypeOK
<1>3. \A t \in Sessions : pc'[t] = "working" <=> t = s
    BY <1>1 DEF OInv, TypeOK, ProjectLocked
<1>4. op'[s] = o /\ loaded'[s] = row
    BY <1>1 DEF OInv, TypeOK
<1>5. TypeOK'
    BY <1>1, <1>2 DEF OInv, TypeOK
<1>6. Exclusive'
    BY <1>1, <1>3 DEF Exclusive
<1>7. AtWork'
  <2>1. Asked(s)'
    <3>1. Operations' = Operations
        BY DEF Operations
    <3> QED BY <1>1, <1>2, <1>4, <3>1 DEF Asked, Affected
  <2>2. \A x \in Rows : AsRead(s, x)'
      BY <1>1, <1>4 DEF AsRead
  <2> QED BY <1>3, <2>1, <2>2 DEF AtWork
<1>8. NoCause' /\ Absent' /\ AttemptLeft'
    BY <1>1 DEF OInv, NoCause, Absent, AttemptLeft
<1>9. Sends'
    BY <1>1 DEF OInv, TypeOK, Sends
<1>10. UNCHANGED P!vars
    BY <1>1 DEF P!vars, FirstFailure, Unsent
<1> QED BY <1>5, <1>6, <1>7, <1>8, <1>9, <1>10 DEF Implements, OInv

LEMMA RollbackImplements ==
    ASSUME OInv, NEW s \in Sessions, rollback(s)
    PROVE  Implements
<1>1. /\ pc[s] = "working"
      /\ pc' = [pc EXCEPT ![s] = "idle"]
      /\ op' = [op EXCEPT ![s] = NoOp]
      /\ loaded' = [loaded EXCEPT ![s] = NoRow]
      /\ UNCHANGED <<autoApprove, exists, row, issued, queue, seen, cause,
                     events, messages, unannounced>>
    BY DEF rollback
<1>2. TypeOK'
  <2>1. loaded' \in [Sessions -> [Rows -> StageRow(P!Attempts, P!Content)]]
      BY <1>1, Typing DEF OInv, TypeOK, NoRow, RowType
  <2> QED BY <1>1, <2>1 DEF OInv, TypeOK
<1>3. \A t \in Sessions : pc'[t] = "working" =>
         pc[t] = "working" /\ op'[t] = op[t] /\ loaded'[t] = loaded[t]
    BY <1>1 DEF OInv, TypeOK
<1>4. Exclusive' /\ AtWork' /\ NoCause' /\ Absent' /\ AttemptLeft' /\ FirstFailure' = FirstFailure
    BY <1>1, <1>3, OthersStay
<1>5. Sends'
    BY <1>1 DEF OInv, TypeOK, Sends
<1>6. UNCHANGED P!vars
    BY <1>1, <1>4 DEF P!vars, Unsent
<1> QED BY <1>2, <1>4, <1>5, <1>6 DEF Implements, OInv

LEMMA GetSnapshotImplements ==
    ASSUME OInv, NEW m \in queue, get_snapshot(m)
    PROVE  Implements
<1> DEFINE done(y) == IF row[y].status = DONE THEN row[y].attempt ELSE NoAttempt
           snapshot == [row |-> m.row, attempt |-> m.attempt, basis |-> [y \in Refs[m.row] |-> done(y)]]
<1>1. /\ seen' = seen \cup {snapshot}
      /\ UNCHANGED <<autoApprove, exists, row, issued, queue, cause,
                     pc, op, loaded, events, messages, unannounced>>
    BY DEF get_snapshot
<1>2. m \in P!Message /\ m.row \in Rows /\ Refs[m.row] \subseteq Rows
    BY PipelineAssumption DEF P!GraphAssumption, P!Message, OInv, TypeOK
<1>3. snapshot \in P!Snapshot
  <2>1. \A y \in Rows : done(y) \in P!Attempts
      BY Typing DEF OInv, TypeOK, StageRow
  <2>2. snapshot.basis \in P!Basis(m.row)
      BY <1>2, <2>1 DEF P!Basis
  <2> QED BY <1>2, <2>2 DEF P!Snapshot, P!Message, P!NoAttempt, NoAttempt
<1> HIDE DEF snapshot
<1>4. TypeOK'
    BY <1>1, <1>3 DEF OInv, TypeOK
<1>5. Exclusive' /\ AtWork' /\ NoCause' /\ Absent' /\ AttemptLeft' /\ FirstFailure' = FirstFailure
    BY <1>1, OthersStay
<1>6. Sends'
    BY <1>1 DEF OInv, Sends
<1>7. P!get_snapshot(m)
  <2>1. \A y \in Rows : done(y) = IF FirstFailure[y].status = P!DONE THEN FirstFailure[y].attempt
                                  ELSE P!NoAttempt
      BY Mapped, SameNames DEF OInv
  <2>2. [y \in Refs[m.row] |-> done(y)] =
            [y \in Refs[m.row] |-> IF FirstFailure[y].status = P!DONE THEN FirstFailure[y].attempt
                                   ELSE P!NoAttempt]
      BY <1>2, <2>1
  <2>3. Unsent' = Unsent
      BY <1>1 DEF Unsent
  <2> QED BY <1>1, <1>5, <2>2, <2>3 DEF P!get_snapshot, snapshot
<1> QED BY <1>4, <1>5, <1>6, <1>7 DEF Implements, OInv, P!Next

-----------------------------------------------------------------------------
(***************************************************************************)
(* After the commit.                                                       *)
(***************************************************************************)

\* A session that is not at work has fewer messages left than before.
LEMMA Dispatches ==
    ASSUME OInv, NEW s \in Sessions, pc[s] # "working",
           NEW announce \in Lists, NEW send \in SUBSET messages[s],
           Dispatch(s, announce, send), issued' = issued
    PROVE  /\ pc' \in [Sessions -> {"idle", "working", "dispatching", "compensating"}]
           /\ op' \in [Sessions -> Operations \cup P!Message \cup {NoOp}]
           /\ events' \in [Sessions -> Lists]
           /\ messages' \in [Sessions -> SUBSET P!Message]
           /\ \A t \in Sessions : pc'[t] \in {"idle", "working"} =>
                 events'[t] = NoEvents /\ messages'[t] = {}
           /\ \A t \in Sessions : pc'[t] = "working" =>
                 t # s /\ pc[t] = "working" /\ op'[t] = op[t]
           /\ Sends'
<1>1. \A t \in Sessions : /\ events'[t] = IF t = s THEN announce ELSE events[t]
                          /\ messages'[t] = IF t = s THEN send ELSE messages[t]
                          /\ op'[t] = IF t = s THEN NoOp ELSE op[t]
                          /\ pc'[t] = IF t # s THEN pc[t]
                                      ELSE IF announce = NoEvents /\ send = {} THEN "idle" ELSE "dispatching"
    BY DEF Dispatch, OInv, TypeOK
<1>2. Sends'
    BY <1>1 DEF OInv, Sends
<1>3. /\ events' \in [Sessions -> Lists]
      /\ messages' \in [Sessions -> SUBSET P!Message]
      /\ op' \in [Sessions -> Operations \cup P!Message \cup {NoOp}]
      /\ pc' \in [Sessions -> {"idle", "working", "dispatching", "compensating"}]
    BY DEF Dispatch, OInv, TypeOK, Lists
<1>4. \A t \in Sessions : pc'[t] \in {"idle", "working"} =>
         events'[t] = NoEvents /\ messages'[t] = {}
    BY <1>1 DEF OInv, TypeOK
<1>5. \A t \in Sessions : pc'[t] = "working" => t # s /\ pc[t] = "working" /\ op'[t] = op[t]
    BY <1>1
<1> QED BY <1>2, <1>3, <1>4, <1>5

\* A step that dispatches and leaves the rows alone keeps the invariant.
LEMMA DispatchKeeps ==
    ASSUME OInv, NEW s \in Sessions, pc[s] # "working",
           NEW announce \in Lists, NEW send \in SUBSET messages[s],
           Dispatch(s, announce, send),
           UNCHANGED <<autoApprove, exists, row, issued, seen, cause, loaded>>,
           queue \subseteq queue', queue' \subseteq P!Message, unannounced' \subseteq Rows
    PROVE  OInv' /\ FirstFailure' = FirstFailure
<1>1. Sends'
    BY Dispatches
<1>2. TypeOK'
    BY Dispatches DEF OInv, TypeOK, Lists
<1>3. Exclusive' /\ AtWork' /\ NoCause' /\ Absent' /\ AttemptLeft' /\ FirstFailure' = FirstFailure
    BY Dispatches, OthersStay
<1> QED BY <1>1, <1>2, <1>3 DEF OInv

LEMMA PublishImplements ==
    ASSUME OInv, NEW s \in Sessions, publish(s)
    PROVE  Implements
<1>1. PICK r \in Rows :
         /\ events[s][r] # <<>>
         /\ Dispatch(s, [events[s] EXCEPT ![r] = Tail(@)], messages[s])
         /\ unannounced' = unannounced \ {x \in {r} : Head(events[s][r]) = row[x].status}
    BY DEF publish
<1>2. /\ pc[s] # "working"
      /\ UNCHANGED <<autoApprove, exists, row, issued, queue, seen, cause, loaded>>
    BY DEF publish
<1>3. /\ [events[s] EXCEPT ![r] = Tail(@)] \in Lists
      /\ unannounced' \subseteq Rows /\ queue \subseteq P!Message
  <2>1. events[s] \in Lists /\ events[s][r] \in Seq(StageStatus)
      BY DEF OInv, TypeOK, Lists
  <2>2. Tail(events[s][r]) \in Seq(StageStatus)
      BY <1>1, <2>1, TailEnds
  <2> QED BY <1>1, <2>1, <2>2 DEF OInv, TypeOK, Lists
<1>4. OInv' /\ FirstFailure' = FirstFailure
    BY <1>1, <1>2, <1>3, DispatchKeeps
<1>5. Unsent' = Unsent
    BY <1>1 DEF Dispatch, Unsent, OInv, TypeOK
<1> QED BY <1>2, <1>4, <1>5 DEF Implements, P!vars

\* No other session has the message that one is done with.
LEMMA OneLess ==
    ASSUME OInv, NEW s \in Sessions, NEW m \in messages[s],
           messages' = [messages EXCEPT ![s] = @ \ {m}]
    PROVE  m \in Unsent /\ Unsent' = Unsent \ {m}
<1>1. \A t \in Sessions : messages'[t] = IF t = s THEN messages[s] \ {m} ELSE messages[t]
    BY DEF OInv, TypeOK
<1>2. \A t \in Sessions \ {s} : m \notin messages[t]
    BY DEF OInv, Sends
<1> QED BY <1>1, <1>2 DEF Unsent

LEMMA EnqueueImplements ==
    ASSUME OInv, NEW s \in Sessions, enqueue(s)
    PROVE  Implements
<1>1. PICK m \in messages[s] : queue' = queue \cup {m} /\ Dispatch(s, NoEvents, messages[s] \ {m})
    BY DEF enqueue
<1>2. /\ pc[s] # "working"
      /\ UNCHANGED <<autoApprove, exists, row, issued, seen, cause, loaded, unannounced>>
    BY DEF enqueue
<1>3. messages[s] \ {m} \in SUBSET messages[s] /\ unannounced' \subseteq Rows /\ queue' \subseteq P!Message
    BY <1>1, <1>2 DEF OInv, TypeOK
<1>4. OInv' /\ FirstFailure' = FirstFailure
    BY <1>1, <1>2, <1>3, NothingTold, DispatchKeeps
<1>5. m \in Unsent /\ Unsent' = Unsent \ {m}
    BY <1>1, OneLess DEF Dispatch
<1>6. P!enqueue(m)
    BY <1>1, <1>2, <1>4, <1>5 DEF P!enqueue
<1> QED BY <1>4, <1>5, <1>6 DEF Implements, P!Next

\* The queue that raises has accepted the message or not.
LEMMA EnqueueRaisesImplements ==
    ASSUME OInv, NEW s \in Sessions, enqueue_raises(s)
    PROVE  Implements
<1>1. PICK m \in messages[s] :
         /\ \E delivered \in SUBSET {m} : queue' = queue \cup delivered
         /\ op' = [op EXCEPT ![s] = m]
    BY DEF enqueue_raises
<1>2. /\ pc[s] = "dispatching"
      /\ pc' = [pc EXCEPT ![s] = "compensating"]
      /\ UNCHANGED <<autoApprove, exists, row, issued, seen, cause, loaded, events, messages,
                     unannounced>>
    BY DEF enqueue_raises
<1>3. m \in P!Message /\ m \in Unsent /\ Unsent' = Unsent
    BY <1>1, <1>2 DEF Unsent, OInv, TypeOK
<1>4. TypeOK'
    BY <1>1, <1>2, <1>3 DEF OInv, TypeOK
<1>5. \A t \in Sessions : pc'[t] = "working" =>
         pc[t] = "working" /\ op'[t] = op[t] /\ loaded'[t] = loaded[t]
    BY <1>1, <1>2 DEF OInv, TypeOK
<1>6. Exclusive' /\ AtWork' /\ NoCause' /\ Absent' /\ AttemptLeft' /\ FirstFailure' = FirstFailure
    BY <1>1, <1>2, <1>5, OthersStay
<1>7. Sends'
  <2>1. pc'[s] = "compensating" /\ op'[s] = m
        /\ \A t \in Sessions \ {s} : pc'[t] = pc[t] /\ op'[t] = op[t]
      BY <1>1, <1>2 DEF OInv, TypeOK
  <2> QED BY <1>1, <1>2, <2>1 DEF OInv, Sends
<1>8. CASE queue' = queue
    BY <1>2, <1>3, <1>4, <1>6, <1>7, <1>8 DEF Implements, OInv, P!vars
<1>9. CASE queue' = queue \cup {m}
  <2>1. P!accept(m)
      BY <1>2, <1>3, <1>6, <1>9 DEF P!accept
  <2> QED BY <1>3, <1>4, <1>6, <1>7, <2>1 DEF Implements, OInv, P!Next
<1> QED BY <1>1, <1>8, <1>9

LEMMA GiveUpImplements ==
    ASSUME OInv, NEW s \in Sessions, give_up(s)
    PROVE  Implements
<1>1. /\ pc[s] # "working" /\ Dispatch(s, NoEvents, {})
      /\ unannounced' = unannounced \ {r \in Rows : WillAnnounce(s, r)}
      /\ UNCHANGED <<autoApprove, exists, row, issued, queue, seen, cause, loaded>>
    BY DEF give_up
<1>2. unannounced' \subseteq Rows /\ queue \subseteq P!Message
    BY <1>1 DEF OInv, TypeOK
<1>3. OInv' /\ FirstFailure' = FirstFailure
    BY <1>1, <1>2, NothingTold, DispatchKeeps
<1>4. Unsent' = Unsent \ messages[s] /\ messages[s] \subseteq Unsent
  <2>1. \A t \in Sessions : messages'[t] = IF t = s THEN {} ELSE messages[t]
      BY <1>1 DEF Dispatch, OInv, TypeOK
  <2>2. \A t \in Sessions \ {s} : messages[s] \cap messages[t] = {}
      BY DEF OInv, Sends
  <2> QED BY <2>1, <2>2 DEF Unsent
<1>5. P!lose_messages(messages[s])
    BY <1>1, <1>3, <1>4 DEF P!lose_messages
<1> QED BY <1>3, <1>4, <1>5 DEF Implements, P!Next

\* The compensation takes its row from under sessions that have read it without a lock.
LEMMA CompensateImplements ==
    ASSUME OInv, NEW s \in Sessions, compensate(s)
    PROVE  Implements
<1> USE Typing, Distinct
<1> DEFINE m == op[s]
           failing == {r \in {m.row} : Current(row, m)}
           failed(r) == Transition(row[r], ERROR, FailingWith(QUEUE_UNAVAILABLE), NoAttempt, P!Now, P!Now)
           Table == [r \in Rows |-> IF r \in failing THEN failed(r) ELSE row[r]]
           announce == Announce(NoEvents, failing, ERROR)
<1>1. /\ pc[s] = "compensating" /\ ~RowLocked(m.row)
      /\ row' = Table
      /\ cause' = CauseAfter(Table)
      /\ unannounced' = unannounced \cup failing
      /\ Dispatch(s, announce, messages[s] \ {m})
      /\ UNCHANGED <<autoApprove, exists, issued, queue, seen, loaded>>
    BY DEF compensate, LeftAfter
<1>2. m \in messages[s] /\ m \in P!Message /\ m.row \in Rows
    BY <1>1 DEF OInv, TypeOK, Sends, P!Message
<1>3. m \in Unsent /\ Unsent' = Unsent \ {m}
    BY <1>1, <1>2, OneLess DEF Dispatch
<1>4. failing \subseteq Rows /\ \A r \in failing : r = m.row /\ row[r].status = RUNNING
    BY <1>2 DEF Current
<1>5. \A r \in Rows : row[r] \in RowType
    BY DEF OInv, TypeOK, RowType
<1>6. \A r \in Rows : failed(r) \in RowType /\ failed(r).status = ERROR /\ failed(r).error = QUEUE_UNAVAILABLE
  <2> SUFFICES ASSUME NEW r \in Rows
               PROVE  failed(r) \in RowType /\ failed(r).status = ERROR /\ failed(r).error = QUEUE_UNAVAILABLE
      OBVIOUS
  <2>1. row[r] \in StageRow(P!Attempts, P!Content) /\ QUEUE_UNAVAILABLE \in FailureCode
      BY <1>5 DEF RowType, FailureCode
  <2>2. failed(r) \in RowType
      BY <2>1, TransitionType DEF RowType
  <2> QED BY <2>1, <2>2, Moves
<1>7. \A r \in Rows : row'[r] = IF r \in failing THEN failed(r) ELSE row[r]
    BY <1>1
<1>8. \A r \in Rows : cause'[r] = IF r \in failing THEN QUEUE_UNAVAILABLE ELSE cause[r]
    BY <1>1, <1>4, <1>6, <1>7 DEF CauseAfter, OInv, NoCause
<1>9. cause' = [r \in Rows |-> cause'[r]]
    BY <1>1 DEF CauseAfter
<1>10. messages[s] \ {m} \in SUBSET messages[s] /\ pc[s] # "working" /\ announce \in Lists
    BY <1>1, NothingTold, AnnounceTells
<1> HIDE DEF failed, announce
<1>11. AtWork'
  <2> SUFFICES ASSUME NEW t \in Sessions, pc'[t] = "working"
               PROVE  Asked(t)' /\ \A x \in Rows : AsRead(t, x)'
      BY DEF AtWork
  <2>1. pc[t] = "working" /\ op'[t] = op[t] /\ loaded'[t] = loaded[t]
      BY <1>1, <1>10, Dispatches
  <2>2. Asked(t) /\ \A x \in Rows : AsRead(t, x)
      BY <2>1 DEF OInv, AtWork
  <2>3. Asked(t)'
    <3>1. Operations' = Operations
        BY DEF Operations
    <3> QED BY <1>1, <2>1, <2>2, <3>1 DEF Asked, Affected
  <2>4. ASSUME NEW x \in Rows PROVE AsRead(t, x)'
    <3>1. CASE x \notin failing
        BY <1>7, <2>1, <2>2, <3>1 DEF AsRead, LockedRow
    <3>2. CASE x \in failing
      <4>1. x \notin LockedRow(op[t])
          BY <1>1, <1>4, <2>1, <3>2 DEF RowLocked
      <4>2. loaded[t][x] = row[x]
        <5>1. row[x].status # ERROR
            BY <1>4, <3>2
        <5> QED BY <2>2, <5>1, Moves DEF AsRead
      <4>3. LockedRow(op[t])' = LockedRow(op[t])
          BY <2>1 DEF LockedRow
      <4> QED BY <1>4, <1>7, <2>1, <3>2, <4>1, <4>2, <4>3 DEF AsRead, failed
    <3> QED BY <3>1, <3>2
  <2> QED BY <2>3, <2>4
<1>12. TypeOK'
  <2>1. row' \in [Rows -> RowType]
      BY <1>1, <1>5, <1>6, <1>7
  <2>2. cause' \in [Rows -> FailureCode \cup {NoError}]
      BY <1>8, <1>9 DEF OInv, TypeOK, FailureCode
  <2>3. unannounced' \subseteq Rows
      BY <1>1, <1>4 DEF OInv, TypeOK
  <2> HIDE DEF m, failing, Table
  <2> QED BY <1>1, <1>10, <2>1, <2>2, <2>3, Dispatches DEF OInv, TypeOK, RowType, Lists
<1>13. Exclusive'
    BY <1>1, <1>10, Dispatches DEF OInv, Exclusive
<1>14. NoCause' /\ Absent' /\ AttemptLeft'
    BY <1>1, <1>4, <1>6, <1>7, <1>8 DEF OInv, NoCause, Absent, AttemptLeft
<1>15. Sends'
    BY <1>1, <1>10, Dispatches
<1>16. failing = IF P!Current(m) THEN {m.row} ELSE {}
  <2>1. Current(row, m) <=> P!Current(m)
      BY <1>2, Existing, Mapped, SameNames DEF P!Current, Current, OInv
  <2> QED BY <2>1
<1>17. P!MoveToError(failing, P!QUEUE_UNAVAILABLE)
  <2>1. \A r \in failing : P!Accepted(FirstFailure[r], P!ERROR, P!FailingWith(P!QUEUE_UNAVAILABLE))
    <3> SUFFICES ASSUME NEW r \in failing
                 PROVE  Accepted(FirstFailure[r], ERROR, FailingWith(QUEUE_UNAVAILABLE))
        BY SameNames, SameRows
    <3>1. r \in Rows /\ FirstFailure[r].status = RUNNING
        BY <1>4, Mapped DEF OInv
    <3>2. is_valid_transition(RUNNING, ERROR)
        BY StageMachineAssumption DEF KnownTransitions, is_valid_transition
    <3> HIDE DEF failing
    <3> QED BY <3>1, <3>2 DEF Accepted, FailingWith, Call, QUEUE_UNAVAILABLE, NoError
  <2>2. \A r \in Rows : FirstFailure'[r] =
           IF r \in failing
           THEN P!Transition(FirstFailure[r], P!ERROR, P!FailingWith(P!QUEUE_UNAVAILABLE),
                             P!NoAttempt, P!Now, P!Now)
           ELSE FirstFailure[r]
    <3> SUFFICES ASSUME NEW r \in Rows
                 PROVE  FirstFailure'[r] =
                          IF r \in failing
                          THEN Transition(FirstFailure[r], ERROR, FailingWith(QUEUE_UNAVAILABLE),
                                          NoAttempt, P!Now, P!Now)
                          ELSE FirstFailure[r]
        BY SameNames, SameRows
    <3> HIDE DEF failing, m
    <3>1. /\ FirstFailure'[r] = [row'[r] EXCEPT !.error = cause'[r]]
          /\ FirstFailure[r] = [row[r] EXCEPT !.error = cause[r]]
        BY DEF FirstFailure
    <3>2. CASE r \notin failing
        BY <1>7, <1>8, <3>1, <3>2
    <3>3. CASE r \in failing
      <4>1. [failed(r) EXCEPT !.error = QUEUE_UNAVAILABLE] = failed(r)
          BY <1>6 DEF RowType, StageRow
      <4>2. Transition(FirstFailure[r], ERROR, FailingWith(QUEUE_UNAVAILABLE),
                       NoAttempt, P!Now, P!Now) = failed(r)
          BY <1>5, <3>1, TransitionForgets DEF failed
      <4> QED BY <1>7, <1>8, <3>1, <3>3, <4>1, <4>2
    <3> QED BY <3>2, <3>3
  <2>3. FirstFailure' = [r \in Rows |-> FirstFailure'[r]]
      BY DEF FirstFailure
  <2> HIDE DEF failing, FirstFailure, m
  <2> QED BY <1>1, <2>1, <2>2, <2>3 DEF P!MoveToError
<1>18. P!enqueue_raises(m)
    BY <1>1, <1>3, <1>16, <1>17 DEF P!enqueue_raises
<1> HIDE DEF m
<1> QED BY <1>3, <1>11, <1>12, <1>13, <1>14, <1>15, <1>18 DEF Implements, OInv, P!Next

-----------------------------------------------------------------------------
(***************************************************************************)
(* All steps, and all behaviors.                                           *)
(***************************************************************************)
LEMMA InitImplements ==
    ASSUME Init
    PROVE  OInv /\ P!Init
<1> USE Typing, Distinct
<1>1. TypeOK
    BY PipelineAssumption, NothingTold
    DEF Init, TypeOK, NoRow, RowType, P!BoundAssumption, P!Attempts, Lists
<1>2. Exclusive /\ AtWork
    BY DEF Init, Exclusive, AtWork
<1>3. NoCause /\ Absent /\ AttemptLeft
    BY PipelineAssumption
    DEF Init, NoRow, NewRow, NoCause, Absent, AttemptLeft, P!BoundAssumption
<1>4. Sends
    BY DEF Init, Sends
<1>5. Unsent = {}
    BY DEF Init, Unsent
<1>6. FirstFailure = [r \in Rows |-> P!NewRow]
  <2>1. \A r \in Rows : [NewRow EXCEPT !.error = NoError] = NewRow
      BY DEF NewRow
  <2> QED BY <2>1, SameNames DEF Init, NoRow, FirstFailure
<1>7. P!Init
    BY <1>5, <1>6 DEF Init, P!Init
<1> QED BY <1>1, <1>2, <1>3, <1>4, <1>7 DEF OInv

LEMMA StepImplements ==
    ASSUME OInv, [Next]_vars
    PROVE  OInv' /\ [P!Next]_(P!vars)
<1>1. ASSUME NEW s \in Sessions, start(s) PROVE Implements
    BY <1>1, StartImplements
<1>2. ASSUME NEW s \in Sessions, NEW o \in Requests, begin(s, o) PROVE Implements
    BY <1>2, BeginImplements
<1>3. ASSUME NEW s \in Sessions, Operate(s) PROVE Implements
    BY <1>3, RollbackImplements, ApplyFailedImplements, ApplySuccessImplements, AdvanceImplements,
       RegenerateImplements, ApproveImplements, FailImplements, CancelImplements,
       ExpireStuckImplements
    DEF Operate
<1>4. ASSUME NEW s \in Sessions, Deliver(s) PROVE Implements
    BY <1>4, PublishImplements, EnqueueImplements, EnqueueRaisesImplements DEF Deliver
<1>5. ASSUME NEW s \in Sessions, compensate(s) \/ give_up(s) PROVE Implements
    BY <1>5, CompensateImplements, GiveUpImplements
<1>6. ASSUME NEW m \in queue, get_snapshot(m) PROVE Implements
    BY <1>6, GetSnapshotImplements
<1>7. CASE UNCHANGED vars
  <2>1. OInv'
    <3>1. TypeOK' /\ Sends'
        BY <1>7 DEF vars, OInv, TypeOK, Sends
    <3>2. Exclusive' /\ AtWork' /\ NoCause' /\ Absent' /\ AttemptLeft'
        BY <1>7, OthersStay DEF vars
    <3> QED BY <3>1, <3>2 DEF OInv
  <2>2. UNCHANGED P!vars
      BY <1>7 DEF vars, P!vars, FirstFailure, Unsent
  <2> QED BY <2>1, <2>2
<1> QED BY <1>1, <1>2, <1>3, <1>4, <1>5, <1>6, <1>7 DEF Next, Proceed, Implements

\* What sessions at work go by stays true: whatever changes a row under them is a
\* compensation, and it only ends the attempt of a row they have not locked.
THEOREM OrchestratorInvariant == Spec => []OInv
<1>1. Init => OInv
    BY InitImplements
<1>2. OInv /\ [Next]_vars => OInv'
    BY StepImplements
<1> QED BY <1>1, <1>2, PTL DEF Spec

\* The tables, the locks and the requests keep their types, and only a session that is
\* through with its transaction has events and messages left (orchestrator.py:384-403).
THEOREM TypeCorrect == Spec => []TypeOK
<1>1. OInv => TypeOK
    BY DEF OInv
<1> QED BY <1>1, OrchestratorInvariant, PTL

(***************************************************************************)
(* The orchestrator implements Pipeline: with any number of requests       *)
(* handled at the same time, operations that read and commit under the     *)
(* project lock and compensations that take a row lock only do what single *)
(* steps do in some order, failures that overwrite failures left aside.    *)
(***************************************************************************)
THEOREM Implementation == Spec => ImplementsPipeline
<1>1. Init => P!Init
    BY InitImplements
<1>2. OInv /\ [Next]_vars => [P!Next]_(P!vars)
    BY StepImplements
<1> QED BY <1>1, <1>2, OrchestratorInvariant, PTL DEF Spec, ImplementsPipeline, P!Spec

-----------------------------------------------------------------------------
(***************************************************************************)
(* Announcements.  A session that compensates has published its own        *)
(* events, so those of the compensation do not replace any others.  What   *)
(* a commit leaves is announced because each operation appends an event    *)
(* for each row it changes, in the order in which it changes it.           *)
(***************************************************************************)
Announcing ==
    /\ ChangesAreAnnounced
    /\ \A s \in Sessions : pc[s] = "compensating" => events[s] = NoEvents

\* A step that leaves session s with the events of announce: rows that count as
\* unannounced are told of there, or other sessions tell of them as before.
LEMMA AnnouncedStill ==
    ASSUME TypeOK, Announcing, NEW s \in Sessions, NEW announce, NEW send,
           Dispatch(s, announce, send), unannounced' \subseteq Rows,
           \A x \in unannounced' :
              \/ Tells(announce, x, row'[x].status)
              \/ x \in unannounced /\ row'[x] = row[x] /\ ~WillAnnounce(s, x)
              \/ x \in unannounced /\ row'[x] = row[x] /\ announce[x] = events[s][x]
    PROVE  Announcing'
<1>1. \A t \in Sessions : /\ events'[t] = IF t = s THEN announce ELSE events[t]
                          /\ t # s => pc'[t] = pc[t]
                          /\ t = s => pc'[t] # "compensating"
    BY DEF Dispatch, TypeOK
<1>2. ASSUME NEW x \in unannounced'
      PROVE  \E t \in Sessions : WillAnnounce(t, x)'
  <2>1. CASE Tells(announce, x, row'[x].status)
      BY <1>1, <2>1 DEF Tells, WillAnnounce
  <2>2. CASE x \in unannounced /\ row'[x] = row[x]
             /\ (~WillAnnounce(s, x) \/ announce[x] = events[s][x])
    <3>1. PICK t \in Sessions : WillAnnounce(t, x)
        BY <2>2 DEF Announcing, ChangesAreAnnounced
    <3>2. events'[t][x] = events[t][x]
        BY <1>1, <2>2, <3>1
    <3> QED BY <2>2, <3>1, <3>2 DEF WillAnnounce
  <2> QED BY <1>2, <2>1, <2>2
<1> QED BY <1>1, <1>2 DEF Announcing, ChangesAreAnnounced

\* A commit is announced if each row it changes and each one it creates is told of.
LEMMA CommitAnnounces ==
    ASSUME TypeOK, Announcing, TypeOK', NEW s \in Sessions, events[s] = NoEvents,
           NEW View, NEW E, NEW R, NEW S, NEW told, Commit(s, View, E, R, S, told),
           \A x \in Rows : row'[x] # row[x] \/ x \in E \ exists => Tells(told, x, row'[x].status)
    PROVE  Announcing'
<1> DEFINE Started == [x \in Rows |-> IF x \in S
                                      THEN Transition(R[x], RUNNING, Plain, issued[x] + 1,
                                                      P!Now, P!Now)
                                      ELSE R[x]]
           Table == Written(View, Started)
           Sent == {[row |-> x, attempt |-> issued[x] + 1] : x \in S}
<1>1. /\ Dispatch(s, told, Sent)
      /\ row' = Table
      /\ unannounced' = unannounced \cup {x \in Rows : Table[x] # row[x]} \cup (E \ exists)
    BY DEF Commit
<1> HIDE DEF Table, Started, Sent
<1>2. unannounced' \subseteq Rows
    BY DEF TypeOK
<1>3. \A x \in Rows : ~WillAnnounce(s, x)
    BY DEF WillAnnounce, NoEvents
<1>4. ASSUME NEW x \in unannounced'
      PROVE  \/ Tells(told, x, row'[x].status)
             \/ x \in unannounced /\ row'[x] = row[x] /\ ~WillAnnounce(s, x)
    BY <1>1, <1>2, <1>3
<1> QED BY <1>1, <1>2, <1>4, AnnouncedStill

\* _advance tells of what it starts; what it is called with tells of the rest.
LEMMA AdvanceAnnounces ==
    ASSUME OInv, Announcing, TypeOK', NEW s \in Sessions, events[s] = NoEvents,
           NEW View, NEW E \in SUBSET Rows, NEW R, NEW told \in Lists,
           Advance(s, View, E, R, told),
           \A x \in Rows : R[x] # View[x] => Tells(told, x, R[x].status),
           \A x \in E \ exists : /\ R[x] = View[x] /\ View[x] = row[x]
                                 /\ Tells(told, x, PENDING)
    PROVE  Announcing'
<1> USE Distinct
<1> DEFINE S == P!Ready(E, R)
           all == Announce(told, S, RUNNING)
<1>1. Commit(s, View, E, R, S, all)
    BY DEF Advance
<1>2. \A x \in S : x \in E /\ R[x].status = PENDING
    BY SameNames DEF P!Ready
<1>3. \A x \in Rows : /\ x \in S => Tells(all, x, RUNNING)
                      /\ x \notin S => all[x] = told[x]
    BY AnnounceTells
<1> HIDE DEF S, all
<1>4. ASSUME NEW x \in Rows, row'[x] # row[x] \/ x \in E \ exists
      PROVE  Tells(all, x, row'[x].status)
  <2> DEFINE started == Transition(R[x], RUNNING, Plain, issued[x] + 1, P!Now, P!Now)
  <2>1. row'[x] = (IF (IF x \in S THEN started ELSE R[x]) = View[x] THEN row[x]
                   ELSE IF x \in S THEN started ELSE R[x])
      BY <1>1, CommitRows DEF Left
  <2>2. started.status = RUNNING
      BY Moves
  <2> HIDE DEF started
  <2>3. x \in E \ exists => row[x].status = PENDING
      BY DEF OInv, Absent
  <2>4. CASE x \in S
    <3>1. x \in E \ exists => started # View[x]
        BY <2>2, <2>3
    <3>2. row'[x] = started
        BY <1>4, <2>1, <2>4, <3>1
    <3> QED BY <1>3, <2>2, <2>4, <3>2
  <2>5. CASE x \notin S /\ R[x] # View[x]
    <3>1. row'[x] = R[x]
        BY <2>1, <2>5
    <3> QED BY <1>3, <2>5, <3>1 DEF Tells
  <2>6. CASE x \notin S /\ R[x] = View[x]
    <3>1. row'[x] = row[x] /\ x \in E \ exists
        BY <1>4, <2>1, <2>6
    <3> QED BY <1>3, <2>3, <2>6, <3>1 DEF Tells
  <2> QED BY <2>4, <2>5, <2>6
<1>5. TypeOK
    BY DEF OInv
<1> QED BY <1>1, <1>4, <1>5, CommitAnnounces

\* _grow_and_advance tells of what it creates, too: none of that has been there.
LEMMA GrowAnnounces ==
    ASSUME OInv, Announcing, TypeOK', NEW s \in Sessions, pc[s] = "working",
           NEW R, NEW told \in Lists, GrowAndAdvance(s, loaded[s], R, told),
           \A x \in Rows : R[x] # loaded[s][x] => x \in exists /\ Tells(told, x, R[x].status)
    PROVE  Announcing'
<1> USE Distinct
<1> DEFINE created == P!Missing(exists, R)
           all == Announce(told, created, PENDING)
           E == exists \cup created
<1>1. Advance(s, loaded[s], E, R, all)
    BY DEF GrowAndAdvance
<1>2. created \cap exists = {}
    BY DEF P!Missing
<1>3. /\ all \in Lists
      /\ \A x \in Rows : /\ x \in created => Tells(all, x, PENDING)
                         /\ x \notin created => all[x] = told[x]
    BY AnnounceTells
<1>4. E \in SUBSET Rows /\ events[s] = NoEvents
  <2>1. exists' = E
      BY <1>1 DEF Advance, Commit
  <2> QED BY <2>1 DEF OInv, TypeOK
<1> HIDE DEF created, all
<1>5. \A x \in Rows : R[x] # loaded[s][x] => Tells(all, x, R[x].status)
    BY <1>2, <1>3 DEF Tells
<1>6. \A x \in E \ exists : /\ R[x] = loaded[s][x] /\ loaded[s][x] = row[x]
                            /\ Tells(all, x, PENDING)
  <2> SUFFICES ASSUME NEW x \in E \ exists
               PROVE  R[x] = loaded[s][x] /\ loaded[s][x] = row[x] /\ Tells(all, x, PENDING)
      OBVIOUS
  <2>1. x \in Rows /\ x \in created /\ row[x].status = PENDING
      BY <1>4 DEF OInv, Absent
  <2>2. loaded[s][x] = row[x]
      BY <2>1, WorkingView
  <2> QED BY <1>3, <2>1, <2>2
<1> HIDE DEF E
<1> QED BY <1>1, <1>3, <1>4, <1>5, <1>6, AdvanceAnnounces

\* Rows that move to ERROR are told of as they do.
LEMMA FailureAnnounces ==
    ASSUME OInv, Announcing, TypeOK', NEW s \in Sessions, pc[s] = "working",
           NEW S, NEW code, MoveToError(s, loaded[s], S, code)
    PROVE  Announcing'
<1> USE Distinct
<1> DEFINE failed(x) == Transition(loaded[s][x], ERROR, FailingWith(code), NoAttempt, P!Now, P!Now)
           R == [r \in Rows |-> IF r \in S THEN failed(r) ELSE loaded[s][r]]
           told == Announce(NoEvents, S, ERROR)
<1>1. Commit(s, loaded[s], exists, R, {}, told)
    BY DEF MoveToError
<1>2. events[s] = NoEvents /\ TypeOK
    BY DEF OInv, TypeOK
<1>3. \A x \in Rows : x \in S => Tells(told, x, ERROR)
    BY NothingTold, AnnounceTells
<1>4. \A x \in Rows : failed(x).status = ERROR
    BY Moves
<1> HIDE DEF told, failed
<1>5. \A x \in Rows : R[x] = IF x \in S THEN failed(x) ELSE loaded[s][x]
    OBVIOUS
<1> HIDE DEF R
<1>6. ASSUME NEW x \in Rows, row'[x] # row[x] \/ x \in exists \ exists
      PROVE  Tells(told, x, row'[x].status)
  <2>1. row'[x] = IF R[x] = loaded[s][x] THEN row[x] ELSE R[x]
      BY <1>1, CommitRows DEF Left
  <2> QED BY <1>3, <1>4, <1>5, <1>6, <2>1
<1> QED BY <1>1, <1>2, <1>6, CommitAnnounces

-----------------------------------------------------------------------------
\* start tells of the first rows.
LEMMA StartAnnounces ==
    ASSUME OInv, Announcing, TypeOK', NEW s \in Sessions, start(s)
    PROVE  Announcing'
<1> DEFINE told == Announce(NoEvents, Initial, PENDING)
<1>1. exists = {} /\ Advance(s, row, Initial, row, told) /\ events[s] = NoEvents
    BY DEF start, OInv, TypeOK
<1>2. Initial \in SUBSET Rows
    BY PipelineAssumption DEF P!PlanAssumption
<1>3. told \in Lists /\ \A x \in Initial : Tells(told, x, PENDING)
    BY <1>2, NothingTold, AnnounceTells, Distinct
<1> HIDE DEF told
<1> QED BY <1>1, <1>2, <1>3, AdvanceAnnounces

\* regenerate tells of what it resets.
LEMMA RegenerateAnnounces ==
    ASSUME OInv, Announcing, TypeOK', NEW s \in Sessions, regenerate(s)
    PROVE  Announcing'
<1> USE Distinct
<1> DEFINE View == Reread(s, op[s].row)
           ToReset == {x \in exists \cap Affected(op[s].row) : View[x].status # PENDING}
           new(x) == Transition(View[x], PENDING, Plain, NoAttempt, P!Now, P!Now)
           R == [x \in Rows |-> IF x \in ToReset THEN new(x) ELSE View[x]]
           told == Announce(NoEvents, ToReset, PENDING)
<1>1. Advance(s, View, exists, R, told) /\ events[s] = NoEvents /\ exists \in SUBSET Rows
    BY DEF regenerate, Working, OInv, TypeOK
<1>2. told \in Lists /\ \A x \in Rows : x \in ToReset => Tells(told, x, PENDING)
    BY NothingTold, AnnounceTells
<1>3. \A x \in Rows : new(x).status = PENDING
    BY Moves
<1> HIDE DEF told, new, ToReset, View
<1>4. \A x \in Rows : R[x] # View[x] => Tells(told, x, R[x].status)
    BY <1>2, <1>3
<1> HIDE DEF R
<1> QED BY <1>1, <1>2, <1>4, AdvanceAnnounces

\* approve tells of the approval.
LEMMA ApproveAnnounces ==
    ASSUME OInv, Announcing, TypeOK', NEW s \in Sessions, approve(s)
    PROVE  Announcing'
<1> USE Distinct
<1> DEFINE r == op[s].row
           new == Transition(loaded[s][r], DONE, Approving, NoAttempt, P!Now, P!Now)
           R == [loaded[s] EXCEPT ![r] = new]
           told == Announce(NoEvents, {r}, DONE)
<1>1. pc[s] = "working" /\ op[s].kind = "approve" /\ GrowAndAdvance(s, loaded[s], R, told)
    BY DEF approve, Working
<1>2. r \in exists /\ r \in Rows
    BY <1>1, WorkingView DEF Asked, OInv, TypeOK
<1>3. told \in Lists /\ Tells(told, r, DONE)
    BY <1>2, NothingTold, AnnounceTells
<1>4. new.status = DONE
    BY Moves
<1>5. \A x \in Rows : R[x] = IF x = r THEN new ELSE loaded[s][x]
    BY <1>1, WorkingView
<1> HIDE DEF told, new, R, r
<1> QED BY <1>1, <1>2, <1>3, <1>4, <1>5, GrowAnnounces

\* apply_result tells of every status of success_path, the last of which stays.
LEMMA ApplySuccessAnnounces ==
    ASSUME OInv, Announcing, TypeOK', NEW s \in Sessions, apply_success(s)
    PROVE  Announcing'
<1> USE Distinct
<1> DEFINE result == op[s].result
           r == result.row
           View == loaded[s]
<1>1. pc[s] = "working" /\ op[s].kind = "apply_success" /\ Current(View, result)
    BY DEF apply_success, Working
<1>2. PICK plan \in Plans[r], report \in {Clean, Violations} :
         GrowAndAdvance(s, View,
            [View EXCEPT ![r] = P!WalkSuccess(RecordResult(View[r],
                {[plan |-> plan, basis |-> result.basis]}, report))],
            [NoEvents EXCEPT ![r] = SuccessPath(report)])
    BY DEF apply_success
<1> DEFINE content == [plan |-> plan, basis |-> result.basis]
           stored == RecordResult(View[r], {content}, report)
           new == P!WalkSuccess(stored)
           R == [View EXCEPT ![r] = new]
           told == [NoEvents EXCEPT ![r] = SuccessPath(report)]
<1>3. result \in P!Snapshot /\ r \in Rows
    BY <1>1, WorkingView DEF Asked, OInv, TypeOK, P!Snapshot
<1>4. r \in LockedRow(op[s])
    BY <1>1 DEF LockedRow
<1>5. View[r] = row[r] /\ row[r] \in RowType /\ row[r].status = RUNNING
    BY <1>1, <1>3, <1>4, WorkingView DEF Current
<1>6. r \in exists
    BY <1>3, <1>5, Existing
<1>7. stored \in RowType /\ stored.consistency = report
  <2>1. plan \subseteq Rows
      BY <1>3, PipelineAssumption DEF P!PlanAssumption
  <2>2. content \in P!Content
      BY <1>3, <2>1 DEF P!Content, P!Snapshot
  <2>3. report \in Report
      BY DEF Report
  <2> QED BY <1>5, <2>2, <2>3 DEF RecordResult, RowType, StageRow
<1> HIDE DEF stored
<1>8. new.status = IF report # Violations \/ autoApprove THEN DONE ELSE AWAITING_DECISION
    BY <1>7, WalkType
<1>9. /\ SuccessPath(report) \in Seq(StageStatus)
      /\ SuccessPath(report) # <<>>
      /\ SuccessPath(report)[Len(SuccessPath(report))] = new.status
  <2>1. CASE report # Violations
    <3>1. SuccessPath(report) = <<CONSISTENCY_CHECK, DONE>>
        BY <2>1 DEF SuccessPath
    <3> QED BY <1>8, <2>1, <3>1
  <2>2. CASE report = Violations /\ ~autoApprove
    <3>1. SuccessPath(report) = <<CONSISTENCY_CHECK, AWAITING_DECISION>>
        BY <2>2 DEF SuccessPath
    <3> QED BY <1>8, <2>2, <3>1
  <2>3. CASE report = Violations /\ autoApprove
    <3>1. SuccessPath(report) = <<CONSISTENCY_CHECK, AWAITING_DECISION, DONE>>
        BY <2>3 DEF SuccessPath
    <3> QED BY <1>8, <2>3, <3>1
  <2> QED BY <2>1, <2>2, <2>3
<1> HIDE DEF new
<1>10. told \in Lists /\ Tells(told, r, new.status)
  <2>1. told[r] = SuccessPath(report)
      BY <1>3 DEF NoEvents
  <2> QED BY <1>9, <2>1, NothingTold DEF Lists, Tells
<1>11. \A x \in Rows : R[x] = IF x = r THEN new ELSE View[x]
    BY <1>1, WorkingView
<1>12. GrowAndAdvance(s, View, R, told)
    BY <1>2 DEF new, stored
<1> HIDE DEF told, R, r, result
<1> QED BY <1>1, <1>6, <1>10, <1>11, <1>12, GrowAnnounces

LEMMA OperationAnnounces ==
    ASSUME OInv, Announcing, TypeOK', NEW s \in Sessions, Operate(s)
    PROVE  Announcing'
<1>1. CASE rollback(s)
  <2>1. /\ UNCHANGED <<row, events, unannounced>> /\ pc' = [pc EXCEPT ![s] = "idle"]
      BY <1>1 DEF rollback
  <2> QED BY <2>1 DEF OInv, TypeOK, Announcing, ChangesAreAnnounced, WillAnnounce
<1>2. CASE advance(s)
  <2>1. /\ Advance(s, loaded[s], exists, loaded[s], NoEvents) /\ events[s] = NoEvents
        /\ exists \in SUBSET Rows
      BY <1>2 DEF advance, Working, OInv, TypeOK
  <2> QED BY <2>1, NothingTold, AdvanceAnnounces
<1>3. ASSUME apply_failed(s) \/ fail(s) \/ cancel(s) \/ expire_stuck(s) PROVE Announcing'
  <2>1. pc[s] = "working" /\ \E S, code : MoveToError(s, loaded[s], S, code)
      BY <1>3 DEF apply_failed, fail, cancel, expire_stuck, Working
  <2> QED BY <2>1, FailureAnnounces
<1> QED BY <1>1, <1>2, <1>3, ApplySuccessAnnounces, RegenerateAnnounces, ApproveAnnounces
    DEF Operate

-----------------------------------------------------------------------------
\* An event that is published is that of the row as it is, or not the last one.
LEMMA PublishAnnounces ==
    ASSUME OInv, Announcing, TypeOK', NEW s \in Sessions, publish(s)
    PROVE  Announcing'
<1>1. PICK r \in Rows :
         /\ events[s][r] # <<>>
         /\ Dispatch(s, [events[s] EXCEPT ![r] = Tail(@)], messages[s])
         /\ unannounced' = unannounced \ {x \in {r} : Head(events[s][r]) = row[x].status}
    BY DEF publish
<1> DEFINE announce == [events[s] EXCEPT ![r] = Tail(@)]
<1>2. row' = row /\ TypeOK /\ unannounced' \subseteq Rows
    BY DEF publish, OInv, TypeOK
<1>3. events[s] \in Lists /\ events[s][r] \in Seq(StageStatus)
    BY DEF OInv, TypeOK, Lists
<1>4. \A x \in Rows : announce[x] = IF x = r THEN Tail(events[s][r]) ELSE events[s][x]
    BY <1>3 DEF Lists
<1>5. Dispatch(s, announce, messages[s])
    BY <1>1
<1> HIDE DEF announce
<1>6. ASSUME NEW x \in unannounced'
      PROVE  \/ Tells(announce, x, row'[x].status)
             \/ x \in unannounced /\ row'[x] = row[x] /\ ~WillAnnounce(s, x)
             \/ x \in unannounced /\ row'[x] = row[x] /\ announce[x] = events[s][x]
  <2>1. x \in unannounced /\ x \in Rows /\ row'[x] = row[x]
      BY <1>1, <1>2, <1>6
  <2>2. CASE x # r
      BY <1>4, <2>1, <2>2
  <2>3. CASE x = r
    <3>1. Head(events[s][r]) # row[r].status
        BY <1>1, <1>6, <2>3
    <3>2. CASE Tail(events[s][r]) = <<>>
      <4>1. ~WillAnnounce(s, r)
          BY <1>1, <1>3, <3>1, <3>2, TailEnds DEF WillAnnounce
      <4> QED BY <2>1, <2>3, <4>1
    <3>3. CASE Tail(events[s][r]) # <<>> /\ WillAnnounce(s, r)
      <4>1. Tail(events[s][r])[Len(Tail(events[s][r]))] = row[r].status
          BY <1>1, <1>3, <3>3, TailEnds DEF WillAnnounce
      <4> QED BY <1>2, <1>4, <2>3, <3>3, <4>1 DEF Tells
    <3>4. CASE ~WillAnnounce(s, r)
        BY <2>1, <2>3, <3>4
    <3> QED BY <3>2, <3>3, <3>4
  <2> QED BY <2>2, <2>3
<1> QED BY <1>2, <1>5, <1>6, AnnouncedStill

\* A compensation tells of the row that it fails.
LEMMA CompensateAnnounces ==
    ASSUME OInv, Announcing, TypeOK', NEW s \in Sessions, compensate(s)
    PROVE  Announcing'
<1> USE Distinct
<1> DEFINE failing == {r \in {op[s].row} : Current(row, op[s])}
           failed(r) == Transition(row[r], ERROR, FailingWith(QUEUE_UNAVAILABLE), NoAttempt,
                                   P!Now, P!Now)
           announce == Announce(NoEvents, failing, ERROR)
<1>1. /\ Dispatch(s, announce, LeftAfter(s, op[s]))
      /\ row' = [r \in Rows |-> IF r \in failing THEN failed(r) ELSE row[r]]
      /\ unannounced' = unannounced \cup failing
    BY DEF compensate
<1>2. events[s] = NoEvents /\ TypeOK /\ unannounced' \subseteq Rows
    BY DEF compensate, Announcing, OInv, TypeOK
<1>3. \A x \in Rows : x \in failing => Tells(announce, x, ERROR)
    BY NothingTold, AnnounceTells
<1>4. \A x \in Rows : failed(x).status = ERROR
    BY Moves
<1> HIDE DEF announce, failed, failing
<1>5. \A x \in Rows : ~WillAnnounce(s, x)
    BY <1>2 DEF WillAnnounce, NoEvents
<1>6. \A x \in unannounced' :
         \/ Tells(announce, x, row'[x].status)
         \/ x \in unannounced /\ row'[x] = row[x] /\ ~WillAnnounce(s, x)
    BY <1>1, <1>2, <1>3, <1>4, <1>5
<1> QED BY <1>1, <1>2, <1>6, AnnouncedStill

LEMMA StepAnnounces ==
    ASSUME OInv, Announcing, TypeOK', [Next]_vars
    PROVE  Announcing'
<1>1. ASSUME NEW s \in Sessions, NEW o \in Requests, begin(s, o) PROVE Announcing'
  <2>1. UNCHANGED <<row, events, unannounced>> /\ pc' = [pc EXCEPT ![s] = "working"]
      BY <1>1 DEF begin
  <2> QED BY <2>1 DEF OInv, TypeOK, Announcing, ChangesAreAnnounced, WillAnnounce
<1>2. ASSUME NEW s \in Sessions, enqueue(s) PROVE Announcing'
  <2>1. \E send : Dispatch(s, NoEvents, send)
      BY <1>2 DEF enqueue
  <2>2. /\ events[s] = NoEvents /\ UNCHANGED <<row, unannounced>>
        /\ TypeOK /\ unannounced' \subseteq Rows
      BY <1>2 DEF enqueue, OInv, TypeOK
  <2> QED BY <2>1, <2>2, AnnouncedStill
<1>3. ASSUME NEW s \in Sessions, enqueue_raises(s) PROVE Announcing'
  <2>1. /\ events[s] = NoEvents /\ UNCHANGED <<row, events, unannounced>>
        /\ pc' = [pc EXCEPT ![s] = "compensating"]
      BY <1>3 DEF enqueue_raises
  <2> QED BY <2>1 DEF OInv, TypeOK, Announcing, ChangesAreAnnounced, WillAnnounce
<1>4. ASSUME NEW s \in Sessions, give_up(s) PROVE Announcing'
  <2>1. /\ Dispatch(s, NoEvents, {}) /\ row' = row
        /\ unannounced' = unannounced \ {r \in Rows : WillAnnounce(s, r)}
      BY <1>4 DEF give_up
  <2>2. TypeOK /\ unannounced' \subseteq Rows
      BY DEF OInv, TypeOK
  <2>3. \A x \in unannounced' : x \in unannounced /\ row'[x] = row[x] /\ ~WillAnnounce(s, x)
      BY <2>1, <2>2
  <2> QED BY <2>1, <2>2, <2>3, AnnouncedStill
<1>5. ASSUME UNCHANGED <<row, pc, events, unannounced>> PROVE Announcing'
    BY <1>5 DEF Announcing, ChangesAreAnnounced, WillAnnounce
<1>6. ASSUME NEW m \in queue, get_snapshot(m) PROVE Announcing'
    BY <1>5, <1>6 DEF get_snapshot
<1>7. ASSUME UNCHANGED vars PROVE Announcing'
    BY <1>5, <1>7 DEF vars
<1>8. ASSUME NEW s \in Sessions, Proceed(s) PROVE Announcing'
    BY <1>2, <1>3, <1>8, OperationAnnounces, PublishAnnounces DEF Proceed, Deliver
<1> QED BY <1>1, <1>4, <1>6, <1>7, <1>8, StartAnnounces, CompensateAnnounces DEF Next

\* What every commit has made of a row is announced: no operation forgets to append the
\* event of a row it creates, starts, resets, finishes or fails, or appends the events of
\* one row out of order (orchestrator.py:114, 202, 347, 354, 384-386).
THEOREM AlwaysAnnounced == Spec => []ChangesAreAnnounced
<1>1. Init => Announcing
    BY DEF Init, Announcing, ChangesAreAnnounced
<1>2. OInv /\ OInv' /\ Announcing /\ [Next]_vars => Announcing'
    BY StepAnnounces DEF OInv
<1>3. Announcing => ChangesAreAnnounced
    BY DEF Announcing
<1> QED BY <1>1, <1>2, <1>3, OrchestratorInvariant, PTL DEF Spec

=============================================================================
