--------------------------- MODULE WatchdogProofs ---------------------------
(***************************************************************************)
(* Proofs about the watchdog's safety: an attempt expires only after the   *)
(* timeout, and an answered read shows none running that its query found   *)
(* stuck, for any number of projects, rows, requests and any timeout.      *)
(***************************************************************************)
EXTENDS Watchdog, TLAPS

\* What the history of a request holds while it goes through its projects: attempts
\* that run, that are stuck, and that are still to be expired.
Found ==
    \A s \in Readers :
        /\ request[s].pc = "expire" =>
              \A r \in overdue[s] : r \in request[s].stale /\ Running(r) /\ is_stuck(r)
        /\ request[s].pc # "expire" => overdue[s] = {}

IInv == TypeOK /\ Found

USE DEF PENDING, RUNNING, CONSISTENCY_CHECK, AWAITING_DECISION, NEEDS_RETRY, DONE, ERROR,
        NoError, GENERATION_FAILED, STUCK_TIMEOUT

\* The end or the start of an attempt takes it out of every history.
LEMMA SetRowKeeps ==
    ASSUME IInv, NEW r \in Rows, NEW status \in StageStatus, NEW error \in {NoError, GENERATION_FAILED},
           SetRow(r, status, error)
    PROVE  IInv'
<1> USE ReadAssumption
<1>1. TypeOK'
    BY DEF IInv, TypeOK, SetRow, Ended, Row
<1>2. Found'
    BY DEF IInv, TypeOK, Found, SetRow, Ended, Running, is_stuck
<1> QED BY <1>1, <1>2 DEF IInv

\* A request that begins has no history.
LEMMA BeginKeeps ==
    ASSUME IInv, NEW s \in Readers, NEW asked \in SUBSET Projects, Begin(s, asked)
    PROVE  IInv'
<1>1. TypeOK'
    BY DEF IInv, TypeOK, Begin, Request
<1>2. Found'
    BY DEF IInv, TypeOK, Found, Begin, Running, is_stuck, Request
<1> QED BY <1>1, <1>2 DEF IInv

\* One turn of the loop: what the request leaves in its history is in other projects.
LEMMA ExpireKeeps ==
    ASSUME IInv, NEW s \in Readers, NEW p \in Projects, expire_stuck(s, p)
    PROVE  IInv'
<1> USE ReadAssumption
<1>1. TypeOK'
  <2>1. row' \in [Rows -> Row] /\ \A r \in Rows : row'[r].status # RUNNING => row'[r].age = 0
      BY DEF IInv, TypeOK, expire_stuck, Expire, Row, StageStatus
  <2>2. /\ projects' \subseteq Projects
        /\ request' \in [Readers -> Request]
        /\ overdue' \in [Readers -> SUBSET Rows]
      BY DEF IInv, TypeOK, expire_stuck, Expire, Ended, Request
  <2> QED BY <2>1, <2>2 DEF TypeOK
<1>2. Found'
  <2> SUFFICES ASSUME NEW t \in Readers
               PROVE  /\ request'[t].pc = "expire" =>
                            \A r \in overdue'[t] :
                                r \in request'[t].stale /\ Running(r)' /\ is_stuck(r)'
                      /\ request'[t].pc # "expire" => overdue'[t] = {}
      BY DEF Found
  <2>1. /\ request'[t].pc = request[t].pc
        /\ overdue'[t] = overdue[t] \ ToExpire(s, p)
        /\ projects' = projects
      BY DEF IInv, TypeOK, expire_stuck, Expire, Ended, Request
  <2>2. \A r \in Rows \ ToExpire(s, p) : row'[r] = row[r]
      BY DEF expire_stuck, Expire
  <2>3. \A r \in overdue'[t] : r \in Rows /\ row'[r] = row[r]
      BY <2>1, <2>2 DEF IInv, TypeOK
  <2>4. CASE request[t].pc # "expire"
      BY <2>1, <2>4 DEF IInv, Found
  <2>5. CASE request[t].pc = "expire"
    <3>1. \A r \in overdue'[t] : Running(r)' /\ is_stuck(r)'
        BY <2>1, <2>3, <2>5 DEF IInv, Found, Running, is_stuck
    <3>2. \A r \in overdue[t] \cap RowsOf(p) : r \in ToExpire(s, p)
        BY <2>5 DEF IInv, Found, Running, ToExpire
    <3>3. \A r \in overdue'[t] : r \in request[t].stale /\ r \notin RowsOf(p)
        BY <2>1, <2>5, <3>2 DEF IInv, Found
    <3>4. request'[t].stale = request[t].stale \/ request'[t].stale = request[t].stale \ RowsOf(p)
        BY DEF IInv, TypeOK, expire_stuck, Request
    <3> QED BY <2>1, <2>5, <3>1, <3>3, <3>4
  <2> QED BY <2>4, <2>5
<1> QED BY <1>1, <1>2 DEF IInv

(***************************************************************************)
(* The invariant: types, and what the histories of the requests hold.      *)
(***************************************************************************)
THEOREM WatchdogInvariant == Spec => []IInv
<1> USE ReadAssumption
<1>1. Init => IInv
    BY DEF Init, IInv, TypeOK, Found, Row, StageStatus, Request, Idle
<1>2. IInv /\ [Next]_vars => IInv'
  <2> SUFFICES ASSUME IInv, [Next]_vars PROVE IInv'
      OBVIOUS
  <2>1. CASE UNCHANGED vars
      BY <2>1 DEF vars, IInv, TypeOK, Found, Running, is_stuck
  <2>2. ASSUME NEW r \in Rows, run(r) \/ finish(r) \/ reset(r)
        PROVE  IInv'
      BY <2>2, SetRowKeeps DEF run, finish, reset, StageStatus
  <2>3. ASSUME NEW p \in Projects, delete(p)
        PROVE  IInv'
    <3>1. TypeOK'
        BY <2>3 DEF IInv, TypeOK, delete, Ended
    <3>2. Found'
        BY <2>3 DEF IInv, TypeOK, Found, delete, Ended, Running, RowsOf, is_stuck
    <3> QED BY <3>1, <3>2 DEF IInv
  <2>4. CASE Tick
    <3>1. ASSUME NEW r \in Rows
          PROVE  /\ row'[r] \in Row
                 /\ row'[r].status = row[r].status
                 /\ row'[r].age >= row[r].age
                 /\ row[r].status # RUNNING => row'[r] = row[r]
      <4>1. row[r] \in Row /\ row[r].age \in 0..Timeout + 1
          BY DEF IInv, TypeOK, Row
      <4>2. CASE row'[r] = row[r]
          BY <4>1, <4>2
      <4>3. CASE Running(r) /\ row[r].age <= Timeout /\ row'[r] = [row[r] EXCEPT !.age = @ + 1]
          BY <4>1, <4>3 DEF Row, Running
      <4> QED BY <2>4, <4>2, <4>3 DEF Tick
    <3>2. row' \in [Rows -> Row]
        BY <2>4, <3>1 DEF Tick
    <3>3. TypeOK'
        BY <2>4, <3>1, <3>2 DEF IInv, TypeOK, Tick
    <3>4. Found'
        BY <2>4, <3>1 DEF IInv, TypeOK, Found, Tick, Running, is_stuck, Row
    <3> QED BY <3>3, <3>4 DEF IInv
  <2>5. ASSUME NEW s \in Readers, NEW page \in SUBSET Projects, list_projects(s, page)
        PROVE  IInv'
      BY <2>5, BeginKeeps DEF list_projects
  <2>6. ASSUME NEW s \in Readers, NEW p \in Projects, get_project(s, p)
        PROVE  IInv'
      BY <2>6, BeginKeeps DEF get_project
  <2>7. ASSUME NEW s \in Readers, stale_running_rows(s)
        PROVE  IInv'
    <3>1. TypeOK'
        BY <2>7 DEF IInv, TypeOK, stale_running_rows, Request
    <3>2. Found'
        BY <2>7 DEF IInv, TypeOK, Found, stale_running_rows, Running, is_stuck, BeforeCutoff, Request
    <3> QED BY <3>1, <3>2 DEF IInv
  <2>8. ASSUME NEW s \in Readers, NEW p \in Projects, expire_stuck(s, p)
        PROVE  IInv'
      BY <2>8, ExpireKeeps
  <2>9. ASSUME NEW s \in Readers, NEW p \in Projects, project_gone(s, p)
        PROVE  IInv'
    <3>1. TypeOK'
        BY <2>9 DEF IInv, TypeOK, project_gone, Request
    <3>2. Found'
        BY <2>9 DEF IInv, TypeOK, Found, project_gone, Running, is_stuck, Request
    <3> QED BY <3>1, <3>2 DEF IInv
  <2>10. ASSUME NEW s \in Readers, answer(s)
         PROVE  IInv'
    <3>1. TypeOK'
        BY <2>10 DEF IInv, TypeOK, answer, Idle, Request
    <3>2. Found'
        BY <2>10 DEF IInv, TypeOK, Found, answer, Idle, Running, is_stuck, Request
    <3> QED BY <3>1, <3>2 DEF IInv
  <2> QED BY <2>1, <2>2, <2>3, <2>4, <2>5, <2>6, <2>7, <2>8, <2>9, <2>10 DEF Next, Continue
<1> QED BY <1>1, <1>2, PTL DEF Spec

\* Rows, requests and histories keep their shape, and a row that does not run has no age.
THEOREM TypeCorrect == Spec => []TypeOK
<1>1. IInv => TypeOK
    BY DEF IInv
<1> QED BY <1>1, WatchdogInvariant, PTL

(***************************************************************************)
(* A read that is answered shows no attempt as running that its query      *)
(* found stuck: the bound of the query and the one under the lock agree    *)
(* whatever the timeout.                                                   *)
(***************************************************************************)
THEOREM AlwaysOver == Spec => []FoundAttemptsAreOver
<1>1. IInv => FoundAttemptsAreOver
    BY DEF IInv, Found, FoundAttemptsAreOver, Answers
<1> QED BY <1>1, WatchdogInvariant, PTL

(***************************************************************************)
(* Only attempts that are over the timeout in the very step expire.        *)
(***************************************************************************)
THEOREM AlwaysStuckFirst == Spec => OnlyStuckRowsExpire
<1> DEFINE Step == \A r \in Rows :
                      row'[r].error = STUCK_TIMEOUT /\ row[r].error # STUCK_TIMEOUT =>
                          Running(r) /\ row[r].age > Timeout
<1>1. IInv /\ [Next]_vars => [Step]_vars
  <2> SUFFICES ASSUME IInv, Next, NEW x \in Rows,
                      row'[x].error = STUCK_TIMEOUT, row[x].error # STUCK_TIMEOUT
               PROVE  Running(x) /\ row[x].age > Timeout
      OBVIOUS
  <2>1. row' # row
      OBVIOUS
  <2>2. ASSUME NEW r \in Rows, run(r) \/ finish(r) \/ reset(r)
        PROVE  FALSE
      BY <2>2 DEF IInv, TypeOK, run, finish, reset, SetRow
  <2>3. CASE Tick
      BY <2>3 DEF IInv, TypeOK, Tick, Row
  <2>4. ASSUME NEW s \in Readers, NEW p \in Projects, expire_stuck(s, p)
        PROVE  Running(x) /\ row[x].age > Timeout
      BY <2>4, ReadAssumption DEF expire_stuck, Expire, ToExpire, RowsOf, Running, is_stuck
  <2> QED
      BY <2>1, <2>2, <2>3, <2>4 DEF Next, Continue, delete, list_projects, get_project, Begin,
             stale_running_rows, project_gone, answer
<1> HIDE DEF Step
<1>2. Spec => [][Step]_vars
    BY <1>1, WatchdogInvariant, PTL DEF Spec
<1> QED BY <1>2, PTL DEF OnlyStuckRowsExpire, Step

=============================================================================
