------------------------------ MODULE Watchdog ------------------------------
(***************************************************************************)
(* The lazy watchdog: reading projects (routers/projects.py) first looks   *)
(* for rows that have been RUNNING for longer than the stuck timeout and   *)
(* moves them to ERROR (GenerationOrchestrator.expire_stuck).  A read      *)
(* looks without a lock, then takes the lock of one project after the      *)
(* other; meanwhile results arrive, rows are reset and started again,      *)
(* other reads do the same work and projects are deleted.                  *)
(*                                                                         *)
(* Time is the age of an attempt, now - started_at, which saturates just   *)
(* above the timeout; what other operations do to a row, each under the    *)
(* lock of its project, is reduced to start, end and reset of an attempt.  *)
(* Steps below the project lock are left out, and so are users: whoever    *)
(* may read a project does.                                                *)
(***************************************************************************)
EXTENDS StageRows

CONSTANTS
    Projects,
    Rows,
    ProjectOf,   \* ProjectOf[r]: the project of row r
    Readers,     \* requests in progress
    Timeout      \* stuck_timeout_seconds

ASSUME ReadAssumption == ProjectOf \in [Rows -> Projects] /\ Timeout \in Nat

VARIABLES
    projects,  \* ids of the projects in the table
    row,       \* status, error and age of the rows
    request,   \* what each request is doing
    overdue    \* history: rows its query found stuck, as long as that attempt runs

vars == <<projects, row, request, overdue>>

Row == [status : StageStatus, error : {NoError, GENERATION_FAILED, STUCK_TIMEOUT},
        age : 0..Timeout + 1]

\* asked: the projects to read; stale: the rows found, of projects still to be locked.
Request == [pc : {"idle", "query", "expire", "not_found"}, asked : SUBSET Projects,
            stale : SUBSET Rows]

Idle == [pc |-> "idle", asked |-> {}, stale |-> {}]

\* Rows, requests and history keep their shape, and a row that does not run has no age.
TypeOK ==
    /\ projects \subseteq Projects
    /\ row \in [Rows -> Row]
    /\ \A r \in Rows : row[r].status # RUNNING => row[r].age = 0
    /\ request \in [Readers -> Request]
    /\ overdue \in [Readers -> SUBSET Rows]

Init ==
    /\ projects = Projects
    /\ row = [r \in Rows |-> [status |-> PENDING, error |-> NoError, age |-> 0]]
    /\ request = [s \in Readers |-> Idle]
    /\ overdue = [s \in Readers |-> {}]

Running(r) == ProjectOf[r] \in projects /\ row[r].status = RUNNING

RowsOf(p) == {r \in Rows : ProjectOf[r] = p}

\* The attempts of the rows in S are over.
Ended(S) == overdue' = [s \in Readers |-> overdue[s] \ S]

-----------------------------------------------------------------------------
(***************************************************************************)
(* The rest of the system, and time.                                       *)
(***************************************************************************)

\* Mutant of SetRow: the age is left as it was.
SetRowKeepingAge(r, status, error) ==
    /\ row' = [row EXCEPT ![r] = [status |-> status, error |-> error, age |-> @.age]]
    /\ Ended({r})
    /\ UNCHANGED <<projects, request>>

\* Row r moves to another status; its attempt is over, or a new one starts.
SetRow(r, status, error) ==
    /\ row' = [row EXCEPT ![r] = [status |-> status, error |-> error, age |-> 0]]
    /\ Ended({r})
    /\ UNCHANGED <<projects, request>>

run(r) ==
    /\ ProjectOf[r] \in projects
    /\ row[r].status = PENDING
    /\ SetRow(r, RUNNING, NoError)

finish(r) ==
    /\ Running(r)
    /\ SetRow(r, DONE, NoError) \/ SetRow(r, ERROR, GENERATION_FAILED)

\* A running row is reset as well, when a row it draws from is regenerated.
reset(r) ==
    /\ ProjectOf[r] \in projects
    /\ row[r].status # PENDING
    /\ SetRow(r, PENDING, NoError)

delete(p) ==
    /\ p \in projects
    /\ projects' = projects \ {p}
    /\ Ended(RowsOf(p))
    /\ UNCHANGED <<row, request>>

Tick ==
    /\ \E r \in Rows : Running(r) /\ row[r].age <= Timeout
    /\ row' = [r \in Rows |-> IF Running(r) /\ row[r].age <= Timeout
                              THEN [row[r] EXCEPT !.age = @ + 1]
                              ELSE row[r]]
    /\ UNCHANGED <<projects, request, overdue>>

-----------------------------------------------------------------------------
(***************************************************************************)
(* A read.                                                                 *)
(***************************************************************************)

Begin(s, asked) ==
    /\ request[s].pc \in {"idle", "not_found"}
    /\ request' = [request EXCEPT ![s] = [pc |-> "query", asked |-> asked, stale |-> {}]]
    /\ UNCHANGED <<projects, row, overdue>>

\* One page of the user's projects.
list_projects(s, page) == page \subseteq projects /\ Begin(s, page)

get_project(s, p) == p \in projects /\ Begin(s, {p})

\* Mutant of BeforeCutoff: the bound of the query includes the timeout.
BeforeCutoffOrAt(r) == row[r].age >= Timeout

\* started_at < cutoff
BeforeCutoff(r) == row[r].age > Timeout

\* now - started_at > timeout_seconds
is_stuck(r) == row[r].age > Timeout

stale_running_rows(s) ==
    LET found == {r \in Rows : Running(r) /\ BeforeCutoff(r) /\ ProjectOf[r] \in request[s].asked}
    IN  /\ request[s].pc = "query"
        /\ request' = [request EXCEPT ![s].pc = "expire", ![s].asked = {}, ![s].stale = found]
        /\ overdue' = [overdue EXCEPT ![s] = found]
        /\ UNCHANGED <<projects, row>>

\* Mutant of ToExpire: what the query found is not looked at again under the lock.
ToExpireAsFound(s, p) == {r \in RowsOf(p) \cap request[s].stale : row[r].status = RUNNING}

\* Every row of the project that is stuck by now, found by the query or not.
ToExpire(s, p) == {r \in RowsOf(p) : row[r].status = RUNNING /\ is_stuck(r)}

Expire(S) ==
    /\ row' = [r \in Rows |-> IF r \in S
                              THEN [status |-> ERROR, error |-> STUCK_TIMEOUT, age |-> 0]
                              ELSE row[r]]
    /\ Ended(S)

\* The next project of the loop of s is p.
Reaches(s, p) == request[s].pc = "expire" /\ \E r \in request[s].stale : ProjectOf[r] = p

\* Mutant of expire_stuck: the loop ends with the first project.
ExpireFirstProject(s, p) ==
    /\ Reaches(s, p)
    /\ p \in projects
    /\ Expire(ToExpire(s, p))
    /\ request' = [request EXCEPT ![s].stale = {}]
    /\ UNCHANGED projects

\* One turn of the loop: lock p, move its stuck rows, commit.
expire_stuck(s, p) ==
    /\ Reaches(s, p)
    /\ p \in projects
    /\ Expire(ToExpire(s, p))
    /\ request' = [request EXCEPT ![s].stale = @ \ RowsOf(p)]
    /\ UNCHANGED projects

\* _lock_project finds no project: the request ends with 404.
project_gone(s, p) ==
    /\ Reaches(s, p)
    /\ p \notin projects
    /\ request' = [request EXCEPT ![s].pc = "not_found", ![s].stale = {}]
    /\ overdue' = [overdue EXCEPT ![s] = {}]
    /\ UNCHANGED <<projects, row>>

Answers(s) == request[s].pc = "expire" /\ request[s].stale = {}

\* The rows are read again and the request is answered.
answer(s) ==
    /\ Answers(s)
    /\ request' = [request EXCEPT ![s] = Idle]
    /\ overdue' = [overdue EXCEPT ![s] = {}]
    /\ UNCHANGED <<projects, row>>

Continue(s) ==
    \/ stale_running_rows(s)
    \/ \E p \in Projects : expire_stuck(s, p) \/ project_gone(s, p)
    \/ answer(s)

Next ==
    \/ \E r \in Rows : run(r) \/ finish(r) \/ reset(r)
    \/ \E p \in Projects : delete(p)
    \/ Tick
    \/ \E s \in Readers :
          \/ \E page \in SUBSET Projects : list_projects(s, page)
          \/ \E p \in Projects : get_project(s, p)
          \/ Continue(s)

\* Time goes by, and a request that has begun is carried through.  Nobody has to
\* read, and no attempt has to end by itself.
Fairness == WF_vars(Tick) /\ \A s \in Readers : WF_vars(Continue(s))

Spec == Init /\ [][Next]_vars /\ Fairness

-----------------------------------------------------------------------------
(***************************************************************************)
(* An attempt expires only after the timeout, also when the row the query  *)
(* found has been reset and started again before the lock was taken.       *)
(***************************************************************************)
OnlyStuckRowsExpire ==
    [][\A r \in Rows :
          row'[r].error = STUCK_TIMEOUT /\ row[r].error # STUCK_TIMEOUT =>
              Running(r) /\ row[r].age > Timeout]_vars

(***************************************************************************)
(* The query and the check under the lock agree: a read that is answered   *)
(* does not show an attempt as running that its query found stuck.         *)
(***************************************************************************)
FoundAttemptsAreOver == \A s \in Readers : Answers(s) => overdue[s] = {}

(***************************************************************************)
(* Every attempt ends as long as its project is read again and again, even *)
(* if no result ever comes: what a lost message or a dead worker leaves    *)
(* behind does not run forever.                                            *)
(***************************************************************************)
AttemptsEnd ==
    \A r \in Rows :
        []<>(\E s \in Readers : request[s].pc = "query" /\ ProjectOf[r] \in request[s].asked)
            => (Running(r) ~> ~Running(r))

=============================================================================
