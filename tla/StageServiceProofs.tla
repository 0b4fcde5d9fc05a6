------------------------- MODULE StageServiceProofs -------------------------
(***************************************************************************)
(* Proofs about StageService, for any rows, dependents and bounds.         *)
(***************************************************************************)
EXTENDS StageService, StageRowsProofs

\* Bounds and arguments of the calls.
LEMMA Arguments ==
    /\ MaxAttempts \in Nat /\ MaxTime \in Nat /\ 0 \in Attempts /\ NoAttempt \in Attempts
    /\ \A s, t : \A opt \in Options : Accepted(s, t, opt) /\ t = ERROR => opt.failure # NoError
    /\ Plain \in Options
    /\ NewRow \in StageRow(Attempts, Contents)
<1>1. MaxAttempts \in Nat /\ MaxTime \in Nat /\ 0 \in Attempts /\ NoAttempt \in Attempts
    BY StageServiceAssumption DEF Attempts, NoAttempt
<1>2. \A s, t : \A opt \in Options : Accepted(s, t, opt) /\ t = ERROR => opt.failure # NoError
    BY DEF Accepted
<1>3. Plain \in Options
    BY DEF Plain, Call, Options
<1>4. NewRow \in StageRow(Attempts, Contents)
    BY <1>1 DEF NewRow, StageRow, StageStatus, PENDING, Report, NoReport, Unset
<1> QED BY <1>1, <1>2, <1>3, <1>4

LEMMA NextTypes == TypeOK /\ [Next]_vars => TypeOK'
<1> SUFFICES ASSUME TypeOK, [Next]_vars PROVE TypeOK'
    OBVIOUS
<1> USE Arguments
<1>1. ASSUME NEW specs \in SUBSET Rows, create_rows(specs) PROVE TypeOK'
    BY <1>1 DEF create_rows, TypeOK
<1>2. ASSUME NEW r \in Rows, NEW target \in StageStatus, NEW opt \in Options,
             NEW later \in 1..MaxTime, transition(r, target, opt, later)
      PROVE  TypeOK'
  <2> DEFINE new == Transition(row[r], target, opt, issued[r] + 1, now, later)
  <2>1. /\ row' = [row EXCEPT ![r] = new]
        /\ Accepted(row[r], target, opt)
        /\ target = RUNNING => issued[r] < MaxAttempts
        /\ issued' = IF target = RUNNING THEN [issued EXCEPT ![r] = @ + 1] ELSE issued
        /\ exists' = exists /\ now' = later
      BY <1>2 DEF transition
  <2>2. now \in Nat /\ later \in Nat /\ row[r] \in StageRow(Attempts, Contents) /\ issued[r] \in Nat
      BY DEF TypeOK, Attempts
  <2>3. new \in StageRow(Attempts, Contents)
    <3>1. CASE target = RUNNING
      <4>1. issued[r] + 1 \in Attempts
          BY <2>1, <2>2, <3>1 DEF Attempts
      <4> QED BY <2>1, <2>2, <4>1, TransitionType
    <3>2. CASE target # RUNNING
      <4>1. new = Transition(row[r], target, opt, NoAttempt, now, later)
          BY <3>2 DEF Transition
      <4> QED BY <2>1, <2>2, <4>1, TransitionType
    <3> QED BY <3>1, <3>2
  <2>4. issued' \in [Rows -> Attempts]
      BY <2>1, <2>2 DEF TypeOK, Attempts
  <2> HIDE DEF new
  <2> QED BY <2>1, <2>3, <2>4 DEF TypeOK
<1>3. ASSUME NEW r \in Rows, reset_from(r) PROVE TypeOK'
  <2>1. now \in Nat /\ \A x \in Rows : row[x] \in StageRow(Attempts, Contents)
      BY DEF TypeOK
  <2>2. PENDING \in StageStatus /\ PENDING # ERROR
      BY DEF StageStatus, PENDING, ERROR
  <2>3. \A x \in Rows : Transition(row[x], PENDING, Plain, NoAttempt, now, now)
                           \in StageRow(Attempts, Contents)
      BY <2>1, <2>2, TransitionType
  <2> QED BY <1>3, <2>3 DEF reset_from, TypeOK
<1>4. ASSUME NEW r \in Rows, NEW contents \in SUBSET Contents, NEW report \in Reports,
             record_result(r, contents, report)
      PROVE  TypeOK'
  <2>1. row[r] \in StageRow(Attempts, Contents) /\ report \in Report
      BY StageServiceAssumption DEF TypeOK
  <2>2. RecordResult(row[r], contents, report) \in StageRow(Attempts, Contents)
      BY <2>1 DEF RecordResult, StageRow
  <2> QED BY <1>4, <2>2 DEF record_result, TypeOK
<1>5. CASE Tick
    BY <1>5 DEF Tick, TypeOK
<1>6. CASE UNCHANGED vars
    BY <1>6 DEF vars, TypeOK
<1> QED BY <1>1, <1>2, <1>3, <1>4, <1>5, <1>6 DEF Next

\* The columns of the rows keep their types under any sequence of calls.
THEOREM TypeCorrect == Spec => []TypeOK
<1>1. Init => TypeOK
    BY Arguments, StageServiceAssumption DEF Init, TypeOK
<1>2. TypeOK /\ [Next]_vars => TypeOK'
    BY NextTypes
<1> QED BY <1>1, <1>2, PTL DEF Spec

-----------------------------------------------------------------------------
(***************************************************************************)
(* The fields of a row and its status.                                     *)
(***************************************************************************)

\* FieldsAgreeWithStatus of one row q, and that its attempt neither started nor
\* ended later than now.
Agrees(q) ==
    /\ q.attempt = NoAttempt <=> q.status = PENDING
    /\ q.error # NoError <=> q.status = ERROR
    /\ q.started = Unset <=> q.status = PENDING
    /\ q.finished # Unset <=> q.status \in {AWAITING_DECISION, DONE, ERROR}
    /\ q.finished # Unset => q.started <= q.finished
    /\ q.approved # Unset => q.status = DONE /\ q.finished <= q.approved
    /\ q.started <= now /\ q.finished <= now

FInv == TypeOK /\ \A r \in Rows : Agrees(row[r])

\* A row agrees after a transition if it did before: whatever a status needs is set
\* on every edge into it, and whatever it must not have is cleared.
LEMMA TransitionAgrees ==
    ASSUME StageTransitions = KnownTransitions,
           NEW q \in StageRow(Attempts, Contents), Agrees(q), now \in Nat \ {0},
           NEW later \in Nat, now <= later,
           NEW target \in StageStatus, NEW opt \in Options, Accepted(q, target, opt),
           NEW fresh \in Nat, target = RUNNING => fresh # NoAttempt
    PROVE  Agrees(Transition(q, target, opt, fresh, now, later))
<1> USE DEF Transition, Restarting, Settled, FinishedAt, ApprovedAt, Agrees, StageRow, Options, Accepted,
            Unset, NoAttempt
<1>1. <<q.status, target>> \in KnownTransitions
    BY DEF is_valid_transition
<1>2. \/ target = PENDING
      \/ target = RUNNING
      \/ target = CONSISTENCY_CHECK /\ q.status = RUNNING
      \/ target \in {DONE, AWAITING_DECISION, NEEDS_RETRY, ERROR} /\ q.status = CONSISTENCY_CHECK
      \/ target = ERROR /\ q.status = RUNNING
      \/ target = DONE /\ q.status = AWAITING_DECISION
    BY <1>1 DEF KnownTransitions
<1> USE DEF PENDING, RUNNING, CONSISTENCY_CHECK, AWAITING_DECISION, NEEDS_RETRY, DONE, ERROR
<1>3. CASE target = PENDING
    BY <1>3
<1>4. CASE target = RUNNING
    BY <1>4
<1>5. CASE target \in {CONSISTENCY_CHECK, NEEDS_RETRY} /\ q.status \in {RUNNING, CONSISTENCY_CHECK}
    BY <1>5
<1>6. CASE target = ERROR /\ q.status \in {RUNNING, CONSISTENCY_CHECK}
    BY <1>6
<1>7. CASE target = AWAITING_DECISION /\ q.status = CONSISTENCY_CHECK
    BY <1>7
<1>8. CASE target = DONE /\ q.status \in {AWAITING_DECISION, CONSISTENCY_CHECK}
    BY <1>8
<1> QED BY <1>2, <1>3, <1>4, <1>5, <1>6, <1>7, <1>8

LEMMA NextAgrees ==
    ASSUME StageTransitions = KnownTransitions, FInv, [Next]_vars
    PROVE  \A r \in Rows : Agrees(row[r])'
<1>1. now \in Nat \ {0} /\ \A r \in Rows : row[r] \in StageRow(Attempts, Contents) /\ issued[r] \in Nat
    BY Arguments DEF FInv, TypeOK, Attempts
<1>2. ASSUME NEW specs \in SUBSET Rows, create_rows(specs)
      PROVE  \A r \in Rows : Agrees(row[r])'
    BY <1>2 DEF create_rows, FInv, Agrees
<1>3. ASSUME NEW r \in Rows, NEW target \in StageStatus, NEW opt \in Options,
             NEW later \in 1..MaxTime, transition(r, target, opt, later)
      PROVE  \A x \in Rows : Agrees(row[x])'
  <2> DEFINE new == Transition(row[r], target, opt, issued[r] + 1, now, later)
  <2>1. /\ row' = [row EXCEPT ![r] = new] /\ Accepted(row[r], target, opt)
        /\ now <= later /\ now' = later /\ later \in Nat
      BY <1>3, Arguments DEF transition
  <2>2. issued[r] + 1 \in Nat /\ issued[r] + 1 # NoAttempt
      BY <1>1 DEF NoAttempt
  <2>3. Agrees(new)
    <3>1. row[r] \in StageRow(Attempts, Contents) /\ Agrees(row[r]) /\ now \in Nat \ {0}
        BY <1>1 DEF FInv
    <3> QED BY <2>1, <2>2, <3>1, TransitionAgrees
  <2>4. \A x \in Rows : row[x].started \in Nat /\ row[x].finished \in Nat
      BY <1>1 DEF StageRow
  <2>5. new.started \in Nat /\ new.finished \in Nat
      BY <1>1, <2>4 DEF Transition, FinishedAt, Unset
  <2> HIDE DEF new
  <2>6. \A x \in Rows : row'[x] = IF x = r THEN new ELSE row[x]
      BY <2>1 DEF FInv, TypeOK
  <2> QED BY <1>1, <2>1, <2>3, <2>4, <2>5, <2>6 DEF FInv, Agrees
<1>4. ASSUME NEW r \in Rows, reset_from(r)
      PROVE  \A x \in Rows : Agrees(row[x])'
  <2> DEFINE new(x) == Transition(row[x], PENDING, Plain, NoAttempt, now, now)
  <2>1. /\ \A x \in ToReset(r) : Accepted(row[x], PENDING, Plain)
        /\ row' = [x \in Rows |-> IF x \in ToReset(r) THEN new(x) ELSE row[x]]
        /\ now' = now
      BY <1>4 DEF reset_from
  <2>2. PENDING \in StageStatus /\ PENDING # RUNNING /\ NoAttempt \in Nat
      BY DEF StageStatus, PENDING, RUNNING, NoAttempt
  <2>3. \A x \in Rows : x \in ToReset(r) => Agrees(new(x))
      BY <1>1, <2>1, <2>2, Arguments, TransitionAgrees DEF FInv
  <2> HIDE DEF new
  <2>4. \A x \in Rows : row'[x] = IF x \in ToReset(r) THEN new(x) ELSE row[x]
      BY <2>1
  <2> QED BY <2>1, <2>3, <2>4 DEF FInv, Agrees
<1>5. ASSUME NEW r \in Rows, NEW contents \in SUBSET Contents, NEW report \in Reports,
             record_result(r, contents, report)
      PROVE  \A x \in Rows : Agrees(row[x])'
  <2> DEFINE new == RecordResult(row[r], contents, report)
  <2>1. row' = [row EXCEPT ![r] = new] /\ now' = now
      BY <1>5 DEF record_result
  <2>2. Agrees(new)
      BY <1>1 DEF FInv, Agrees, RecordResult, StageRow
  <2> HIDE DEF new
  <2>3. \A x \in Rows : row'[x] = IF x = r THEN new ELSE row[x]
      BY <2>1 DEF FInv, TypeOK
  <2> QED BY <2>1, <2>2, <2>3 DEF FInv, Agrees
<1>6. ASSUME Tick PROVE \A x \in Rows : Agrees(row[x])'
  <2>1. row' = row /\ now' = now + 1
      BY <1>6 DEF Tick
  <2>2. \A x \in Rows : row[x].started \in Nat /\ row[x].finished \in Nat
      BY <1>1 DEF StageRow
  <2> QED BY <1>1, <2>1, <2>2 DEF FInv, Agrees
<1>7. ASSUME UNCHANGED vars PROVE \A x \in Rows : Agrees(row[x])'
    BY <1>7 DEF vars, FInv, Agrees
<1> QED BY <1>2, <1>3, <1>4, <1>5, <1>6, <1>7 DEF Next

\* However callers order their calls, attempt, error and timestamps of a row agree with
\* its status (the branches of StageService.transition), on the edges the code takes.
THEOREM AlwaysAgree ==
    ASSUME StageTransitions = KnownTransitions
    PROVE  Spec => []FieldsAgreeWithStatus
<1>1. Init => FInv
  <2>1. Init => TypeOK
      BY Arguments, StageServiceAssumption DEF Init, TypeOK
  <2> QED BY <2>1
          DEF Init, FInv, Agrees, NewRow, NoAttempt, Unset, NoError,
              PENDING, AWAITING_DECISION, DONE, ERROR
<1>2. FInv /\ [Next]_vars => FInv'
    BY NextTypes, NextAgrees DEF FInv
<1>3. FInv => FieldsAgreeWithStatus
    BY DEF FInv, Agrees, FieldsAgreeWithStatus, AttemptMatchesStatus, ErrorMatchesStatus,
           TimesMatchStatus
<1> QED BY <1>1, <1>2, <1>3, PTL DEF Spec

\* retry_count changes only with a start that asks for it, on every admissible stage
\* machine: neither resets nor results touch it.
THEOREM AlwaysCounted == Spec => RetriesCountedOnStartsOnly
<1>1. TypeOK /\ [Next]_vars =>
         [\A r \in Rows : row'[r].retry # row[r].retry => issued'[r] = issued[r] + 1]_vars
  <2> SUFFICES ASSUME TypeOK, Next
               PROVE  \A x \in Rows : row'[x].retry # row[x].retry => issued'[x] = issued[x] + 1
      OBVIOUS
  <2>1. ASSUME NEW r \in Rows, NEW target \in StageStatus, NEW opt \in Options,
               NEW later \in 1..MaxTime, transition(r, target, opt, later),
               NEW x \in Rows, row'[x].retry # row[x].retry
        PROVE  issued'[x] = issued[x] + 1
    <3>1. x = r /\ (opt.increment_retry \/ opt.reset_retry)
        BY <2>1 DEF transition, TypeOK, Transition, RetryCount
    <3>2. target = RUNNING
        BY <2>1, <3>1 DEF transition, Accepted
    <3> QED BY <2>1, <3>1, <3>2 DEF transition, TypeOK
  <2>2. ASSUME NEW r \in Rows, reset_from(r), NEW x \in Rows
        PROVE  row'[x].retry = row[x].retry
      BY <2>2 DEF reset_from, TypeOK, Transition, RetryCount, Plain, Call
  <2>3. ASSUME NEW r \in Rows, NEW contents, NEW report, record_result(r, contents, report),
               NEW x \in Rows
        PROVE  row'[x].retry = row[x].retry
      BY <2>3 DEF record_result, TypeOK, RecordResult, StageRow
  <2>4. ASSUME NEW specs, create_rows(specs) \/ Tick PROVE row' = row
      BY <2>4 DEF create_rows, Tick
  <2> QED BY <2>1, <2>2, <2>3, <2>4 DEF Next
<1> QED BY <1>1, TypeCorrect, PTL DEF Spec, RetriesCountedOnStartsOnly

=============================================================================
