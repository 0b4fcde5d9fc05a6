---------------------------- MODULE UsersProofs ----------------------------
\* That the constraints of the table keep emails unique, whatever the requests do, and
\* that the columns a session writes keep a deactivated user so.
EXTENDS Users, TLAPS

\* Emails are keys of the users in the table; of what types does not matter.
Keys == email = [u \in Ids |-> email[u]] /\ EmailsAreUnique

(***************************************************************************)
(* No two users ever have the same email, for any number of users, emails, *)
(* passwords and concurrent requests.                                      *)
(***************************************************************************)
THEOREM AlwaysUnique == Spec => []EmailsAreUnique
<1>1. Init => Keys
    BY DEF Init, Keys, EmailsAreUnique, Registered
<1>2. Keys /\ [Next]_vars => Keys'
  <2> SUFFICES ASSUME Keys, [Next]_vars PROVE Keys'
      OBVIOUS
  <2>1. CASE email' = email
      BY <2>1 DEF Keys, EmailsAreUnique, Registered
  <2>2. ASSUME NEW u, NEW user, Admitted(user, u), email' = [email EXCEPT ![u] = user.email]
        PROVE  Keys'
      BY <2>2 DEF Keys, EmailsAreUnique, Registered, Admitted, EmailIsFree
  <2>3. ASSUME NEW s \in Sessions, commit(s), email' # email
        PROVE  \E u, user : Admitted(user, u) /\ email' = [email EXCEPT ![u] = user.email]
      BY <2>3 DEF commit
  <2> QED BY <2>1, <2>2, <2>3 DEF Next, vars, create, update, change_password, authenticate, Checked
<1>3. Keys => EmailsAreUnique
    BY DEF Keys
<1> QED BY <1>1, <1>2, <1>3, PTL DEF Spec

LEMMA EmailsAreSpellings == Emails \subseteq Spellings /\ Null \notin Emails /\ Unset \notin Emails
  BY ValueAssumption DEF Emails

LEMMA AnswerTyped ==
  ASSUME session \in [Sessions -> Session], NEW s \in Sessions, NEW change \in Change,
         NEW code \in {"ok", "conflict", "unavailable", "unauthorized"}, Answer(s, code, change)
  PROVE  session' \in [Sessions -> Session]
<1>1. [pc |-> "answered", code |-> code, change |-> change] \in Session
    BY DEF Session
<1> QED BY <1>1 DEF Answer, Go

LEMMA CheckedTyped ==
  ASSUME TypeOK, NEW s \in Sessions, NEW change \in Change, NEW mustCheck \in BOOLEAN,
         Checked(s, change, mustCheck)
  PROVE  TypeOK'
<1>1. [pc |-> "change", change |-> change] \in Session
    BY DEF Session
<1>2. session' \in [Sessions -> Session]
    BY <1>1, AnswerTyped DEF TypeOK, Checked, Go
<1> QED BY <1>2 DEF TypeOK, Checked

LEMMA NoChangeTyped == NoChange \in Change
  BY ValueAssumption DEF NoChange, Change

LEMMA LoadedTyped ==
  ASSUME TypeOK, NEW u \in Ids, Admissible(u)
  PROVE  Loaded(u) \in [email : Emails \cup {Null}, password : Passwords \cup {Null},
                        active : {Yes, Null}]
  BY DEF TypeOK, Admissible, Loaded

\* What a commit writes, into a row of the user's or one that was not in use.
LEMMA WrittenTyped ==
  ASSUME TypeOK, NEW change \in Change, NEW u \in Targets(change), Admitted(Written(u, change), u)
  PROVE  /\ u \in Ids
         /\ Written(u, change).email \in Emails
         /\ Written(u, change).active \in {Yes, No}
         /\ Written(u, change).password \in Passwords \cup {Null}
<1>1. u \in Ids
    BY DEF Targets, Change
<1>2. change.new.email \in Emails \cup {Null, Unset} /\ change.new.password \in Passwords \cup {Unset}
      /\ change.new.active \in {Yes, No, Null, Unset}
    BY DEF Change
<1> QED BY <1>1, <1>2 DEF TypeOK, Written, Admitted

(***************************************************************************)
(* A change that waits for its commit is of a user in the table, who was   *)
(* active when it was loaded, or has all the columns of a new one.         *)
(***************************************************************************)
Sound(change) ==
    \/ change.id \in Registered /\ change.loaded.active = Yes
    \/ change.id = Null /\ change.new.password \in Passwords

InProgress(s) == session[s].pc = "change"

IInv == TypeOK /\ \A s \in Sessions : InProgress(s) => Sound(session[s].change)

LEMMA CheckedKeeps ==
  ASSUME IInv, NEW s \in Sessions, NEW change \in Change, Sound(change),
         NEW mustCheck \in BOOLEAN, Checked(s, change, mustCheck)
  PROVE  IInv'
<1>1. TypeOK'
    BY CheckedTyped DEF IInv
<1>2. ASSUME NEW t \in Sessions, session'[t].pc = "change"
      PROVE  session'[t] = session[t] \/ session'[t].change = change
    BY <1>2 DEF IInv, TypeOK, Checked, Go, Answer
<1>3. email' = email
    BY DEF Checked
<1> QED BY <1>1, <1>2, <1>3 DEF IInv, InProgress, Sound, Registered

LEMMA CommitKeeps ==
  ASSUME IInv, NEW s \in Sessions, commit(s)
  PROVE  IInv'
<1>1. PICK u \in Targets(session[s].change) :
          LET change == session[s].change
              user   == Written(u, change)
          IN  IF Admitted(user, u)
              THEN /\ email' = [email EXCEPT ![u] = user.email]
                   /\ password' = [password EXCEPT ![u] = user.password]
                   /\ active' = [active EXCEPT ![u] = user.active]
                   /\ Answer(s, "ok", change)
              ELSE /\ Answer(s, "unavailable", change)
                   /\ UNCHANGED <<email, password, active>>
    BY DEF commit
<1> DEFINE change == session[s].change
           user   == Written(u, change)
<1>2. session[s].pc = "change" /\ session[s] \in Session
    BY DEF commit, IInv, TypeOK
<1>3. change \in Change /\ Sound(change)
    BY <1>2 DEF IInv, InProgress, Session
<1>4. session' \in [Sessions -> Session]
    BY <1>1, <1>3, AnswerTyped DEF IInv, TypeOK
<1>5. \A t \in Sessions : InProgress(t)' => InProgress(t) /\ session'[t] = session[t]
    BY <1>1 DEF InProgress, Answer, Go, IInv, TypeOK
<1>6. CASE UNCHANGED <<email, password, active>>
    BY <1>4, <1>5, <1>6 DEF IInv, TypeOK, InProgress, Sound, Registered
<1>7. CASE /\ Admitted(user, u)
           /\ email' = [email EXCEPT ![u] = user.email]
           /\ password' = [password EXCEPT ![u] = user.password]
           /\ active' = [active EXCEPT ![u] = user.active]
  <2>1. /\ u \in Ids /\ user.email \in Emails /\ user.active \in {Yes, No}
        /\ user.password \in Passwords \cup {Null}
      BY <1>3, <1>7, WrittenTyped DEF IInv
  <2>2. user.password # Null
      BY <1>3, ValueAssumption DEF Written, Sound, Targets, Change, Registered, IInv, TypeOK
  <2>3. email' \in [Ids -> Emails \cup {Null}] /\ password' \in [Ids -> Passwords \cup {Null}]
        /\ active' \in [Ids -> {Yes, No, Null}]
      BY <1>7, <2>1 DEF IInv, TypeOK
  <2>4. \A v \in Ids : /\ password'[v] = Null <=> email'[v] = Null
                       /\ active'[v] = Null <=> email'[v] = Null
      BY <1>7, <2>1, <2>2, EmailsAreSpellings DEF IInv, TypeOK, Yes, No, Null
  <2>5. Registered \subseteq Registered'
      BY <1>7, <2>1, EmailsAreSpellings DEF Registered, IInv, TypeOK
  <2>6. TypeOK'
      BY <1>4, <2>3, <2>4 DEF TypeOK
  <2>7. ASSUME NEW t \in Sessions, InProgress(t)'
        PROVE  Sound(session[t].change)'
    <3>1. session'[t] = session[t] /\ Sound(session[t].change)
        BY <1>5, <2>7 DEF IInv
    <3> QED BY <2>5, <3>1 DEF Sound
  <2> QED BY <2>6, <2>7 DEF IInv
<1> QED BY <1>1, <1>6, <1>7

(***************************************************************************)
(* Rows and requests keep their shape, for any number of users, requests,  *)
(* emails and passwords: no column of a user in the table is ever missing. *)
(***************************************************************************)
THEOREM Invariant == Spec => []IInv
<1>1. Init => IInv
    BY DEF Init, IInv, TypeOK, InProgress, Session, Idle
<1>2. IInv /\ [Next]_vars => IInv'
  <2> SUFFICES ASSUME IInv, [Next]_vars PROVE IInv'
      OBVIOUS
  <2>1. ASSUME NEW s \in Sessions, NEW e \in Spellings, NEW p \in Passwords, create(s, e, p)
        PROVE  IInv'
    <3> DEFINE change == [NoChange EXCEPT !.new = [email |-> Normal[e], password |-> p,
                                                   active |-> Yes]]
    <3>1. change \in Change /\ Sound(change)
        BY ValueAssumption DEF Change, NoChange, Emails, Sound
    <3> QED BY <2>1, <3>1, CheckedKeeps DEF create
  <2>2. ASSUME NEW s \in Sessions, NEW e \in Spellings, NEW p \in Passwords, authenticate(s, e, p)
        PROVE  IInv'
    <3>1. session' \in [Sessions -> Session]
        BY <2>2, NoChangeTyped, AnswerTyped DEF authenticate, IInv, TypeOK
    <3>2. \A t \in Sessions : InProgress(t)' => InProgress(t) /\ session'[t] = session[t]
        BY <2>2 DEF authenticate, InProgress, Answer, Go, IInv, TypeOK
    <3> QED BY <2>2, <3>1, <3>2 DEF authenticate, IInv, TypeOK, InProgress, Sound, Registered
  <2>3. ASSUME NEW s \in Sessions, NEW u \in Ids, NEW new \in Patches, update(s, u, new)
        PROVE  IInv'
    <3> DEFINE change == [id |-> u, loaded |-> Loaded(u), new |-> new]
    <3>1. change \in Change /\ Sound(change)
        BY <2>3, LoadedTyped, ValueAssumption DEF update, Change, Sound, Admissible, Loaded, IInv
    <3> QED BY <2>3, <3>1, CheckedKeeps DEF update
  <2>4. ASSUME NEW s \in Sessions, NEW u \in Ids, NEW old \in Passwords, NEW p \in Passwords,
               change_password(s, u, old, p)
        PROVE  IInv'
    <3> DEFINE change == [id |-> u, loaded |-> Loaded(u),
                          new |-> [email |-> Unset, password |-> p, active |-> Unset]]
    <3>1. change \in Change /\ Sound(change)
        BY <2>4, LoadedTyped DEF change_password, Change, Sound, Admissible, Loaded, IInv
    <3> QED BY <2>4, <3>1, CheckedKeeps DEF change_password
  <2>5. CASE UNCHANGED vars
      BY <2>5 DEF IInv, TypeOK, InProgress, Sound, Registered, vars
  <2> QED BY <2>1, <2>2, <2>3, <2>4, <2>5, CommitKeeps DEF Next
<1> QED BY <1>1, <1>2, PTL DEF Spec

THEOREM TypeCorrect == Spec => []TypeOK
  BY Invariant, PTL DEF IInv

(***************************************************************************)
(* A user who has been deactivated stays so, for any number of requests.   *)
(***************************************************************************)
THEOREM DeactivatedForGood == Spec => DeactivationHolds
<1>1. IInv /\ [Next]_vars => [\A u \in Ids : active[u] = No => active'[u] = No]_vars
  <2> SUFFICES ASSUME IInv, [Next]_vars, NEW u \in Ids, active[u] = No PROVE active'[u] = No
      OBVIOUS
  <2>1. CASE active' = active
      BY <2>1
  <2>2. ASSUME NEW s \in Sessions, commit(s), active' # active
        PROVE  active'[u] = No
    <3> DEFINE change == session[s].change
    <3>1. PICK v \in Targets(change) :
              /\ Admitted(Written(v, change), v)
              /\ active' = [active EXCEPT ![v] = Written(v, change).active]
        BY <2>2 DEF commit
    <3>2. change \in Change /\ Sound(change)
        BY <2>2 DEF commit, IInv, TypeOK, InProgress, Session
    <3>3. CASE v # u
        BY <3>1, <3>3
    <3>4. CASE v = u
      <4>1. change.id = u /\ change.loaded.active = Yes
          BY <3>1, <3>2, <3>4, ValueAssumption DEF Sound, Targets, Registered, IInv, TypeOK, No, Null
      <4>2. Written(v, change).active \in {active[u], change.new.active}
            /\ Written(v, change).active # Null
            /\ (change.new.active = Yes => Written(v, change).active = active[u])
          BY <3>1, <3>4, <4>1 DEF Written, Admitted
      <4>3. change.new.active \in {Yes, No, Null, Unset}
          BY <3>2 DEF Change
      <4>4. change.new.active = Unset => Written(v, change).active = active[u]
          BY <3>4 DEF Written
      <4>5. Written(v, change).active = No
          BY <4>2, <4>3, <4>4
      <4> QED BY <3>1, <3>4, <4>5 DEF IInv, TypeOK
    <3> QED BY <3>3, <3>4
  <2> QED BY <2>1, <2>2 DEF Next, vars, create, update, change_password, authenticate, Checked
<1> QED BY <1>1, Invariant, PTL DEF DeactivationHolds, Spec

(***************************************************************************)
(* No request undoes what another has written to a column it was not asked *)
(* to change, for any number of requests.                                  *)
(***************************************************************************)
THEOREM NothingUnasked == Spec => OnlyAskedColumnsChange
<1>1. IInv /\ [Next]_vars =>
        [\A s \in Sessions, u \in Ids :
            session[s].pc = "change" /\ session'[s].pc = "answered" /\ session[s].change.id = u =>
                /\ session[s].change.new.email = Unset => email'[u] = email[u]
                /\ session[s].change.new.password = Unset => password'[u] = password[u]
                /\ session[s].change.new.active = Unset => active'[u] = active[u]]_vars
  <2> SUFFICES ASSUME IInv, [Next]_vars, NEW s \in Sessions, NEW u \in Ids,
                      session[s].pc = "change", session'[s].pc = "answered",
                      session[s].change.id = u
               PROVE  /\ session[s].change.new.email = Unset => email'[u] = email[u]
                      /\ session[s].change.new.password = Unset => password'[u] = password[u]
                      /\ session[s].change.new.active = Unset => active'[u] = active[u]
      OBVIOUS
  <2>1. CASE commit(s)
    <3>1. Targets(session[s].change) = {u}
        BY ValueAssumption DEF Targets
    <3> QED BY <2>1, <3>1 DEF commit, Written, IInv, TypeOK
  <2>2. ASSUME NEW t \in Sessions, t # s, commit(t)
        PROVE  session'[s] = session[s]
      BY <2>2 DEF commit, Answer, Go, IInv, TypeOK
  <2>3. ASSUME NEW t \in Sessions, commit(t)
        PROVE  t = s
      BY <2>2, <2>3
  <2> QED BY <2>1, <2>3 DEF Next, vars, create, update, change_password, authenticate, Checked
<1> QED BY <1>1, Invariant, PTL DEF OnlyAskedColumnsChange, Spec

=============================================================================
