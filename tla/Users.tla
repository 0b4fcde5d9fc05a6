------------------------------- MODULE Users -------------------------------
(***************************************************************************)
(* Registration, login and profile changes: UserService                    *)
(* (app/services/user.py) and AuthService.authenticate                     *)
(* (app/services/auth.py) under concurrent requests, with the constraints  *)
(* of the users table (app/models/user.py) and the answers the exception   *)
(* handlers give (app/core/error_handlers.py).                             *)
(*                                                                         *)
(* A request loads the user, checks the new email and commits in steps of  *)
(* its own, without locks.  A session writes the columns it has changed.   *)
(* A password stands for itself and for its hash, an email for what        *)
(* NormalizedEmail makes of the spellings a client may type.  Tokens are   *)
(* stateless and left out: whoever is registered may have one that is      *)
(* valid.  So are the columns full_name and is_service, which nothing      *)
(* depends on.  The database never fails here.                             *)
(***************************************************************************)
CONSTANTS
    Ids, Passwords, Sessions,
    Spellings,  \* what a client may type as an email
    Normal,     \* Normal[e]: the spelling stripped and in lower case, as it is stored
    Patches     \* the fields a client may send to change a profile

Emails == {Normal[e] : e \in Spellings}

Null  == "null"   \* None, and a column of a user that is not in the table
Unset == "unset"  \* a field the request does not carry
Yes   == "true"
No    == "false"

ASSUME ValueAssumption ==
    /\ {Null, Unset} \cap (Spellings \cup Passwords) = {}
    /\ Null \notin Ids
    /\ Normal \in [Spellings -> Spellings]
    /\ \A e \in Emails : Normal[e] = e
    /\ Patches \subseteq [email : Emails \cup {Null, Unset}, password : Passwords \cup {Unset},
                          active : {Yes, No, Null, Unset}]

VARIABLES
    email,    \* users.email, Null for an id that is not in the table
    password, \* users.password_hash
    active,   \* users.is_active
    session   \* what each request is doing

vars == <<email, password, active, session>>

\* loaded: the user as the session first read it; new: the values to write.
Change == [id : Ids \cup {Null},
           loaded : [email : Emails \cup {Null}, password : Passwords \cup {Null}, active : {Yes, Null}],
           new : [email : Emails \cup {Null, Unset}, password : Passwords \cup {Unset},
                  active : {Yes, No, Null, Unset}]]

NoChange == [id |-> Null, loaded |-> [email |-> Null, password |-> Null, active |-> Null],
             new |-> [email |-> Unset, password |-> Unset, active |-> Unset]]

Session ==
    [pc : {"idle"}]
    \cup [pc : {"change"}, change : Change]
    \cup [pc : {"answered"}, code : {"ok", "conflict", "unavailable", "unauthorized"}, change : Change]

Idle == [pc |-> "idle"]

Registered == {u \in Ids : email[u] # Null}

\* Rows and requests keep their shape; a user in the table has an email and a password
\* and is active or not.
TypeOK ==
    /\ email \in [Ids -> Emails \cup {Null}]
    /\ password \in [Ids -> Passwords \cup {Null}]
    /\ active \in [Ids -> {Yes, No, Null}]
    /\ \A u \in Ids : /\ password[u] = Null <=> email[u] = Null
                      /\ active[u] = Null <=> email[u] = Null
    /\ session \in [Sessions -> Session]

Init ==
    /\ email = [u \in Ids |-> Null]
    /\ password = [u \in Ids |-> Null]
    /\ active = [u \in Ids |-> Null]
    /\ session = [s \in Sessions |-> Idle]

Go(s, next) == session' = [session EXCEPT ![s] = next]

Answer(s, code, change) == Go(s, [pc |-> "answered", code |-> code, change |-> change])

-----------------------------------------------------------------------------

\* _ensure_email_is_unique: nobody but the user itself has the email.
EmailIsFree(e, u) == \A v \in Registered \ {u} : email[v] # e

\* The check of request s: it goes on to its commit, or is answered with 409.
Checked(s, change, mustCheck) ==
    /\ IF mustCheck => EmailIsFree(change.new.email, change.id)
       THEN Go(s, [pc |-> "change", change |-> change])
       ELSE Answer(s, "conflict", change)
    /\ UNCHANGED <<email, password, active>>

\* POST /users
create(s, e, p) ==
    /\ session[s].pc # "change"
    /\ Checked(s, [NoChange EXCEPT !.new = [email |-> Normal[e], password |-> p, active |-> Yes]], TRUE)

\* The user that get_current_user, earlier in the same session, has loaded: whoever is
\* not active is answered with 401.
Loaded(u) == [email |-> email[u], password |-> password[u], active |-> active[u]]

Admissible(u) == u \in Registered /\ active[u] = Yes

\* PATCH /users/me.  The email and the flag may be null; a password that is null
\* counts as Unset.
update(s, u, new) ==
    /\ session[s].pc # "change"
    /\ Admissible(u)
    /\ Checked(s, [id |-> u, loaded |-> Loaded(u), new |-> new],
               new.email \notin {Unset, email[u]})

\* POST /users/me/change-password; a wrong current password changes nothing.
change_password(s, u, current, p) ==
    /\ session[s].pc # "change"
    /\ Admissible(u)
    /\ current = password[u]
    /\ Checked(s, [id |-> u, loaded |-> Loaded(u),
                   new |-> [email |-> Unset, password |-> p, active |-> Unset]], FALSE)

\* POST /auth/login: the email is looked up as it was typed.
authenticate(s, e, p) ==
    /\ session[s].pc # "change"
    /\ Answer(s, IF \E u \in Registered : email[u] = e /\ password[u] = p /\ active[u] = Yes
                 THEN "ok" ELSE "unauthorized", NoChange)
    /\ UNCHANGED <<email, password, active>>

-----------------------------------------------------------------------------

\* Mutant of Written: the session writes the whole row, as it has loaded it.
WrittenWhole(u, change) ==
    LET column(c) == IF change.new[c] = Unset THEN change.loaded[c] ELSE change.new[c]
    IN  [email |-> column("email"), password |-> column("password"), active |-> column("active")]

\* What a commit leaves in the row: a session writes the columns whose value differs
\* from the loaded one, and a hash always does.
Written(u, change) ==
    LET column(c, now) == IF change.new[c] \in {Unset, change.loaded[c]} THEN now ELSE change.new[c]
    IN  [email    |-> column("email", email[u]),
         password |-> IF change.new.password = Unset THEN password[u] ELSE change.new.password,
         active   |-> column("active", active[u])]

\* Mutants of Admitted: the constraints on the email are missing.
AdmittedTaken(user, u) == user.email # Null /\ user.active # Null

AdmittedNull(user, u) == EmailIsFree(user.email, u)

\* The constraints of the table: users.email is not null and unique, users.is_active not null.
Admitted(user, u) == user.email # Null /\ EmailIsFree(user.email, u) /\ user.active # Null

\* Where the change is written: the id of the user, or one that is not in use.
Targets(change) == IF change.id # Null THEN {change.id} ELSE Ids \ Registered

commit(s) ==
    /\ session[s].pc = "change"
    /\ \E u \in Targets(session[s].change) :
          LET change == session[s].change
              user   == Written(u, change)
          IN  IF Admitted(user, u)
              THEN /\ email' = [email EXCEPT ![u] = user.email]
                   /\ password' = [password EXCEPT ![u] = user.password]
                   /\ active' = [active EXCEPT ![u] = user.active]
                   /\ Answer(s, "ok", change)
              ELSE /\ Answer(s, "unavailable", change)
                   /\ UNCHANGED <<email, password, active>>

Next ==
    \E s \in Sessions :
        \/ \E e \in Spellings, p \in Passwords : create(s, e, p) \/ authenticate(s, e, p)
        \/ \E u \in Ids, new \in Patches : update(s, u, new)
        \/ \E u \in Ids, current, p \in Passwords : change_password(s, u, current, p)
        \/ commit(s)

Spec == Init /\ [][Next]_vars

-----------------------------------------------------------------------------
(***************************************************************************)
(* No two users have the same email, although two requests may both find   *)
(* it free before either has committed.                                    *)
(***************************************************************************)
EmailsAreUnique ==
    \A u, v \in Registered : email[u] = email[v] => u = v

(***************************************************************************)
(* A request changes nothing it was not asked to change: a profile update  *)
(* that was loaded before a change of the password does not bring the old  *)
(* one back, and neither does the reverse for the email and the flag.      *)
(***************************************************************************)
OnlyAskedColumnsChange ==
    [][\A s \in Sessions, u \in Ids :
          session[s].pc = "change" /\ session'[s].pc = "answered" /\ session[s].change.id = u =>
              /\ session[s].change.new.email = Unset => email'[u] = email[u]
              /\ session[s].change.new.password = Unset => password'[u] = password[u]
              /\ session[s].change.new.active = Unset => active'[u] = active[u]]_vars

(***************************************************************************)
(* A user who has been deactivated stays so: nobody else can change the    *)
(* flag, and a request of the user's that was admitted before does not     *)
(* bring it back, not even one that carries the flag as it was then.       *)
(***************************************************************************)
DeactivationHolds ==
    [][\A u \in Ids : active[u] = No => active'[u] = No]_vars

(***************************************************************************)
(* Login is refused when the email is not found or the password does not   *)
(* match (docstring of authenticate, app/services/auth.py:38), or the user *)
(* is not active: not when both are the ones the user registered with.     *)
(***************************************************************************)
RegisteredMayLogIn ==
    [][\A s \in Sessions, e \in Spellings, p \in Passwords :
          authenticate(s, e, p) /\ session'[s].code = "unauthorized" =>
              ~ \E u \in Registered :
                    email[u] = Normal[e] /\ password[u] = p /\ active[u] = Yes]_vars

=============================================================================
