------------------------------ MODULE Projects ------------------------------
(***************************************************************************)
(* The title of one project: ProjectService (app/services/project.py) and  *)
(* the one write the pipeline makes to a project, the name a brief         *)
(* proposes.                                                               *)
(*                                                                         *)
(* A request reads, decides and commits in steps of its own.  Only the     *)
(* pipeline locks the project row; a commit that changes the row waits for *)
(* that lock.  The rows are reduced to whether the brief is running.       *)
(* Ownership is left out: the user is the owner.                           *)
(***************************************************************************)
CONSTANTS
    Titles,
    Languages,
    Default,     \* _DEFAULT_TITLES[l]: the title a project gets when its creator gave none
    Sessions

NoTitle   == "no_title"
NoSession == "no_session"

ASSUME TitleAssumption ==
    /\ Default \in [Languages -> Titles]
    /\ NoTitle \notin Titles
    /\ NoSession \notin Sessions

VARIABLES
    table,    \* whether the project is in the table
    title,    \* project.title
    awaited,  \* whether the row of the brief is RUNNING, so that a result counts
    lock,     \* the session that holds the lock of the project row
    session,  \* what each request is doing
    chosen    \* history: the title was last written because a user asked for it

vars == <<table, title, awaited, lock, session, chosen>>

Session ==
    [pc : {"idle"}]
    \cup [pc : {"rename"}, loaded : Titles, new : Titles]
    \cup [pc : {"result"}, loaded : Titles, new : Titles \cup {NoTitle}]
    \cup [pc : {"delete", "unavailable", "unknown"}]

Idle == [pc |-> "idle"]

\* Every variable keeps its shape, and the lock is held by results only.
TypeOK ==
    /\ table \in {"absent", "present", "deleted"}
    /\ title \in Titles \cup {NoTitle}
    /\ table = "present" => title # NoTitle
    /\ awaited \in BOOLEAN
    /\ session \in [Sessions -> Session]
    /\ \A s \in Sessions : lock = s <=> session[s].pc = "result"
    /\ chosen \in BOOLEAN

Init ==
    /\ table = "absent"
    /\ title = NoTitle
    /\ awaited = FALSE
    /\ lock = NoSession
    /\ session = [s \in Sessions |-> Idle]
    /\ chosen = FALSE

\* A default title of any language counts.
is_default_title(t) == \E l \in Languages : t = Default[l]

\* Request s goes on to the step `next`; answered ones make room for a new one.
Free(s)     == session[s].pc \in {"idle", "unavailable", "unknown"}
Go(s, next) == session' = [session EXCEPT ![s] = next]

-----------------------------------------------------------------------------

\* POST /generation: the default title when none is given; the brief starts with it.
generate_project(given, language) ==
    /\ table = "absent"
    /\ table' = "present"
    /\ title' = IF given # NoTitle THEN given ELSE Default[language]
    /\ chosen' = (given # NoTitle)
    /\ awaited' = TRUE
    /\ UNCHANGED <<lock, session>>

\* get_by_id, the first step of every request on the project.
get_by_id(s, next) ==
    /\ Free(s)
    /\ table # "absent"
    /\ Go(s, IF table = "present" THEN next ELSE [pc |-> "unknown"])
    /\ UNCHANGED <<table, title, awaited, lock, chosen>>

\* PATCH: update sets the title of the object it has loaded.
update(s, new) == get_by_id(s, [pc |-> "rename", loaded |-> title, new |-> new])

\* The session writes the title if it differs from the loaded one; a row that is gone
\* by then cannot be written or refreshed (503).
commit_update(s) ==
    /\ session[s].pc = "rename"
    /\ IF table = "deleted"
       THEN Go(s, [pc |-> "unavailable"]) /\ UNCHANGED <<title, chosen>>
       ELSE /\ Go(s, Idle)
            /\ IF session[s].new = session[s].loaded
               THEN UNCHANGED <<title, chosen>>
               ELSE /\ lock = NoSession
                    /\ title' = session[s].new
                    /\ chosen' = TRUE
    /\ UNCHANGED <<table, awaited, lock>>

delete(s) == get_by_id(s, [pc |-> "delete"])

\* The rows go with the project; deleting what is gone already is no error.
commit_delete(s) ==
    /\ session[s].pc = "delete"
    /\ lock = NoSession
    /\ table' = "deleted"
    /\ Go(s, Idle)
    /\ UNCHANGED <<title, awaited, lock, chosen>>

-----------------------------------------------------------------------------

\* Mutant of LockForResult: the project is read without the lock.
ReadForResult(s) == table = "present" /\ UNCHANGED lock

LockForResult(s) == table = "present" /\ lock = NoSession /\ lock' = s

\* The hook, with the brief that is awaited, which proposes a name or none: lock the
\* project, read it fresh.
apply_result(s, proposed) ==
    /\ Free(s)
    /\ awaited
    /\ LockForResult(s)
    /\ Go(s, [pc |-> "result", loaded |-> title, new |-> proposed])
    /\ UNCHANGED <<table, title, awaited, chosen>>

\* Mutant of NamesProject: a brief without a name names the project as well.
NamesUnasked(loaded, proposed) == is_default_title(loaded)

\* _name_project_from_brief replaces the title.
NamesProject(loaded, proposed) == is_default_title(loaded) /\ proposed # NoTitle

commit_result(s) ==
    /\ session[s].pc = "result"
    /\ IF NamesProject(session[s].loaded, session[s].new)
       THEN /\ title' = session[s].new
            /\ chosen' = (chosen /\ session[s].new = session[s].loaded)
       ELSE UNCHANGED <<title, chosen>>
    /\ awaited' = FALSE
    /\ lock' = NoSession
    /\ Go(s, Idle)
    /\ UNCHANGED table

\* Any other operation of the pipeline starts, fails or resets the brief.  It holds the
\* lock, or, when it compensates a refused message, waits for the result that has locked
\* the row.
move_brief(runs) ==
    /\ table = "present"
    /\ lock = NoSession
    /\ awaited' = runs
    /\ UNCHANGED <<table, title, lock, session, chosen>>

Next ==
    \/ \E given \in Titles \cup {NoTitle}, l \in Languages : generate_project(given, l)
    \/ \E s \in Sessions :
          \/ \E new \in Titles : update(s, new)
          \/ commit_update(s)
          \/ delete(s)
          \/ commit_delete(s)
          \/ \E proposed \in Titles \cup {NoTitle} : apply_result(s, proposed)
          \/ commit_result(s)
    \/ \E runs \in BOOLEAN : move_brief(runs)

Spec == Init /\ [][Next]_vars

-----------------------------------------------------------------------------
(***************************************************************************)
(* A title a user has chosen, unless it is a default title, is replaced by *)
(* the choice of a user only: no brief undoes a rename, whether it began   *)
(* before the rename, comes after it or is generated again.  A user who    *)
(* chooses a default title is not told from one who chose none.            *)
(***************************************************************************)
ChosenTitleKept ==
    [][chosen /\ ~is_default_title(title) /\ title' # title => chosen']_vars

=============================================================================
