--------------------------- MODULE ProjectsProofs ---------------------------
(***************************************************************************)
(* That a brief does not undo the choice of a user, for any titles,        *)
(* languages and number of concurrent requests.                            *)
(***************************************************************************)
EXTENDS Projects, TLAPS

\* A result in progress holds the lock, and the title is still the one it has read.
Locked ==
    \A s \in Sessions : session[s].pc = "result" => lock = s /\ session[s].loaded = title

IInv ==
    /\ Locked
    /\ session = [s \in Sessions |-> session[s]]
    /\ table = "absent" => ~chosen /\ \A s \in Sessions : session[s] = Idle

\* A request other than a result goes on, without touching the title or the lock.
LEMMA GoKeeps ==
    ASSUME IInv, NEW s \in Sessions, NEW next, next.pc # "result", Go(s, next),
           UNCHANGED <<title, lock>>
    PROVE  Locked' /\ session' = [t \in Sessions |-> session'[t]]
BY DEF IInv, Locked, Go

\* While no session holds the lock, no result is in progress.
LEMMA Unlocked ==
    ASSUME IInv, lock = NoSession
    PROVE  \A s \in Sessions : session[s].pc # "result"
BY TitleAssumption DEF IInv, Locked

\* The first step of a request.
LEMMA GetKeeps ==
    ASSUME IInv, NEW s \in Sessions, NEW next, next.pc # "result", get_by_id(s, next)
    PROVE  IInv'
<1>1. CASE table = "present"
    BY <1>1, GoKeeps DEF get_by_id, IInv
<1>2. CASE table # "present"
    BY <1>2, GoKeeps DEF get_by_id, IInv
<1> QED BY <1>1, <1>2

\* Every request but the result of a brief.
LEMMA RequestKeeps ==
    ASSUME IInv, NEW s \in Sessions,
           \/ \E new \in Titles : update(s, new)
           \/ commit_update(s)
           \/ delete(s) \/ commit_delete(s)
    PROVE  IInv'
<1>1. ASSUME NEW new \in Titles, update(s, new) PROVE IInv'
    BY <1>1, GetKeeps DEF update
<1>2. CASE delete(s)
    BY <1>2, GetKeeps DEF delete
<1>3. CASE commit_delete(s)
  <2>1. table' # "absent" /\ UNCHANGED <<title, lock>>
      BY <1>3 DEF commit_delete
  <2> QED BY <1>3, <2>1, GoKeeps DEF commit_delete, Idle, IInv
<1>4. CASE commit_update(s)
  <2>1. table' # "absent" /\ lock' = lock
      BY <1>4 DEF commit_update, IInv, Idle
  <2>2. CASE title' = title
      BY <1>4, <2>1, <2>2, GoKeeps DEF commit_update, Idle, IInv
  <2>3. CASE title' # title
    <3>1. lock = NoSession /\ Go(s, Idle)
        BY <1>4, <2>3 DEF commit_update
    <3> QED BY <2>1, <3>1, Unlocked DEF IInv, Locked, Go, Idle
  <2> QED BY <2>2, <2>3
<1> QED BY <1>1, <1>2, <1>3, <1>4

(***************************************************************************)
(* The invariant: while a result is in progress, nobody else writes the    *)
(* title.                                                                  *)
(***************************************************************************)
THEOREM TitleInvariant == Spec => []IInv
<1>1. Init => IInv
    BY DEF Init, IInv, Locked, Idle
<1>2. IInv /\ [Next]_vars => IInv'
  <2> SUFFICES ASSUME IInv, [Next]_vars PROVE IInv'
      OBVIOUS
  <2>1. CASE UNCHANGED vars
      BY <2>1 DEF vars, IInv, Locked
  <2>2. ASSUME NEW given \in Titles \cup {NoTitle}, NEW l \in Languages,
               generate_project(given, l)
        PROVE  IInv'
      BY <2>2 DEF generate_project, IInv, Locked, Idle
  <2>3. ASSUME NEW s \in Sessions,
               \/ \E new \in Titles : update(s, new)
               \/ commit_update(s)
               \/ delete(s) \/ commit_delete(s)
        PROVE  IInv'
      BY <2>3, RequestKeeps
  <2>4. ASSUME NEW s \in Sessions, NEW proposed \in Titles \cup {NoTitle}, apply_result(s, proposed)
        PROVE  IInv'
    <3>1. /\ lock = NoSession /\ lock' = s /\ UNCHANGED <<table, title>> /\ table = "present"
          /\ Go(s, [pc |-> "result", loaded |-> title, new |-> proposed])
        BY <2>4 DEF apply_result, LockForResult
    <3> QED BY <3>1, Unlocked DEF IInv, Locked, Go
  <2>5. ASSUME NEW s \in Sessions, commit_result(s)
        PROVE  IInv'
    <3>1. /\ session[s].pc = "result" /\ Go(s, Idle) /\ UNCHANGED table
        BY <2>5 DEF commit_result
    <3>2. \A t \in Sessions \ {s} : session[t].pc # "result"
        BY <3>1 DEF IInv, Locked
    <3>3. table # "absent"
        BY <3>1 DEF IInv, Idle
    <3> QED BY <3>1, <3>2, <3>3 DEF IInv, Locked, Go, Idle
  <2>6. ASSUME NEW runs \in BOOLEAN, move_brief(runs)
        PROVE  IInv'
      BY <2>6 DEF move_brief, IInv, Locked
  <2> QED BY <2>1, <2>2, <2>3, <2>4, <2>5, <2>6 DEF Next
<1> QED BY <1>1, <1>2, PTL DEF Spec

(***************************************************************************)
(* A title a user has chosen, unless it is a default title, changes by the *)
(* choice of a user only.                                                  *)
(***************************************************************************)
THEOREM AlwaysKept == Spec => ChosenTitleKept
<1> DEFINE Step == chosen /\ ~is_default_title(title) /\ title' # title => chosen'
<1>1. IInv /\ [Next]_vars => [Step]_vars
  <2> SUFFICES ASSUME IInv, Next, chosen, ~is_default_title(title), title' # title PROVE chosen'
      OBVIOUS
  <2>1. ASSUME NEW s \in Sessions, commit_update(s) PROVE chosen'
      BY <2>1 DEF commit_update
  <2>2. ASSUME NEW s \in Sessions, commit_result(s) PROVE FALSE
      BY <2>2 DEF commit_result, NamesProject, IInv, Locked
  <2>3. ASSUME NEW given, NEW l, generate_project(given, l) PROVE FALSE
      BY <2>3 DEF generate_project, IInv
  <2> QED
      BY <2>1, <2>2, <2>3 DEF Next, update, delete, get_by_id, commit_delete,
             apply_result, move_brief
<1> HIDE DEF Step
<1>2. Spec => [][Step]_vars
    BY <1>1, TitleInvariant, PTL DEF Spec
<1> QED BY <1>2, PTL DEF ChosenTitleKept, Step

-----------------------------------------------------------------------------
\* A request goes on to a step that holds no lock.
LEMMA GoTyped ==
    ASSUME TypeOK, NEW s \in Sessions, session[s].pc # "result",
           NEW next \in Session, next.pc # "result", Go(s, next),
           UNCHANGED lock
    PROVE  /\ session' \in [Sessions -> Session]
           /\ \A t \in Sessions : lock' = t <=> session'[t].pc = "result"
BY DEF TypeOK, Go

\* The first step of a request, as it goes on if the project is there.
LEMMA GetTyped ==
    ASSUME TypeOK, NEW s \in Sessions, NEW next, next.pc # "result",
           table = "present" => next \in Session, get_by_id(s, next)
    PROVE  TypeOK'
<1> DEFINE step == IF table = "present" THEN next ELSE [pc |-> "unknown"]
<1>1. step \in Session /\ step.pc # "result"
    BY DEF Session
<1>2. session[s].pc # "result" /\ Go(s, step) /\ UNCHANGED <<table, title, awaited, lock, chosen>>
    BY DEF get_by_id, Free
<1> HIDE DEF step
<1>3. /\ session' \in [Sessions -> Session]
      /\ \A t \in Sessions : lock' = t <=> session'[t].pc = "result"
    BY <1>1, <1>2, GoTyped
<1> QED BY <1>2, <1>3 DEF TypeOK

(***************************************************************************)
(* Every variable keeps its shape: a project in the table always has a     *)
(* title, and the lock belongs to the result that is being applied.        *)
(***************************************************************************)
THEOREM TypeCorrect == Spec => []TypeOK
<1>1. Init => TypeOK
  <2> SUFFICES ASSUME Init PROVE TypeOK
      OBVIOUS
  <2>1. Idle \in Session /\ Idle.pc # "result"
      BY DEF Idle, Session
  <2>2. \A s \in Sessions : lock = s <=> session[s].pc = "result"
      BY <2>1, TitleAssumption DEF Init
  <2> QED BY <2>1, <2>2 DEF Init, TypeOK
<1>2. TypeOK /\ [Next]_vars => TypeOK'
  <2> SUFFICES ASSUME TypeOK, [Next]_vars PROVE TypeOK'
      OBVIOUS
  <2>1. CASE UNCHANGED vars
      BY <2>1 DEF vars, TypeOK
  <2>2. ASSUME NEW given \in Titles \cup {NoTitle}, NEW l \in Languages,
               generate_project(given, l)
        PROVE  TypeOK'
    <3>1. title' \in Titles
        BY <2>2, TitleAssumption DEF generate_project
    <3> QED BY <2>2, <3>1, TitleAssumption DEF generate_project, TypeOK
  <2>3. ASSUME NEW s \in Sessions, NEW new \in Titles, update(s, new)
        PROVE  TypeOK'
    <3> DEFINE next == [pc |-> "rename", loaded |-> title, new |-> new]
    <3>1. next.pc # "result" /\ (table = "present" => next \in Session)
        BY DEF TypeOK, Session
    <3> QED BY <2>3, <3>1, GetTyped DEF update
  <2>4. ASSUME NEW s \in Sessions, delete(s)
        PROVE  TypeOK'
    <3> DEFINE next == [pc |-> "delete"]
    <3>1. next.pc # "result" /\ next \in Session
        BY DEF Session
    <3> QED BY <2>4, <3>1, GetTyped DEF delete
  <2>5. ASSUME NEW s \in Sessions, commit_update(s)
        PROVE  TypeOK'
    <3>1. /\ session[s].pc = "rename" /\ UNCHANGED <<table, awaited, lock>>
          /\ Go(s, Idle) \/ Go(s, [pc |-> "unavailable"])
          /\ title' = title \/ title' = session[s].new
          /\ chosen' = chosen \/ chosen' = TRUE
        BY <2>5, Zenon DEF commit_update
    <3>2. Idle \in Session /\ [pc |-> "unavailable"] \in Session
          /\ Idle.pc # "result" /\ [pc |-> "unavailable"].pc # "result"
        BY DEF Session, Idle
    <3>3. session[s].new \in Titles
        BY <3>1 DEF TypeOK, Session
    <3>4. /\ session' \in [Sessions -> Session]
          /\ \A t \in Sessions : lock' = t <=> session'[t].pc = "result"
        BY <3>1, <3>2, GoTyped
    <3> QED BY <3>1, <3>3, <3>4, TitleAssumption DEF TypeOK
  <2>6. ASSUME NEW s \in Sessions, commit_delete(s)
        PROVE  TypeOK'
    <3>1. Idle \in Session /\ Idle.pc # "result" /\ session[s].pc # "result" /\ Go(s, Idle)
        BY <2>6 DEF Session, Idle, commit_delete
    <3>2. /\ session' \in [Sessions -> Session]
          /\ \A t \in Sessions : lock' = t <=> session'[t].pc = "result"
        BY <2>6, <3>1, GoTyped DEF commit_delete
    <3> QED BY <2>6, <3>2 DEF TypeOK, commit_delete
  <2>7. ASSUME NEW s \in Sessions, NEW proposed \in Titles \cup {NoTitle}, apply_result(s, proposed)
        PROVE  TypeOK'
    <3> DEFINE next == [pc |-> "result", loaded |-> title, new |-> proposed]
    <3>1. /\ table = "present" /\ lock = NoSession /\ lock' = s /\ Go(s, next)
          /\ UNCHANGED <<table, title, awaited, chosen>>
        BY <2>7 DEF apply_result, LockForResult
    <3>2. next \in Session /\ next.pc = "result"
        BY <3>1 DEF TypeOK, Session
    <3> HIDE DEF next
    <3>3. session' \in [Sessions -> Session]
        BY <3>1, <3>2 DEF TypeOK, Go
    <3>4. \A t \in Sessions : lock' = t <=> session'[t].pc = "result"
        BY <3>1, <3>2, TitleAssumption DEF TypeOK, Go
    <3> QED BY <3>1, <3>3, <3>4 DEF TypeOK
  <2>8. ASSUME NEW s \in Sessions, commit_result(s)
        PROVE  TypeOK'
    <3>1. /\ session[s].pc = "result" /\ awaited' = FALSE /\ lock' = NoSession
          /\ Go(s, Idle) /\ table' = table
        BY <2>8 DEF commit_result
    <3>2. session[s].new \in Titles \cup {NoTitle}
        BY <3>1 DEF TypeOK, Session
    <3>3. UNCHANGED <<title, chosen>> \/ (title' \in Titles /\ chosen' \in BOOLEAN)
        BY <2>8, <3>2 DEF commit_result, NamesProject, TypeOK
    <3>4. session' \in [Sessions -> Session]
        BY <3>1 DEF TypeOK, Go, Session, Idle
    <3>5. \A t \in Sessions : session'[t].pc # "result"
        BY <3>1 DEF TypeOK, Go, Idle
    <3> QED BY <3>1, <3>3, <3>4, <3>5, TitleAssumption DEF TypeOK
  <2>9. ASSUME NEW runs \in BOOLEAN, move_brief(runs)
        PROVE  TypeOK'
      BY <2>9 DEF move_brief, TypeOK
  <2> QED BY <2>1, <2>2, <2>3, <2>4, <2>5, <2>6, <2>7, <2>8, <2>9 DEF Next
<1> QED BY <1>1, <1>2, PTL DEF Spec

=============================================================================
