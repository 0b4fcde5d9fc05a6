--------------------------- MODULE PlannedProject ---------------------------
(***************************************************************************)
(* A project as its planner shapes it: the rows of the full stage graph,   *)
(* finished in any order their refs allow and regenerated at any time,     *)
(* with results whose content (segments, groups) may differ each time.     *)
(* Attempts, messages and failures are Pipeline's; here a ready row counts *)
(* as running, and growth follows a result at once (_grow_and_advance).    *)
(***************************************************************************)
EXTENDS Planner, FiniteSets

CONSTANTS
    Segments,   \* the numbers of segment candidates a brief may have
    MaxGroups,  \* bound: groups of a patterns result
    Requests    \* the lists of optional stages a client asks for

ASSUME PlannedProjectAssumption ==
    /\ Segments \subseteq Nat
    /\ MaxGroups \in Nat \ {0}
    /\ Requests \subseteq Seq(Stage)

VARIABLES
    enabled,  \* project.enabled_optional
    rows      \* the rows of the project, by id

vars == <<enabled, rows>>

Ids == DOMAIN rows

Inputs(x) == UNION {rows[x].refs[stage] : stage \in Stage}

\* Every id in the refs of a row is the id of a row of the stage it is listed under
\* (_Plan.add and validate_row_refs).
TypeOK ==
    /\ enabled \subseteq {BUSINESS_CASE, ENVIRONMENT_SCAN}
    /\ \A x \in Ids : /\ rows[x].stage \in Stage
                      /\ rows[x].index \in Nat
                      /\ \A stage \in Stage : \A y \in rows[x].refs[stage] :
                            y \in Ids /\ rows[y].stage = stage

Init ==
    /\ \E value \in Requests : enabled \in only_generated_optional_stages(value)
    /\ rows = initial_rows(enabled)

-----------------------------------------------------------------------------

\* The optional stages a stage takes input from.
OptionalInputs(stage) ==
    CASE stage = SWOT_ERRC_CYCLE -> {ENVIRONMENT_SCAN}
      [] stage = PITCH           -> {BUSINESS_CASE, TEAM_INFO}
      [] OTHER                   -> {}

\* ready_rows; an optional stage that is enabled keeps the rows that take it waiting,
\* and one that is disabled has no rows.
Ready(x) ==
    /\ ~rows[x].done
    /\ \A y \in Inputs(x) : y \in Ids /\ rows[y].done
    /\ \A stage \in OptionalInputs(rows[x].stage) \cap enabled : rows[x].refs[stage] # {}

\* result_problems: a group may name the map of any row that holds one.
HeldMaps == {x \in of_stage(rows, EMPATHY_MAP) : rows[x].done}

Groupings == UNION {[1..n -> SUBSET HeldMaps \ {{}}] : n \in 1..MaxGroups}

\* The hook: a result of x is applied and its row is DONE.
finish(x, segments, groups) ==
    /\ Ready(x)
    /\ segments \in IF rows[x].stage = BRIEF THEN Segments ELSE {0}
    /\ groups # <<>> <=> rows[x].stage = PATTERNS
    /\ rows' = expand_rows([rows EXCEPT ![x].done = TRUE,
                                        ![x].segments = segments,
                                        ![x].groups = groups], enabled)
    /\ UNCHANGED enabled

\* One step along the refs, up to the rows that draw from some or down to what they draw from.
Up(some)   == some \cup {y \in Ids : Inputs(y) \cap some # {}}
Down(some) == some \cup UNION {Inputs(y) : y \in some}

\* Seven steps lead as far as any number does: the longest path of the stage graph is
\* brief, empathy_map, ideation, patterns, canvas, swot_errc_cycle, storytelling, pitch.
AnyDistance(step(_), some) == step(step(step(step(step(step(step(some)))))))

\* dependent_rows: the rows that draw from x at any distance.
DependsOn(x) == AnyDistance(Up, {x}) \ {x}

\* Mutant of regenerate: only the rows that draw from x directly are reset with it.
RegenerateNear(x) ==
    /\ rows[x].done
    /\ rows' = [y \in Ids |-> IF y = x \/ x \in Inputs(y)
                              THEN [rows[y] EXCEPT !.done = FALSE, !.segments = 0, !.groups = <<>>]
                              ELSE rows[y]]
    /\ UNCHANGED enabled

regenerate(x) ==
    /\ rows[x].done
    /\ rows' = [y \in Ids |-> IF y \in {x} \cup DependsOn(x)
                              THEN [rows[y] EXCEPT !.done = FALSE, !.segments = 0, !.groups = <<>>]
                              ELSE rows[y]]
    /\ UNCHANGED enabled

\* get_snapshot with `row`: the row and whatever its refs lead to.
Closure(x) == AnyDistance(Down, {x})

Next ==
    \/ \E x \in Ids, segments \in Segments \cup {0}, groups \in Groupings \cup {<<>>} :
          finish(x, segments, groups)
    \/ \E x \in Ids : regenerate(x)

Spec == Init /\ [][Next]_vars

-----------------------------------------------------------------------------

(***************************************************************************)
(* expand_rows is idempotent: between results it has nothing to add,       *)
(* whatever has been regenerated with other segments and groups since.     *)
(***************************************************************************)
ExpandedOnce == expand_rows(rows, enabled) = rows

(***************************************************************************)
(* A canvas draws on its maps and on exactly the scenarios and ideations   *)
(* made from them, and on nothing of another segment.                      *)
(***************************************************************************)
CanvasStaysInItsSegments ==
    \A canvas \in of_stage(rows, CANVAS) :
        \A stage \in {CUSTOMER_SCENARIO, IDEATION} :
            rows[canvas].refs[stage] =
                {x \in of_stage(rows, stage) :
                    rows[x].refs[EMPATHY_MAP] \subseteq rows[canvas].refs[EMPATHY_MAP]}

(***************************************************************************)
(* No row waits for something that will never be there: as long as some    *)
(* row is not DONE, some row can run.                                      *)
(***************************************************************************)
NothingStranded == (\E x \in Ids : ~rows[x].done) => \E x \in Ids : Ready(x)

(***************************************************************************)
(* The snapshot a worker reads for a row that runs is whole: every row it  *)
(* shows beside that row, at any distance, is DONE and holds its output,   *)
(* and the rows that are shown are those whose regeneration resets it.     *)
(***************************************************************************)
SnapshotIsWhole ==
    \A x \in Ids : Ready(x) => \A y \in Closure(x) \ {x} : rows[y].done /\ x \in DependsOn(y)

(***************************************************************************)
(* When every row is DONE, and project_status says completed, the project  *)
(* is whole: a map, a scenario and an ideation for every segment of the    *)
(* brief (for the first MAX_SEGMENTS of them), a canvas for every group of *)
(* the patterns, and for every canvas one cycle, story, future scenario    *)
(* and pitch that belong together and draw on the optional rows the user   *)
(* enabled.                                                                *)
(***************************************************************************)
Outputs(canvas) ==
    LET one(stage, dep, id) == Cardinality(with_ref(rows, stage, dep, id)) = 1
        the(stage, dep, id) == First(with_ref(rows, stage, dep, id))
        cycle == the(SWOT_ERRC_CYCLE, CANVAS, canvas)
        story == the(STORYTELLING, SWOT_ERRC_CYCLE, cycle)
        pitch == the(PITCH, STORYTELLING, story)
    IN  /\ one(SWOT_ERRC_CYCLE, CANVAS, canvas)
        /\ one(STORYTELLING, SWOT_ERRC_CYCLE, cycle)
        /\ one(FUTURE_SCENARIO, SWOT_ERRC_CYCLE, cycle)
        /\ one(PITCH, STORYTELLING, story)
        /\ rows[pitch].refs[SWOT_ERRC_CYCLE] = {cycle}
        /\ rows[cycle].refs[ENVIRONMENT_SCAN] = of_stage(rows, ENVIRONMENT_SCAN)
        /\ rows[pitch].refs[BUSINESS_CASE] = of_stage(rows, BUSINESS_CASE)

CompletedMeansWhole ==
    (\A x \in Ids : rows[x].done) =>
        /\ Cardinality(of_stage(rows, PATTERNS)) = 1
        /\ \A k \in {n \in 0..(MAX_SEGMENTS - 1) : n < rows[1].segments} :
           \E map \in of_stage(rows, EMPATHY_MAP) :
              /\ rows[map].index = k
              /\ Cardinality(with_ref(rows, CUSTOMER_SCENARIO, EMPATHY_MAP, map)) = 1
              /\ Cardinality(with_ref(rows, IDEATION, EMPATHY_MAP, map)) = 1
        /\ \A patterns \in of_stage(rows, PATTERNS) : \A k \in DOMAIN rows[patterns].groups :
              Cardinality({c \in of_stage(rows, CANVAS) : rows[c].index = k - 1}) = 1
        /\ \A canvas \in of_stage(rows, CANVAS) : Outputs(canvas)

(***************************************************************************)
(* A brief that is regenerated with another number of segments adds no     *)
(* rows to the project (ADR 0001, line 88).                                *)
(***************************************************************************)
RegeneratedBriefAddsNothing ==
    [][of_stage(rows, EMPATHY_MAP) # {} /\ ~rows[1].done /\ rows'[1].done =>
          DOMAIN rows' = DOMAIN rows]_vars

=============================================================================
