------------------------------ MODULE Planner ------------------------------
(***************************************************************************)
(* The planner of app/services/orchestration.py: initial_rows and          *)
(* expand_rows, which decide the rows a project has.                       *)
(*                                                                         *)
(* `work` is the planner's working view, a sequence of rows; the id of a   *)
(* row is its position, so a new row gets an id no row had before and      *)
(* later rows can draw from it.  Rows one loop of the planner adds go to   *)
(* the end together: none of them draws from another, and the order of     *)
(* their ids decides nothing.  A row's refs give for each stage the set of *)
(* ids it draws from (whose order decides nothing either).  Artifacts are  *)
(* reduced to what the planner reads in them: the number of segment        *)
(* candidates of a brief and the groups of the patterns, each the set of   *)
(* empathy_map rows whose maps it names (row_of_artifact).                 *)
(***************************************************************************)
EXTENDS Naturals, SequencesExt

BRIEF             == "brief"
BUSINESS_CASE     == "business_case"
ENVIRONMENT_SCAN  == "environment_scan"
EMPATHY_MAP       == "empathy_map"
CUSTOMER_SCENARIO == "customer_scenario"
IDEATION          == "ideation"
PATTERNS          == "patterns"
CANVAS            == "canvas"
SWOT_ERRC_CYCLE   == "swot_errc_cycle"
STORYTELLING      == "storytelling"
FUTURE_SCENARIO   == "future_scenario"
TEAM_INFO         == "team_info"
PITCH             == "pitch"

Stage == {BRIEF, BUSINESS_CASE, ENVIRONMENT_SCAN, EMPATHY_MAP, CUSTOMER_SCENARIO, IDEATION,
          PATTERNS, CANVAS, SWOT_ERRC_CYCLE, STORYTELLING, FUTURE_SCENARIO, TEAM_INFO, PITCH}

MAX_SEGMENTS == 3

NoRefs == [stage \in Stage |-> {}]
RefTo(stage, id) == [NoRefs EXCEPT ![stage] = {id}]

\* A planned row, pending; `done` abstracts the status to what expand_rows asks of it.
NewRow(stage, index, refs) ==
    [stage |-> stage, index |-> index, refs |-> refs, done |-> FALSE, segments |-> 0, groups |-> <<>>]

-----------------------------------------------------------------------------

\* The rows of `new` are added at the end, each with an id of its own.
Add(work, new) == work \o SetToSeq(new)

of_stage(work, stage) == {id \in DOMAIN work : work[id].stage = stage}

with_ref(work, stage, dep, id) == {x \in of_stage(work, stage) : work[x].refs[dep] = {id}}

\* The first row of some.
First(ids) == CHOOSE id \in ids : \A other \in ids : id <= other

\* Those of `ids` no row of `stage` draws from.
Without(work, stage, dep, ids) == {id \in ids : with_ref(work, stage, dep, id) = {}}

\* For each of `ids` the row of `stage` that draws from it, with index 0, unless there is one.
Missing(work, stage, dep, ids, otherRefs) ==
    {NewRow(stage, 0, [otherRefs EXCEPT ![dep] = {id}]) : id \in Without(work, stage, dep, ids)}

\* Mutant of Generated: what the user submits counts as generated.
GeneratedOrSubmitted(stage) == stage \in {BUSINESS_CASE, ENVIRONMENT_SCAN, TEAM_INFO}

\* An optional stage that something generates.
Generated(stage) == stage \in {BUSINESS_CASE, ENVIRONMENT_SCAN, TEAM_INFO} /\ stage # TEAM_INFO

\* The stages a request enables, each once; one that is not generated is answered with 422.
only_generated_optional_stages(value) ==
    IF \A stage \in ToSet(value) : Generated(stage) THEN {ToSet(value)} ELSE {}

initial_rows(enabled) ==
    Add(Add(<<>>, {NewRow(BRIEF, 0, NoRefs)}),
        {NewRow(stage, 0, RefTo(BRIEF, 1)) : stage \in {BUSINESS_CASE, ENVIRONMENT_SCAN} \cap enabled})

\* The empathy_map rows a brief calls for and does not have, one for each candidate.
MissingMaps(rows, brief) ==
    LET have == {rows[x].index : x \in with_ref(rows, EMPATHY_MAP, BRIEF, brief)}
    IN  {NewRow(EMPATHY_MAP, k, RefTo(BRIEF, brief)) :
            k \in {n \in 0..(MAX_SEGMENTS - 1) : n < rows[brief].segments /\ n \notin have}}

\* The scenario and the ideation of each map.
MissingFanOut(work) ==
    LET maps == of_stage(work, EMPATHY_MAP)
    IN  Missing(work, CUSTOMER_SCENARIO, EMPATHY_MAP, maps, NoRefs)
        \cup Missing(work, IDEATION, EMPATHY_MAP, maps, NoRefs)

\* The patterns row draws on the scenarios and ideations there are when it is made.
MissingPatterns(work) ==
    IF of_stage(work, PATTERNS) # {} THEN {}
    ELSE {NewRow(PATTERNS, 0, [NoRefs EXCEPT ![CUSTOMER_SCENARIO] = of_stage(work, CUSTOMER_SCENARIO),
                                             ![IDEATION] = of_stage(work, IDEATION)])}

expand_after_brief(rows, brief) ==
    LET withMaps  == Add(rows, MissingMaps(rows, brief))
        fannedOut == Add(withMaps, MissingFanOut(withMaps))
    IN  Add(fannedOut, MissingPatterns(fannedOut))

\* Mutants of CanvasRefs: scenarios are taken for ideations, scenarios of every segment are drawn on.
CanvasRefsMixed(work, patterns, maps) ==
    LET scenarios == UNION {with_ref(work, CUSTOMER_SCENARIO, EMPATHY_MAP, map) : map \in maps}
    IN  [NoRefs EXCEPT ![BRIEF] = of_stage(work, BRIEF), ![EMPATHY_MAP] = maps, ![PATTERNS] = {patterns},
                       ![CUSTOMER_SCENARIO] = scenarios, ![IDEATION] = scenarios]

CanvasRefsOfAll(work, patterns, maps) ==
    [NoRefs EXCEPT ![BRIEF] = of_stage(work, BRIEF), ![EMPATHY_MAP] = maps, ![PATTERNS] = {patterns},
                   ![CUSTOMER_SCENARIO] = of_stage(work, CUSTOMER_SCENARIO),
                   ![IDEATION] = of_stage(work, IDEATION)]

\* The refs of the canvas of a group that names `maps`.
CanvasRefs(work, patterns, maps) ==
    [NoRefs EXCEPT
        ![BRIEF] = of_stage(work, BRIEF),
        ![EMPATHY_MAP] = maps,
        ![CUSTOMER_SCENARIO] = UNION {with_ref(work, CUSTOMER_SCENARIO, EMPATHY_MAP, map) : map \in maps},
        ![IDEATION] = UNION {with_ref(work, IDEATION, EMPATHY_MAP, map) : map \in maps},
        ![PATTERNS] = {patterns}]

\* Mutant of MissingCanvases: a position may get a second canvas.
CanvasPerResult(rows, patterns) ==
    {NewRow(CANVAS, k - 1, CanvasRefs(rows, patterns, rows[patterns].groups[k])) :
        k \in 1..Len(rows[patterns].groups)}

\* The canvases the groups of a patterns row call for and whose positions have none.
MissingCanvases(rows, patterns) ==
    LET have == {rows[x].index : x \in with_ref(rows, CANVAS, PATTERNS, patterns)}
    IN  {NewRow(CANVAS, k - 1, CanvasRefs(rows, patterns, rows[patterns].groups[k])) :
            k \in {n \in 1..Len(rows[patterns].groups) : n - 1 \notin have}}

expand_after_patterns(rows, patterns) == Add(rows, MissingCanvases(rows, patterns))

\* The first row of an enabled optional stage, if there is one.
shared(work, stage, enabled) ==
    IF stage \notin enabled THEN {}
    ELSE {x \in of_stage(work, stage) :
             \A y \in of_stage(work, stage) : <<work[x].index, x>> = <<work[y].index, y>>
                                              \/ work[x].index < work[y].index}

MissingCycles(work, canvases, enabled) ==
    Missing(work, SWOT_ERRC_CYCLE, CANVAS, canvases,
            [NoRefs EXCEPT ![ENVIRONMENT_SCAN] = shared(work, ENVIRONMENT_SCAN, enabled)])

MissingTales(work, cycles) ==
    Missing(work, STORYTELLING, SWOT_ERRC_CYCLE, cycles, NoRefs)
    \cup Missing(work, FUTURE_SCENARIO, SWOT_ERRC_CYCLE, cycles, NoRefs)

\* The pitch of a story draws on the cycle of the story as well.
MissingPitches(work, stories, enabled) ==
    UNION {Missing(work, PITCH, STORYTELLING, {story},
                   [NoRefs EXCEPT ![SWOT_ERRC_CYCLE] = work[story].refs[SWOT_ERRC_CYCLE],
                                  ![TEAM_INFO] = shared(work, TEAM_INFO, enabled),
                                  ![BUSINESS_CASE] = shared(work, BUSINESS_CASE, enabled)]) :
           story \in stories}

\* The rows of one canvas depend on no other canvas, so those of all are added side by side.
expand_after_canvas(rows, canvases, enabled) ==
    LET withCycles == Add(rows, MissingCycles(rows, canvases, enabled))
        cycles     == {First(with_ref(withCycles, SWOT_ERRC_CYCLE, CANVAS, canvas)) : canvas \in canvases}
        withTales  == Add(withCycles, MissingTales(withCycles, cycles))
        stories    == {First(with_ref(withTales, STORYTELLING, SWOT_ERRC_CYCLE, cycle)) : cycle \in cycles}
    IN  Add(withTales, MissingPitches(withTales, stories, enabled))

\* The rows of a stage that are DONE.
Done(rows, stage) == {id \in of_stage(rows, stage) : rows[id].done}

\* Mutant of expand_rows: of the canvases that are DONE only the first is expanded.
ExpandFirstCanvas(rows, enabled) ==
    LET afterBrief    == IF Done(rows, BRIEF) = {} THEN rows
                         ELSE expand_after_brief(rows, First(Done(rows, BRIEF)))
        afterPatterns == IF Done(rows, PATTERNS) = {} THEN afterBrief
                         ELSE expand_after_patterns(afterBrief, First(Done(rows, PATTERNS)))
    IN  expand_after_canvas(afterPatterns,
                            {canvas \in Done(rows, CANVAS) : canvas = First(Done(rows, CANVAS))}, enabled)

\* The rows with those that became known because some are DONE, at the end.  A project
\* has one brief and at most one patterns row (`(brief_row,) = ...`, `if not ...`).
expand_rows(rows, enabled) ==
    LET afterBrief    == IF Done(rows, BRIEF) = {} THEN rows
                         ELSE expand_after_brief(rows, First(Done(rows, BRIEF)))
        afterPatterns == IF Done(rows, PATTERNS) = {} THEN afterBrief
                         ELSE expand_after_patterns(afterBrief, First(Done(rows, PATTERNS)))
    IN  expand_after_canvas(afterPatterns, Done(rows, CANVAS), enabled)

=============================================================================
