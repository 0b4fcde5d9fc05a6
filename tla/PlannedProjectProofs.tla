------------------------ MODULE PlannedProjectProofs ------------------------
(***************************************************************************)
(* Theorems about PlannedProject, for any numbers of segments and groups   *)
(* and any requests: what expand_rows leaves behind is well formed and     *)
(* complete, whatever was finished or regenerated before.                  *)
(*                                                                         *)
(* The invariant has two halves.  WellFormed says how the rows hang        *)
(* together and holds after every row the planner adds; Complete says that *)
(* nothing is missing, fails for the row a result was just applied to, and *)
(* is restored layer by layer.                                             *)
(***************************************************************************)
EXTENDS PlannedProject, FiniteSetTheorems, TLAPS

USE DEF BRIEF, BUSINESS_CASE, ENVIRONMENT_SCAN, EMPATHY_MAP, CUSTOMER_SCENARIO, IDEATION, PATTERNS,
        CANVAS, SWOT_ERRC_CYCLE, STORYTELLING, FUTURE_SCENARIO, TEAM_INFO, PITCH

Row == [stage : Stage, index : Nat, refs : [Stage -> SUBSET Nat], done : BOOLEAN,
        segments : Nat, groups : Seq(SUBSET Nat)]

\* How far a stage is from the brief: a row draws on rows nearer to it only.
Depth == [stage \in Stage |->
    CASE stage \in {BRIEF, TEAM_INFO} -> 0
      [] stage \in {BUSINESS_CASE, ENVIRONMENT_SCAN, EMPATHY_MAP} -> 1
      [] stage \in {CUSTOMER_SCENARIO, IDEATION} -> 2
      [] stage = PATTERNS -> 3
      [] stage = CANVAS -> 4
      [] stage = SWOT_ERRC_CYCLE -> 5
      [] stage \in {STORYTELLING, FUTURE_SCENARIO} -> 6
      [] stage = PITCH -> 7]

\* The stage by whose row the planner tells the rows of a stage apart.
Source == [stage \in Stage |->
    CASE stage \in {BRIEF, BUSINESS_CASE, ENVIRONMENT_SCAN, EMPATHY_MAP, PATTERNS, TEAM_INFO} -> BRIEF
      [] stage \in {CUSTOMER_SCENARIO, IDEATION} -> EMPATHY_MAP
      [] stage = CANVAS -> PATTERNS
      [] stage = SWOT_ERRC_CYCLE -> CANVAS
      [] stage \in {STORYTELLING, FUTURE_SCENARIO} -> SWOT_ERRC_CYCLE
      [] stage = PITCH -> STORYTELLING]

FanOut == {CUSTOMER_SCENARIO, IDEATION}

Optional == {BUSINESS_CASE, ENVIRONMENT_SCAN}

-----------------------------------------------------------------------------

\* The halves of the invariant, of any rows: first how they hang together.

OneBrief(work) == 1 \in DOMAIN work /\ \A x \in DOMAIN work : work[x].stage = BRIEF <=> x = 1

GroundedRefs(work) ==
    \A x \in DOMAIN work, dep \in Stage : \A y \in work[x].refs[dep] :
        /\ y \in DOMAIN work
        /\ y < x
        /\ work[y].stage = dep
        /\ Depth[dep] < Depth[work[x].stage]

DoneBelow(work) ==
    \A x \in DOMAIN work, dep \in Stage : \A y \in work[x].refs[dep] :
        work[x].done => work[y].done

HasSource(row) ==
    /\ row.stage # TEAM_INFO
    /\ row.stage \in {BRIEF, PATTERNS} => row.refs[BRIEF] = {}
    /\ row.stage \notin {BRIEF, PATTERNS} => \E y : row.refs[Source[row.stage]] = {y}
    /\ row.stage \notin {EMPATHY_MAP, CANVAS} => row.index = 0

Sourced(work) == \A x \in DOMAIN work : HasSource(work[x])

SameKey(row, other) ==
    /\ row.stage = other.stage
    /\ row.index = other.index
    /\ row.refs[Source[row.stage]] = other.refs[Source[row.stage]]

Distinct(work) == \A x, y \in DOMAIN work : SameKey(work[x], work[y]) => x = y

NamedMaps(work) ==
    \A x \in of_stage(work, PATTERNS) : \A k \in DOMAIN work[x].groups :
        work[x].groups[k] \subseteq of_stage(work, EMPATHY_MAP)

CanvasWhole(work, canvas) ==
    \A stage \in FanOut :
        /\ canvas.refs[stage] =
              {x \in of_stage(work, stage) : work[x].refs[EMPATHY_MAP] \subseteq canvas.refs[EMPATHY_MAP]}
        /\ \A map \in canvas.refs[EMPATHY_MAP] : with_ref(work, stage, EMPATHY_MAP, map) # {}

OptionalInputsTaken(work, row) ==
    /\ row.stage = SWOT_ERRC_CYCLE =>
          row.refs[ENVIRONMENT_SCAN] = of_stage(work, ENVIRONMENT_SCAN)
    /\ row.stage = PITCH =>
          /\ row.refs[BUSINESS_CASE] = of_stage(work, BUSINESS_CASE)
          /\ \A story \in row.refs[STORYTELLING] :
                row.refs[SWOT_ERRC_CYCLE] = work[story].refs[SWOT_ERRC_CYCLE]

CanvasesWhole(work) == \A x \in of_stage(work, CANVAS) : CanvasWhole(work, work[x])

InputsTaken(work) == \A x \in DOMAIN work : OptionalInputsTaken(work, work[x])

OptionalRows(work, wanted) == \A stage \in Optional : stage \in wanted <=> of_stage(work, stage) # {}

WellFormed(work, wanted) ==
    /\ work \in Seq(Row)
    /\ wanted \subseteq Optional
    /\ OneBrief(work)
    /\ GroundedRefs(work)
    /\ DoneBelow(work)
    /\ Sourced(work)
    /\ Distinct(work)
    /\ NamedMaps(work)
    /\ CanvasesWhole(work)
    /\ InputsTaken(work)
    /\ OptionalRows(work, wanted)

\* Then that nothing is missing, layer by layer.

MapsComplete(work) ==
    work[1].done => \A k \in 0..(MAX_SEGMENTS - 1) : k < work[1].segments =>
                       \E x \in of_stage(work, EMPATHY_MAP) : work[x].index = k

FanOutComplete(work) ==
    \A x \in of_stage(work, EMPATHY_MAP), stage \in FanOut : with_ref(work, stage, EMPATHY_MAP, x) # {}

PatternsComplete(work) == work[1].done => of_stage(work, PATTERNS) # {}

CanvasesComplete(work) ==
    \A x \in Done(work, PATTERNS) : \A k \in 1..Len(work[x].groups) :
        \E canvas \in of_stage(work, CANVAS) : work[canvas].index = k - 1

CyclesComplete(work) == \A x \in Done(work, CANVAS) : with_ref(work, SWOT_ERRC_CYCLE, CANVAS, x) # {}

TalesComplete(work) ==
    \A x \in of_stage(work, SWOT_ERRC_CYCLE), stage \in {STORYTELLING, FUTURE_SCENARIO} :
        with_ref(work, stage, SWOT_ERRC_CYCLE, x) # {}

PitchesComplete(work) ==
    \A x \in of_stage(work, STORYTELLING) : with_ref(work, PITCH, STORYTELLING, x) # {}

Complete(work) ==
    /\ MapsComplete(work)
    /\ FanOutComplete(work)
    /\ PatternsComplete(work)
    /\ CanvasesComplete(work)
    /\ CyclesComplete(work)
    /\ TalesComplete(work)
    /\ PitchesComplete(work)

IInv == WellFormed(rows, enabled) /\ Complete(rows)

-----------------------------------------------------------------------------

\* What Add does: `new` comes after `work`, each of them once.
Extends(grown, work, new) ==
    /\ grown \in Seq(Row)
    /\ DOMAIN work \subseteq DOMAIN grown
    /\ \A x \in DOMAIN work : grown[x] = work[x]
    /\ \A x \in DOMAIN grown \ DOMAIN work : grown[x] \in new /\ \A y \in DOMAIN work : y < x
    /\ \A row \in new : \E x \in DOMAIN grown \ DOMAIN work : grown[x] = row
    /\ \A x, y \in DOMAIN grown \ DOMAIN work : grown[x] = grown[y] => x = y

\* Add puts each row of a finite set after the others, once (_Plan.add, for one loop).
LEMMA AddExtends ==
    ASSUME NEW work \in Seq(Row), NEW new \in SUBSET Row, IsFiniteSet(new)
    PROVE  Extends(Add(work, new), work, new)
<1> DEFINE n     == Cardinality(new)
           order == SetToSeq(new)
<1>1. n \in Nat /\ ExistsBijection(1..n, new)
  BY FS_CardinalityType
<1>2. \E f \in [1..n -> new] : IsInjective(f)
  <2>1. PICK f \in Bijection(1..n, new) : TRUE
    BY <1>1 DEF ExistsBijection
  <2> QED
    BY <2>1 DEF Bijection, Injection, IsInjective
<1>3. order \in [1..n -> new] /\ IsInjective(order)
  BY <1>2 DEF SetToSeq
<1>4. order \in Injection(1..n, new)
  BY <1>3 DEF Injection, IsInjective
<1>5. Cardinality(1..n) = n
  BY <1>1, FS_Interval
<1>6. order \in Surjection(1..n, new)
  BY <1>4, <1>5, FS_Injection
<1>7. \A row \in new : \E k \in 1..n : order[k] = row
  BY <1>6 DEF Surjection
<1>8. order \in Seq(Row) /\ Len(order) = n
  BY <1>1, <1>3
<1> DEFINE grown == work \o order
<1>9. /\ grown \in Seq(Row)
      /\ DOMAIN grown = 1..(Len(work) + n)
      /\ \A x \in 1..Len(work) : grown[x] = work[x]
      /\ \A x \in (Len(work) + 1)..(Len(work) + n) : grown[x] = order[x - Len(work)]
  BY <1>1, <1>8
<1>10. DOMAIN work = 1..Len(work) /\ Len(work) \in Nat
  OBVIOUS
<1> HIDE DEF n, order, grown
<1>11. \A k \in 1..n : k + Len(work) \in DOMAIN grown \ DOMAIN work /\ grown[k + Len(work)] = order[k]
  BY <1>1, <1>9, <1>10
<1>12. \A x \in DOMAIN grown \ DOMAIN work : x - Len(work) \in 1..n /\ grown[x] = order[x - Len(work)]
  BY <1>1, <1>9, <1>10
<1>13. \A row \in new : \E x \in DOMAIN grown \ DOMAIN work : grown[x] = row
  BY <1>7, <1>11
<1>14. \A x, y \in DOMAIN grown \ DOMAIN work : grown[x] = grown[y] => x = y
  <2> SUFFICES ASSUME NEW x \in DOMAIN grown \ DOMAIN work, NEW y \in DOMAIN grown \ DOMAIN work,
                      grown[x] = grown[y]
               PROVE  x = y
    OBVIOUS
  <2>1. x - Len(work) = y - Len(work)
    BY <1>3, <1>12 DEF IsInjective
  <2> QED
    BY <2>1, <1>9, <1>10, <1>1
<1>15. \A x \in DOMAIN grown \ DOMAIN work : grown[x] \in new /\ \A y \in DOMAIN work : y < x
  BY <1>1, <1>3, <1>9, <1>10, <1>12
<1>16. DOMAIN work \subseteq DOMAIN grown /\ \A x \in DOMAIN work : grown[x] = work[x]
  BY <1>1, <1>9, <1>10
<1>17. Extends(grown, work, new)
  BY <1>9, <1>13, <1>14, <1>15, <1>16 DEF Extends
<1> QED
  BY <1>17 DEF grown, order, Add

\* Adding nothing changes nothing.
LEMMA AddNothing ==
    ASSUME NEW work \in Seq(Row)
    PROVE  Add(work, {}) = work
<1>1. Cardinality({}) = 0
  BY FS_EmptySet
<1>2. SetToSeq({}) \in [1..0 -> {}]
  <2>1. <<>> \in [1..0 -> {}] /\ IsInjective(<<>>)
    BY DEF IsInjective
  <2> QED
    BY <1>1, <2>1 DEF SetToSeq
<1>3. SetToSeq({}) = <<>>
  BY <1>2
<1> QED
  BY <1>3 DEF Add

\* The values of a function on a finite set are finitely many.
LEMMA FiniteImage ==
    ASSUME NEW S, IsFiniteSet(S), NEW f, DOMAIN f = S
    PROVE  IsFiniteSet({f[s] : s \in S})
<1>1. [s \in S |-> f[s]] \in Surjection(S, {f[s] : s \in S})
  BY DEF Surjection
<1> QED
  BY <1>1, FS_Surjection

\* A row's fields, and its refs by stage.
LEMMA NewRowFields ==
    ASSUME NEW stage \in Stage, NEW index \in Nat, NEW refs \in [Stage -> SUBSET Nat]
    PROVE  LET row == NewRow(stage, index, refs)
           IN  /\ row \in Row
               /\ row.stage = stage /\ row.index = index /\ row.refs = refs
               /\ ~row.done /\ row.segments = 0 /\ row.groups = <<>>
BY DEF NewRow, Row

LEMMA OneId ==
    ASSUME NEW ids \in SUBSET Nat, NEW id, ids = {id}
    PROVE  First(ids) = id
BY DEF First

-----------------------------------------------------------------------------

\* What the planner may add to well-formed rows: a row that fits them ...
Fits(work, row) ==
    /\ row \in Row /\ ~row.done /\ row.groups = <<>>
    /\ row.stage \notin {BRIEF} \cup Optional
    /\ HasSource(row)
    /\ \A dep \in Stage : \A y \in row.refs[dep] :
          y \in DOMAIN work /\ work[y].stage = dep /\ Depth[dep] < Depth[row.stage]
    /\ row.stage = CANVAS => CanvasWhole(work, row)
    /\ OptionalInputsTaken(work, row)
    /\ row.stage \in FanOut => \A canvas \in of_stage(work, CANVAS) :
                                  row.refs[EMPATHY_MAP] \cap work[canvas].refs[EMPATHY_MAP] = {}

\* ... and repeats neither one of theirs nor another new one.
CanAdd(work, new) ==
    /\ \A row \in new : Fits(work, row)
    /\ \A row \in new, x \in DOMAIN work : ~SameKey(row, work[x])
    /\ \A row, other \in new : SameKey(row, other) => row = other
    /\ \A row, other \in new : row.stage = CANVAS => other.stage \notin FanOut

\* The rows of a stage after a growth are those before it and the new ones of the stage.
LEMMA GrownStages ==
    ASSUME NEW work, NEW grown, NEW new, Extends(grown, work, new), NEW stage
    PROVE  /\ of_stage(work, stage) \subseteq of_stage(grown, stage)
           /\ \A x \in of_stage(grown, stage) :
                 \/ x \in DOMAIN work /\ x \in of_stage(work, stage)
                 \/ x \notin DOMAIN work /\ grown[x] \in new /\ grown[x].stage = stage
           /\ (\A row \in new : row.stage # stage) => of_stage(grown, stage) = of_stage(work, stage)
           /\ \A dep, id : with_ref(work, stage, dep, id) \subseteq with_ref(grown, stage, dep, id)
<1>1. of_stage(work, stage) \subseteq of_stage(grown, stage)
  BY DEF Extends, of_stage
<1>2. \A x \in of_stage(grown, stage) :
         \/ x \in DOMAIN work /\ x \in of_stage(work, stage)
         \/ x \notin DOMAIN work /\ grown[x] \in new /\ grown[x].stage = stage
  BY DEF Extends, of_stage
<1>3. \A dep, id : with_ref(work, stage, dep, id) \subseteq with_ref(grown, stage, dep, id)
  BY <1>1 DEF Extends, of_stage, with_ref
<1> QED
  BY <1>1, <1>2, <1>3

\* Rows that are well formed stay so when rows that fit are added.
LEMMA GrowthKeepsForm ==
    ASSUME NEW work, NEW wanted, NEW new, NEW grown,
           WellFormed(work, wanted), CanAdd(work, new), Extends(grown, work, new)
    PROVE  WellFormed(grown, wanted)
<1> DEFINE old == DOMAIN work
           all == DOMAIN grown
<1>1. /\ grown \in Seq(Row) /\ old \subseteq all
      /\ \A x \in old : grown[x] = work[x]
      /\ \A x \in all \ old : grown[x] \in new /\ Fits(work, grown[x]) /\ \A y \in old : y < x
  BY DEF Extends, CanAdd
<1>2. \A x \in all : grown[x] \in Row
  BY <1>1
<1>3. OneBrief(grown)
  BY <1>1 DEF WellFormed, OneBrief, Fits
<1>4. GroundedRefs(grown)
  BY <1>1 DEF WellFormed, GroundedRefs, Fits
<1>5. DoneBelow(grown)
  BY <1>1 DEF WellFormed, GroundedRefs, DoneBelow, Fits
<1>6. Sourced(grown)
  BY <1>1 DEF WellFormed, Sourced, Fits
<1>7. Distinct(grown)
  <2> SUFFICES ASSUME NEW x \in all, NEW y \in all, SameKey(grown[x], grown[y])
               PROVE  x = y
    BY DEF Distinct
  <2>1. CASE x \in old /\ y \in old
    BY <1>1, <2>1 DEF WellFormed, Distinct
  <2>2. CASE x \in old /\ y \notin old
    BY <1>1, <2>2 DEF CanAdd, SameKey
  <2>3. CASE x \notin old /\ y \in old
    BY <1>1, <2>3 DEF CanAdd, SameKey
  <2>4. CASE x \notin old /\ y \notin old
    BY <1>1, <2>4 DEF CanAdd, Extends
  <2> QED
    BY <2>1, <2>2, <2>3, <2>4
<1>8. NamedMaps(grown)
  <2> SUFFICES ASSUME NEW x \in of_stage(grown, PATTERNS), NEW k \in DOMAIN grown[x].groups
               PROVE  grown[x].groups[k] \subseteq of_stage(grown, EMPATHY_MAP)
    BY DEF NamedMaps
  <2>1. x \in old
    <3> SUFFICES ASSUME x \notin old PROVE FALSE
      OBVIOUS
    <3>1. grown[x].groups = <<>>
      BY <1>1 DEF of_stage, Fits
    <3> QED
      BY <3>1
  <2>2. x \in of_stage(work, PATTERNS)
    BY <2>1, GrownStages
  <2> QED
    BY <1>1, <2>1, <2>2, GrownStages DEF WellFormed, NamedMaps
<1>9. CanvasesWhole(grown)
  <2> SUFFICES ASSUME NEW x \in of_stage(grown, CANVAS), NEW stage \in FanOut
               PROVE  /\ grown[x].refs[stage] =
                            {y \in of_stage(grown, stage) :
                                grown[y].refs[EMPATHY_MAP] \subseteq grown[x].refs[EMPATHY_MAP]}
                      /\ \A map \in grown[x].refs[EMPATHY_MAP] :
                            with_ref(grown, stage, EMPATHY_MAP, map) # {}
    BY DEF CanvasesWhole, CanvasWhole
  <2>1. CanvasWhole(work, grown[x])
    BY <1>1, GrownStages DEF of_stage, WellFormed, CanvasesWhole, Fits
  <2>2. \A map \in grown[x].refs[EMPATHY_MAP] : with_ref(grown, stage, EMPATHY_MAP, map) # {}
    BY <2>1, GrownStages DEF CanvasWhole
  <2>3. \A y \in of_stage(work, stage) : grown[y] = work[y]
    BY <1>1 DEF of_stage
  <2>4. \A y \in of_stage(grown, stage) :
           grown[y].refs[EMPATHY_MAP] \subseteq grown[x].refs[EMPATHY_MAP] => y \in of_stage(work, stage)
    <3> SUFFICES ASSUME NEW y \in of_stage(grown, stage), y \notin of_stage(work, stage),
                        grown[y].refs[EMPATHY_MAP] \subseteq grown[x].refs[EMPATHY_MAP]
                 PROVE  FALSE
      OBVIOUS
    <3>1. y \notin old /\ grown[y] \in new /\ grown[y].stage = stage /\ Fits(work, grown[y])
      BY GrownStages DEF CanAdd
    <3>2. x \in of_stage(work, CANVAS) /\ grown[x] = work[x]
      <4>1. x \in of_stage(work, CANVAS) \/ (grown[x] \in new /\ grown[x].stage = CANVAS)
        BY GrownStages
      <4>2. ~(grown[x] \in new /\ grown[x].stage = CANVAS)
        BY <3>1 DEF CanAdd
      <4> QED
        BY <4>1, <4>2, <1>1 DEF of_stage
    <3>3. grown[y].refs[EMPATHY_MAP] \cap grown[x].refs[EMPATHY_MAP] = {}
      BY <3>1, <3>2 DEF Fits
    <3>4. \E z : grown[y].refs[EMPATHY_MAP] = {z}
      BY <3>1 DEF Fits, HasSource, FanOut, Source, Stage
    <3> QED
      BY <3>3, <3>4
  <2> QED
    BY <2>1, <2>2, <2>3, <2>4, GrownStages DEF CanvasWhole
<1>10. InputsTaken(grown)
  <2>1. \A stage \in Optional : of_stage(grown, stage) = of_stage(work, stage)
    <3> TAKE stage \in Optional
    <3>1. \A row \in new : row.stage # stage
      BY DEF CanAdd, Fits
    <3> QED
      BY <3>1, GrownStages
  <2>2. \A x \in all : OptionalInputsTaken(work, grown[x])
    BY <1>1 DEF WellFormed, InputsTaken, Fits
  <2>3. \A x \in all : \A y \in grown[x].refs[STORYTELLING] : y \in old
    BY <1>1 DEF WellFormed, GroundedRefs, Fits, Stage
  <2> QED
    BY <1>1, <2>1, <2>2, <2>3 DEF InputsTaken, OptionalInputsTaken, Optional
<1>11. OptionalRows(grown, wanted)
  <2>1. \A stage \in Optional : of_stage(grown, stage) = of_stage(work, stage)
    <3> TAKE stage \in Optional
    <3>1. \A row \in new : row.stage # stage
      BY DEF CanAdd, Fits
    <3> QED
      BY <3>1, GrownStages
  <2> QED
    BY <2>1 DEF WellFormed, OptionalRows
<1> QED
  BY <1>1, <1>3, <1>4, <1>5, <1>6, <1>7, <1>8, <1>9, <1>10, <1>11 DEF WellFormed

\* What is complete stays so when rows are added that call for nothing themselves.
LEMMA GrowthKeepsComplete ==
    ASSUME NEW work, NEW wanted, NEW new, NEW grown,
           WellFormed(work, wanted), CanAdd(work, new), Extends(grown, work, new)
    PROVE  /\ \A stage \in Stage : Done(grown, stage) = Done(work, stage)
           /\ MapsComplete(work) => MapsComplete(grown)
           /\ (\A row \in new : row.stage # EMPATHY_MAP) /\ FanOutComplete(work) => FanOutComplete(grown)
           /\ PatternsComplete(work) => PatternsComplete(grown)
           /\ CanvasesComplete(work) => CanvasesComplete(grown)
           /\ CyclesComplete(work) => CyclesComplete(grown)
           /\ (\A row \in new : row.stage # SWOT_ERRC_CYCLE) /\ TalesComplete(work) => TalesComplete(grown)
           /\ (\A row \in new : row.stage # STORYTELLING) /\ PitchesComplete(work) => PitchesComplete(grown)
<1>1. \A x \in DOMAIN work : x \in DOMAIN grown /\ grown[x] = work[x]
  BY DEF Extends
<1>2. \A stage \in Stage : Done(grown, stage) = Done(work, stage)
  <2> TAKE stage \in Stage
  <2>1. \A row \in new : ~row.done
    BY DEF CanAdd, Fits
  <2> QED
    BY <1>1, <2>1, GrownStages DEF Done, of_stage
<1>3. 1 \in DOMAIN work /\ grown[1] = work[1]
  BY <1>1 DEF WellFormed, OneBrief
<1>4. MapsComplete(work) => MapsComplete(grown)
  BY <1>1, <1>3, GrownStages DEF MapsComplete, of_stage
<1>5. (\A row \in new : row.stage # EMPATHY_MAP) /\ FanOutComplete(work) => FanOutComplete(grown)
  BY GrownStages DEF FanOutComplete
<1>6. PatternsComplete(work) => PatternsComplete(grown)
  BY <1>3, GrownStages DEF PatternsComplete
<1>7. CanvasesComplete(work) => CanvasesComplete(grown)
  <2>1. \A x \in Done(work, PATTERNS) : grown[x] = work[x]
    BY <1>1 DEF Done, of_stage
  <2>2. \A x \in of_stage(work, CANVAS) : x \in of_stage(grown, CANVAS) /\ grown[x] = work[x]
    BY <1>1 DEF of_stage
  <2> QED
    BY <1>2, <2>1, <2>2 DEF CanvasesComplete, Stage
<1>8. CyclesComplete(work) => CyclesComplete(grown)
  BY <1>2, GrownStages DEF CyclesComplete, Stage
<1>9. (\A row \in new : row.stage # SWOT_ERRC_CYCLE) /\ TalesComplete(work) => TalesComplete(grown)
  BY GrownStages DEF TalesComplete
<1>10. (\A row \in new : row.stage # STORYTELLING) /\ PitchesComplete(work) => PitchesComplete(grown)
  <2>1. (\A row \in new : row.stage # STORYTELLING) =>
           of_stage(grown, STORYTELLING) = of_stage(work, STORYTELLING)
    BY GrownStages
  <2>2. \A x : with_ref(work, PITCH, STORYTELLING, x) \subseteq with_ref(grown, PITCH, STORYTELLING, x)
    BY GrownStages
  <2> QED
    BY <2>1, <2>2 DEF PitchesComplete
<1> QED
  BY <1>2, <1>4, <1>5, <1>6, <1>7, <1>8, <1>9, <1>10

-----------------------------------------------------------------------------

\* The two functions on stages, stage by stage.
LEMMA StageValues ==
    /\ Source \in [Stage -> Stage] /\ Depth \in [Stage -> Nat]
    /\ Source[BRIEF] = BRIEF /\ Source[EMPATHY_MAP] = BRIEF /\ Source[PATTERNS] = BRIEF
    /\ Source[BUSINESS_CASE] = BRIEF /\ Source[ENVIRONMENT_SCAN] = BRIEF
    /\ Source[CUSTOMER_SCENARIO] = EMPATHY_MAP /\ Source[IDEATION] = EMPATHY_MAP
    /\ Source[CANVAS] = PATTERNS /\ Source[SWOT_ERRC_CYCLE] = CANVAS
    /\ Source[STORYTELLING] = SWOT_ERRC_CYCLE /\ Source[FUTURE_SCENARIO] = SWOT_ERRC_CYCLE
    /\ Source[PITCH] = STORYTELLING
    /\ Depth[BRIEF] = 0 /\ Depth[TEAM_INFO] = 0
    /\ Depth[BUSINESS_CASE] = 1 /\ Depth[ENVIRONMENT_SCAN] = 1 /\ Depth[EMPATHY_MAP] = 1
    /\ Depth[CUSTOMER_SCENARIO] = 2 /\ Depth[IDEATION] = 2
    /\ Depth[PATTERNS] = 3 /\ Depth[CANVAS] = 4 /\ Depth[SWOT_ERRC_CYCLE] = 5
    /\ Depth[STORYTELLING] = 6 /\ Depth[FUTURE_SCENARIO] = 6 /\ Depth[PITCH] = 7
<1>1. Source \in [Stage -> Stage]
  BY DEF Source, Stage
<1>2. Depth \in [Stage -> Nat]
  BY DEF Depth, Stage
<1>3. /\ Source[BRIEF] = BRIEF /\ Source[EMPATHY_MAP] = BRIEF /\ Source[PATTERNS] = BRIEF
      /\ Source[BUSINESS_CASE] = BRIEF /\ Source[ENVIRONMENT_SCAN] = BRIEF
      /\ Source[CUSTOMER_SCENARIO] = EMPATHY_MAP /\ Source[IDEATION] = EMPATHY_MAP
      /\ Source[CANVAS] = PATTERNS /\ Source[SWOT_ERRC_CYCLE] = CANVAS
      /\ Source[STORYTELLING] = SWOT_ERRC_CYCLE /\ Source[FUTURE_SCENARIO] = SWOT_ERRC_CYCLE
      /\ Source[PITCH] = STORYTELLING
  BY DEF Source, Stage
<1>4. /\ Depth[BRIEF] = 0 /\ Depth[TEAM_INFO] = 0
      /\ Depth[BUSINESS_CASE] = 1 /\ Depth[ENVIRONMENT_SCAN] = 1 /\ Depth[EMPATHY_MAP] = 1
      /\ Depth[CUSTOMER_SCENARIO] = 2 /\ Depth[IDEATION] = 2
      /\ Depth[PATTERNS] = 3 /\ Depth[CANVAS] = 4 /\ Depth[SWOT_ERRC_CYCLE] = 5
      /\ Depth[STORYTELLING] = 6 /\ Depth[FUTURE_SCENARIO] = 6 /\ Depth[PITCH] = 7
  BY DEF Depth, Stage
<1> QED
  BY <1>1, <1>2, <1>3, <1>4

\* The ids of well-formed rows: finitely many naturals, their rows of the right type.
LEMMA RowsTyped ==
    ASSUME NEW work, NEW wanted, WellFormed(work, wanted)
    PROVE  /\ work \in Seq(Row) /\ DOMAIN work \subseteq Nat
           /\ \A x \in DOMAIN work : work[x] \in Row
           /\ \A ids \in SUBSET DOMAIN work : IsFiniteSet(ids)
           /\ \A stage : of_stage(work, stage) \in SUBSET Nat /\ IsFiniteSet(of_stage(work, stage))
<1>1. work \in Seq(Row)
  BY DEF WellFormed
<1>2. DOMAIN work = 1..Len(work) /\ Len(work) \in Nat
  BY <1>1
<1>3. IsFiniteSet(DOMAIN work)
  BY <1>2, FS_Interval
<1>4. \A ids \in SUBSET DOMAIN work : IsFiniteSet(ids)
  BY <1>3, FS_Subset
<1> QED
  BY <1>1, <1>2, <1>4 DEF of_stage

\* The stages whose rows are added one for each row of their source, unless there is one.
Followers == {CUSTOMER_SCENARIO, IDEATION, SWOT_ERRC_CYCLE, STORYTELLING, FUTURE_SCENARIO, PITCH}

\* `Missing`, with what else the rows draw on given for each id.
MissingWith(work, stage, dep, ids, others) ==
    {NewRow(stage, 0, [others[id] EXCEPT ![dep] = {id}]) : id \in Without(work, stage, dep, ids)}

\* What the missing rows of a stage look like: one for each id that lacks one.
Follow(new, work, stage, ids, others) ==
    LET dep == Source[stage]
    IN  /\ IsFiniteSet(new) /\ new \in SUBSET Row
        /\ \A row \in new :
              /\ row.stage = stage /\ row.index = 0 /\ ~row.done /\ row.groups = <<>>
              /\ HasSource(row)
              /\ \E id \in Without(work, stage, dep, ids) :
                    /\ row.refs[dep] = {id}
                    /\ \A other \in Stage \ {dep} : row.refs[other] = others[id][other]
        /\ \A id \in Without(work, stage, dep, ids) :
              \E row \in new : row.stage = stage /\ row.refs[dep] = {id}
        /\ \A row \in new, x \in DOMAIN work : ~SameKey(row, work[x])
        /\ \A row, other \in new : SameKey(row, other) => row = other

LEMMA MissingRows ==
    ASSUME NEW work, NEW wanted, WellFormed(work, wanted),
           NEW stage \in Followers,
           NEW ids \in SUBSET DOMAIN work,
           NEW others \in [ids -> [Stage -> SUBSET Nat]]
    PROVE  Follow(MissingWith(work, stage, Source[stage], ids, others), work, stage, ids, others)
<1> DEFINE dep    == Source[stage]
           new    == MissingWith(work, stage, dep, ids, others)
           left   == Without(work, stage, dep, ids)
           refs   == [id \in left |-> [others[id] EXCEPT ![dep] = {id}]]
           made   == [id \in left |-> NewRow(stage, 0, refs[id])]
<1>1. stage \in Stage /\ dep \in Stage /\ dep # stage /\ left \subseteq ids /\ ids \subseteq Nat
  BY StageValues, RowsTyped DEF Followers, Stage, Without
<1>2. \A id \in left : /\ refs[id] \in [Stage -> SUBSET Nat]
                       /\ refs[id][dep] = {id}
                       /\ \A other \in Stage \ {dep} : refs[id][other] = others[id][other]
  BY <1>1
<1>3. \A id \in left : LET row == made[id]
                       IN  /\ row \in Row
                           /\ row.stage = stage /\ row.index = 0 /\ row.refs = refs[id]
                           /\ ~row.done /\ row.segments = 0 /\ row.groups = <<>>
  <2> TAKE id \in left
  <2>1. refs[id] \in [Stage -> SUBSET Nat] /\ made[id] = NewRow(stage, 0, refs[id])
    BY <1>2
  <2> HIDE DEF refs, made
  <2> QED
    BY <1>1, <2>1, NewRowFields
<1>4. new = {made[id] : id \in left}
  BY DEF MissingWith
<1>5. IsFiniteSet(new)
  <2>1. IsFiniteSet(left)
    BY <1>1, RowsTyped
  <2>2. DOMAIN made = left
    OBVIOUS
  <2> HIDE DEF made, left, new
  <2>3. IsFiniteSet({made[id] : id \in left})
    BY <2>1, <2>2, FiniteImage
  <2> QED
    BY <1>4, <2>3
<1> HIDE DEF new, left, refs, made
<1>6. \A row \in new : \E id \in left : row = made[id]
  BY <1>4
<1>7. \A id \in left : HasSource(made[id])
  BY <1>2, <1>3, StageValues DEF HasSource, Followers
<1>8. \A row \in new, x \in DOMAIN work : ~SameKey(row, work[x])
  <2> SUFFICES ASSUME NEW id \in left, NEW x \in DOMAIN work, SameKey(made[id], work[x])
               PROVE  FALSE
    BY <1>6
  <2>1. work[x].stage = stage /\ work[x].refs[dep] = {id}
    BY <1>2, <1>3 DEF SameKey
  <2> QED
    BY <2>1 DEF left, Without, with_ref, of_stage
<1>9. \A row, other \in new : SameKey(row, other) => row = other
  <2> SUFFICES ASSUME NEW id \in left, NEW id2 \in left, SameKey(made[id], made[id2])
               PROVE  made[id] = made[id2]
    BY <1>6
  <2>1. {id} = {id2}
    BY <1>2, <1>3 DEF SameKey
  <2> QED
    BY <2>1
<1>10. \A id \in left : made[id] \in new /\ made[id].stage = stage /\ made[id].refs[dep] = {id}
  BY <1>2, <1>3, <1>4
<1>11. new \in SUBSET Row
  BY <1>3, <1>6
<1>12. \A row \in new :
          /\ row.stage = stage /\ row.index = 0 /\ ~row.done /\ row.groups = <<>>
          /\ HasSource(row)
          /\ \E id \in left :
                /\ row.refs[dep] = {id}
                /\ \A other \in Stage \ {dep} : row.refs[other] = others[id][other]
  <2> TAKE row \in new
  <2>1. PICK id \in left : row = made[id]
    BY <1>6
  <2>2. /\ row.stage = stage /\ row.index = 0 /\ ~row.done /\ row.groups = <<>>
        /\ row.refs = refs[id]
    BY <2>1, <1>3
  <2>3. HasSource(row)
    BY <2>1, <1>7
  <2>4. row.refs[dep] = {id} /\ \A other \in Stage \ {dep} : row.refs[other] = others[id][other]
    BY <2>2, <1>2
  <2> QED
    BY <2>2, <2>3, <2>4
<1> QED
  BY <1>5, <1>8, <1>9, <1>10, <1>11, <1>12 DEF left, new, Follow

\* `Missing` itself, whose rows share what else they draw on.
Alike(ids, refs) == [id \in ids |-> refs]

LEMMA MissingFollow ==
    ASSUME NEW work, NEW wanted, WellFormed(work, wanted),
           NEW stage \in Followers,
           NEW ids \in SUBSET DOMAIN work,
           NEW otherRefs \in [Stage -> SUBSET Nat]
    PROVE  Follow(Missing(work, stage, Source[stage], ids, otherRefs),
                  work, stage, ids, Alike(ids, otherRefs))
<1> DEFINE others == Alike(ids, otherRefs)
<1>1. others \in [ids -> [Stage -> SUBSET Nat]]
  BY DEF Alike
<1>2. Missing(work, stage, Source[stage], ids, otherRefs)
         = MissingWith(work, stage, Source[stage], ids, others)
  BY DEF Missing, MissingWith, Without, Alike
<1> HIDE DEF others
<1>3. Follow(MissingWith(work, stage, Source[stage], ids, others), work, stage, ids, others)
  BY <1>1, MissingRows
<1>4. Follow(Missing(work, stage, Source[stage], ids, otherRefs), work, stage, ids, others)
  BY <1>2, <1>3
<1> QED
  BY <1>4 DEF others

\* After the missing rows are added, none is missing.
LEMMA NoneLeft ==
    ASSUME NEW work, NEW grown, NEW new, Extends(grown, work, new),
           NEW stage, NEW dep, NEW ids,
           \A id \in Without(work, stage, dep, ids) :
              \E row \in new : row.stage = stage /\ row.refs[dep] = {id}
    PROVE  \A id \in ids : with_ref(grown, stage, dep, id) # {}
<1> TAKE id \in ids
<1>1. CASE id \in Without(work, stage, dep, ids)
  <2>1. PICK row \in new : row.stage = stage /\ row.refs[dep] = {id}
    BY <1>1
  <2>2. PICK x \in DOMAIN grown : grown[x] = row
    BY DEF Extends
  <2> QED
    BY <2>1, <2>2 DEF with_ref, of_stage
<1>2. CASE id \notin Without(work, stage, dep, ids)
  BY <1>2, GrownStages DEF Without
<1> QED
  BY <1>1, <1>2

\* A row is told apart by its source where there is one row of a stage for each.
LEMMA OneFollower ==
    ASSUME NEW work, NEW wanted, WellFormed(work, wanted),
           NEW stage \in Followers, NEW id,
           NEW x \in with_ref(work, stage, Source[stage], id)
    PROVE  with_ref(work, stage, Source[stage], id) = {x}
<1> SUFFICES ASSUME NEW y \in with_ref(work, stage, Source[stage], id) PROVE y = x
  OBVIOUS
<1>1. SameKey(work[x], work[y])
  BY DEF with_ref, of_stage, SameKey, WellFormed, Sourced, HasSource, Followers
<1> QED
  BY <1>1 DEF WellFormed, Distinct, with_ref, of_stage

-----------------------------------------------------------------------------

\* The layers of expand_rows, in its order: what each adds may be added.

\* Every map is made from the brief, and every canvas from the one patterns row.
LEMMA MapsOfBrief ==
    ASSUME NEW work, NEW wanted, WellFormed(work, wanted),
           NEW brief \in DOMAIN work, work[brief].stage = BRIEF
    PROVE  of_stage(work, EMPATHY_MAP) = with_ref(work, EMPATHY_MAP, BRIEF, brief)
<1> SUFFICES ASSUME NEW x \in of_stage(work, EMPATHY_MAP) PROVE work[x].refs[BRIEF] = {brief}
  BY DEF with_ref
<1>1. x \in DOMAIN work /\ work[x].stage = EMPATHY_MAP
  BY DEF of_stage
<1>2. PICK y : work[x].refs[BRIEF] = {y}
  BY <1>1, StageValues DEF WellFormed, Sourced, HasSource
<1>3. y = brief
  BY <1>1, <1>2 DEF WellFormed, GroundedRefs, OneBrief, Stage
<1> QED
  BY <1>2, <1>3

LEMMA CanvasesOfPatterns ==
    ASSUME NEW work, NEW wanted, WellFormed(work, wanted),
           NEW patterns \in of_stage(work, PATTERNS)
    PROVE  of_stage(work, CANVAS) = with_ref(work, CANVAS, PATTERNS, patterns)
<1> SUFFICES ASSUME NEW x \in of_stage(work, CANVAS) PROVE work[x].refs[PATTERNS] = {patterns}
  BY DEF with_ref
<1>1. x \in DOMAIN work /\ work[x].stage = CANVAS
  BY DEF of_stage
<1>2. PICK y : work[x].refs[PATTERNS] = {y}
  BY <1>1, StageValues DEF WellFormed, Sourced, HasSource
<1>3. /\ y \in DOMAIN work /\ work[y].stage = PATTERNS
      /\ patterns \in DOMAIN work /\ work[patterns].stage = PATTERNS
  BY <1>1, <1>2 DEF WellFormed, GroundedRefs, Stage, of_stage
<1>4. SameKey(work[y], work[patterns])
  BY <1>3, StageValues DEF WellFormed, Sourced, HasSource, SameKey
<1>5. y = patterns
  BY <1>3, <1>4 DEF WellFormed, Distinct
<1> QED
  BY <1>2, <1>5

LEMMA MapsFit ==
    ASSUME NEW work, NEW wanted, WellFormed(work, wanted),
           NEW brief \in DOMAIN work, work[brief].stage = BRIEF,
           NEW new, new = MissingMaps(work, brief)
    PROVE  /\ IsFiniteSet(new) /\ new \in SUBSET Row
           /\ CanAdd(work, new)
           /\ \A row \in new : row.stage = EMPATHY_MAP
           /\ \A k \in 0..(MAX_SEGMENTS - 1) : k < work[brief].segments =>
                 \/ \E x \in of_stage(work, EMPATHY_MAP) : work[x].index = k
                 \/ \E row \in new : row.stage = EMPATHY_MAP /\ row.index = k
<1> DEFINE have   == {work[x].index : x \in with_ref(work, EMPATHY_MAP, BRIEF, brief)}
           called == {n \in 0..(MAX_SEGMENTS - 1) : n < work[brief].segments /\ n \notin have}
           made   == [k \in called |-> NewRow(EMPATHY_MAP, k, RefTo(BRIEF, brief))]
<1>1. called \subseteq 0..2 /\ called \subseteq Nat /\ brief \in Nat
  BY RowsTyped DEF MAX_SEGMENTS
<1>2. /\ RefTo(BRIEF, brief) \in [Stage -> SUBSET Nat]
      /\ RefTo(BRIEF, brief)[BRIEF] = {brief}
      /\ \A dep \in Stage \ {BRIEF} : RefTo(BRIEF, brief)[dep] = {}
  BY <1>1 DEF RefTo, NoRefs, Stage
<1>3. \A k \in called : LET row == made[k]
                        IN  /\ row \in Row
                            /\ row.stage = EMPATHY_MAP /\ row.index = k
                            /\ row.refs[BRIEF] = {brief}
                            /\ \A dep \in Stage \ {BRIEF} : row.refs[dep] = {}
                            /\ ~row.done /\ row.segments = 0 /\ row.groups = <<>>
  <2> TAKE k \in called
  <2>1. EMPATHY_MAP \in Stage /\ k \in Nat /\ made[k] = NewRow(EMPATHY_MAP, k, RefTo(BRIEF, brief))
    BY <1>1 DEF Stage
  <2> HIDE DEF made
  <2> QED
    BY <1>2, <2>1, NewRowFields
<1>4. new = {made[k] : k \in called}
  BY DEF MissingMaps
<1>5. IsFiniteSet(new)
  <2>1. IsFiniteSet(0..2)
    <3>1. 0 \in Int /\ 2 \in Int
      OBVIOUS
    <3> QED
      BY <3>1, FS_Interval, Zenon
  <2>2. IsFiniteSet(called)
    BY <1>1, <2>1, FS_Subset
  <2>3. DOMAIN made = called
    OBVIOUS
  <2> HIDE DEF made, called
  <2>4. IsFiniteSet({made[k] : k \in called})
    BY <2>2, <2>3, FiniteImage
  <2> QED
    BY <1>4, <2>4
<1>6. of_stage(work, EMPATHY_MAP) = with_ref(work, EMPATHY_MAP, BRIEF, brief)
  BY MapsOfBrief
<1>7. \A x \in of_stage(work, EMPATHY_MAP) : work[x].index \in have
  BY <1>6
<1> HIDE DEF have, called, made
<1>8. \A row \in new : \E k \in called : row = made[k]
  BY <1>4
<1>9. \A row \in new : Fits(work, row)
  <2> SUFFICES ASSUME NEW k \in called PROVE Fits(work, made[k])
    BY <1>8
  <2>1. HasSource(made[k])
    <3>1. made[k].stage = EMPATHY_MAP /\ made[k].refs[BRIEF] = {brief}
      BY <1>2, <1>3
    <3>2. made[k].refs[Source[made[k].stage]] = {brief}
      BY <3>1, StageValues
    <3> QED
      BY <3>1, <3>2 DEF HasSource
  <2>2. \A dep \in Stage : \A y \in made[k].refs[dep] :
           y \in DOMAIN work /\ work[y].stage = dep /\ Depth[dep] < Depth[EMPATHY_MAP]
    <3> SUFFICES ASSUME NEW dep \in Stage, NEW y \in made[k].refs[dep]
                 PROVE  y \in DOMAIN work /\ work[y].stage = dep /\ Depth[dep] < Depth[EMPATHY_MAP]
      OBVIOUS
    <3>1. made[k].refs[BRIEF] = {brief} /\ \A other \in Stage \ {BRIEF} : made[k].refs[other] = {}
      BY <1>3
    <3>2. dep = BRIEF /\ y = brief
      BY <3>1
    <3>3. Depth[BRIEF] < Depth[EMPATHY_MAP]
      BY StageValues
    <3> QED
      BY <3>2, <3>3
  <2> QED
    BY <1>3, <2>1, <2>2 DEF Fits, OptionalInputsTaken, FanOut, Optional
<1>10. \A row \in new, x \in DOMAIN work : ~SameKey(row, work[x])
  <2> SUFFICES ASSUME NEW k \in called, NEW x \in DOMAIN work, SameKey(made[k], work[x]) PROVE FALSE
    BY <1>8
  <2>1. x \in of_stage(work, EMPATHY_MAP) /\ work[x].index = k
    BY <1>3 DEF SameKey, of_stage
  <2> QED
    BY <2>1, <1>7 DEF called
<1>11. \A row, other \in new : SameKey(row, other) => row = other
  BY <1>3, <1>8 DEF SameKey
<1>12. \A row \in new : row.stage = EMPATHY_MAP
  BY <1>3, <1>8
<1>13. CanAdd(work, new)
  BY <1>9, <1>10, <1>11, <1>12 DEF CanAdd
<1>14. \A k \in 0..(MAX_SEGMENTS - 1) : k < work[brief].segments =>
          \/ \E x \in of_stage(work, EMPATHY_MAP) : work[x].index = k
          \/ \E row \in new : row.stage = EMPATHY_MAP /\ row.index = k
  <2> SUFFICES ASSUME NEW k \in 0..(MAX_SEGMENTS - 1), k < work[brief].segments, k \in called
               PROVE  \E row \in new : row.stage = EMPATHY_MAP /\ row.index = k
    BY <1>6 DEF called, have
  <2> QED
    BY <1>3, <1>4
<1>15. new \in SUBSET Row
  BY <1>3, <1>8
<1> QED
  BY <1>5, <1>12, <1>13, <1>14, <1>15

LEMMA FanOutFits ==
    ASSUME NEW work, NEW wanted, WellFormed(work, wanted),
           NEW new, new = MissingFanOut(work)
    PROVE  /\ IsFiniteSet(new) /\ new \in SUBSET Row
           /\ CanAdd(work, new)
           /\ \A row \in new : row.stage \in FanOut
           /\ \A stage \in FanOut : \A x \in Without(work, stage, EMPATHY_MAP, of_stage(work, EMPATHY_MAP)) :
                 \E row \in new : row.stage = stage /\ row.refs[EMPATHY_MAP] = {x}
<1> DEFINE maps       == of_stage(work, EMPATHY_MAP)
           rowsOf(stage) == Missing(work, stage, Source[stage], maps, NoRefs)
           others     == Alike(maps, NoRefs)
<1>1. /\ maps \in SUBSET DOMAIN work
      /\ NoRefs \in [Stage -> SUBSET Nat]
      /\ \A x \in maps, dep \in Stage : others[x][dep] = {}
  BY DEF of_stage, NoRefs, Alike
<1>2. \A stage \in FanOut : stage \in Followers /\ Source[stage] = EMPATHY_MAP
  BY StageValues DEF FanOut, Followers
<1>3. new = rowsOf(CUSTOMER_SCENARIO) \cup rowsOf(IDEATION)
  BY <1>2 DEF MissingFanOut, FanOut
<1>4. \A stage \in FanOut : Follow(rowsOf(stage), work, stage, maps, others)
  <2> HIDE DEF maps
  <2> QED
    BY <1>1, <1>2, MissingFollow
<1> HIDE DEF rowsOf, others
<1>5. \A row \in new : \E stage \in FanOut : row \in rowsOf(stage)
  BY <1>3 DEF FanOut
<1>6. \A stage \in FanOut : \A row \in rowsOf(stage) : row.stage = stage /\ Fits(work, row)
  <2> SUFFICES ASSUME NEW stage \in FanOut, NEW row \in rowsOf(stage)
               PROVE  row.stage = stage /\ Fits(work, row)
    OBVIOUS
  <2>1. /\ row \in Row /\ row.stage = stage /\ ~row.done /\ row.groups = <<>> /\ HasSource(row)
        /\ \E x \in Without(work, stage, Source[stage], maps) :
              /\ row.refs[Source[stage]] = {x}
              /\ \A other \in Stage \ {Source[stage]} : row.refs[other] = others[x][other]
    BY <1>4 DEF Follow
  <2>2. PICK x \in Without(work, stage, EMPATHY_MAP, maps) :
           /\ row.refs[EMPATHY_MAP] = {x}
           /\ \A other \in Stage \ {EMPATHY_MAP} : row.refs[other] = others[x][other]
    BY <1>2, <2>1
  <2>3. /\ x \in maps /\ x \in DOMAIN work /\ work[x].stage = EMPATHY_MAP
        /\ with_ref(work, stage, EMPATHY_MAP, x) = {}
    BY <2>2 DEF Without, of_stage
  <2>4. \A dep \in Stage : \A y \in row.refs[dep] :
           y \in DOMAIN work /\ work[y].stage = dep /\ Depth[dep] < Depth[stage]
    BY <1>1, <2>2, <2>3, StageValues DEF FanOut
  <2>5. \A canvas \in of_stage(work, CANVAS) : row.refs[EMPATHY_MAP] \cap work[canvas].refs[EMPATHY_MAP] = {}
    BY <2>2, <2>3 DEF WellFormed, CanvasesWhole, CanvasWhole
  <2> QED
    BY <2>1, <2>4, <2>5 DEF Fits, OptionalInputsTaken, FanOut, Optional
<1>7. \A row \in new : row.stage \in FanOut
  BY <1>5, <1>6
<1>8. CanAdd(work, new)
  <2>1. \A row \in new : Fits(work, row)
    BY <1>5, <1>6
  <2>2. \A row \in new, x \in DOMAIN work : ~SameKey(row, work[x])
    BY <1>4, <1>5 DEF Follow
  <2>3. \A row, other \in new : SameKey(row, other) => row = other
    <3> SUFFICES ASSUME NEW row \in new, NEW other \in new, SameKey(row, other) PROVE row = other
      OBVIOUS
    <3>1. row.stage = other.stage
      BY DEF SameKey
    <3>2. PICK stage \in FanOut : row \in rowsOf(stage) /\ other \in rowsOf(stage)
      BY <3>1, <1>5, <1>6
    <3> QED
      BY <3>2, <1>4 DEF Follow
  <2> QED
    BY <1>7, <2>1, <2>2, <2>3 DEF CanAdd, FanOut
<1>9. IsFiniteSet(new)
  <2>1. IsFiniteSet(rowsOf(CUSTOMER_SCENARIO)) /\ IsFiniteSet(rowsOf(IDEATION))
    BY <1>4 DEF Follow, FanOut
  <2> QED
    BY <1>3, <2>1, FS_Union
<1>10. new \in SUBSET Row
  BY <1>4, <1>5 DEF Follow
<1>11. \A stage \in FanOut : \A x \in Without(work, stage, EMPATHY_MAP, maps) :
          \E row \in new : row.stage = stage /\ row.refs[EMPATHY_MAP] = {x}
  <2> SUFFICES ASSUME NEW stage \in FanOut, NEW x \in Without(work, stage, EMPATHY_MAP, maps)
               PROVE  \E row \in new : row.stage = stage /\ row.refs[EMPATHY_MAP] = {x}
    OBVIOUS
  <2>1. x \in Without(work, stage, Source[stage], maps)
    BY <1>2
  <2>2. PICK row \in rowsOf(stage) : row.stage = stage /\ row.refs[Source[stage]] = {x}
    <3>1. Follow(rowsOf(stage), work, stage, maps, others)
      BY <1>4
    <3> HIDE DEF maps
    <3> QED
      BY <2>1, <3>1 DEF Follow
  <2> QED
    BY <1>2, <1>3, <2>2 DEF FanOut
<1> QED
  BY <1>7, <1>8, <1>9, <1>10, <1>11

LEMMA PatternsFit ==
    ASSUME NEW work, NEW wanted, WellFormed(work, wanted),
           NEW new, new = MissingPatterns(work)
    PROVE  /\ IsFiniteSet(new) /\ new \in SUBSET Row
           /\ CanAdd(work, new)
           /\ \A row \in new : row.stage = PATTERNS
           /\ of_stage(work, PATTERNS) = {} => \E row \in new : row.stage = PATTERNS
<1>1. CASE of_stage(work, PATTERNS) # {}
  <2>1. new = {}
    BY <1>1 DEF MissingPatterns
  <2> QED
    BY <1>1, <2>1, FS_EmptySet DEF CanAdd
<1>2. CASE of_stage(work, PATTERNS) = {}
  <2> DEFINE refs == [NoRefs EXCEPT ![CUSTOMER_SCENARIO] = of_stage(work, CUSTOMER_SCENARIO),
                                    ![IDEATION] = of_stage(work, IDEATION)]
             row  == NewRow(PATTERNS, 0, refs)
  <2>1. new = {row}
    BY <1>2 DEF MissingPatterns
  <2>2. /\ of_stage(work, CUSTOMER_SCENARIO) \in SUBSET Nat
        /\ of_stage(work, IDEATION) \in SUBSET Nat
    BY RowsTyped
  <2>3. /\ refs \in [Stage -> SUBSET Nat]
        /\ refs[CUSTOMER_SCENARIO] = of_stage(work, CUSTOMER_SCENARIO)
        /\ refs[IDEATION] = of_stage(work, IDEATION)
        /\ \A dep \in Stage \ FanOut : refs[dep] = {}
    BY <2>2 DEF NoRefs, Stage, FanOut
  <2>4. /\ row \in Row
        /\ row.stage = PATTERNS /\ row.index = 0 /\ row.refs = refs
        /\ ~row.done /\ row.segments = 0 /\ row.groups = <<>>
    <3> HIDE DEF refs
    <3>1. PATTERNS \in Stage /\ 0 \in Nat
      BY DEF Stage
    <3>2. refs \in [Stage -> SUBSET Nat]
      BY <2>3
    <3> QED
      BY <3>1, <3>2, NewRowFields
  <2> HIDE DEF row, refs
  <2>5. \A dep \in Stage : \A y \in row.refs[dep] :
           y \in DOMAIN work /\ work[y].stage = dep /\ Depth[dep] < Depth[PATTERNS]
    BY <2>3, <2>4, StageValues DEF of_stage, FanOut
  <2>6. HasSource(row)
    BY <2>3, <2>4 DEF HasSource, Stage, FanOut
  <2>7. Fits(work, row)
    BY <2>4, <2>5, <2>6 DEF Fits, OptionalInputsTaken, FanOut, Optional
  <2>8. \A x \in DOMAIN work : ~SameKey(row, work[x])
    BY <1>2, <2>4 DEF SameKey, of_stage
  <2>9. CanAdd(work, new)
    BY <2>1, <2>4, <2>7, <2>8 DEF CanAdd
  <2> QED
    BY <2>1, <2>4, <2>9, FS_Singleton
<1> QED
  BY <1>1, <1>2

DrawnOn(briefs, maps, scenarios, ideations, patterns) ==
    [NoRefs EXCEPT ![BRIEF] = briefs, ![EMPATHY_MAP] = maps, ![CUSTOMER_SCENARIO] = scenarios,
                   ![IDEATION] = ideations, ![PATTERNS] = patterns]

\* The refs of a canvas, stage by stage.
LEMMA CanvasRefsValues ==
    ASSUME NEW briefs \in SUBSET Nat, NEW maps \in SUBSET Nat, NEW scenarios \in SUBSET Nat,
           NEW ideations \in SUBSET Nat, NEW patterns \in SUBSET Nat
    PROVE  LET drawn == DrawnOn(briefs, maps, scenarios, ideations, patterns)
           IN  /\ drawn \in [Stage -> SUBSET Nat]
               /\ drawn[BRIEF] = briefs /\ drawn[EMPATHY_MAP] = maps
               /\ drawn[CUSTOMER_SCENARIO] = scenarios /\ drawn[IDEATION] = ideations
               /\ drawn[PATTERNS] = patterns
               /\ \A stage \in Stage \ {BRIEF, EMPATHY_MAP, CUSTOMER_SCENARIO, IDEATION, PATTERNS} :
                     drawn[stage] = {}
BY DEF NoRefs, Stage, DrawnOn

LEMMA CanvasesFit ==
    ASSUME NEW work, NEW wanted, WellFormed(work, wanted), FanOutComplete(work),
           NEW patterns \in of_stage(work, PATTERNS),
           NEW new, new = MissingCanvases(work, patterns)
    PROVE  /\ IsFiniteSet(new) /\ new \in SUBSET Row
           /\ CanAdd(work, new)
           /\ \A row \in new : row.stage = CANVAS
           /\ \A k \in 1..Len(work[patterns].groups) :
                 \/ \E x \in of_stage(work, CANVAS) : work[x].index = k - 1
                 \/ \E row \in new : row.stage = CANVAS /\ row.index = k - 1
<1> DEFINE groups   == work[patterns].groups
           have     == {work[x].index : x \in with_ref(work, CANVAS, PATTERNS, patterns)}
           called   == {n \in 1..Len(groups) : n - 1 \notin have}
           refs     == [k \in called |-> CanvasRefs(work, patterns, groups[k])]
           made     == [k \in called |-> NewRow(CANVAS, k - 1, refs[k])]
<1>1. /\ patterns \in DOMAIN work /\ patterns \in Nat /\ work[patterns].stage = PATTERNS
      /\ groups \in Seq(SUBSET Nat) /\ Len(groups) \in Nat /\ DOMAIN groups = 1..Len(groups)
  BY RowsTyped DEF of_stage, Row
<1>2. \A k \in called : k \in Nat \ {0} /\ groups[k] \in SUBSET of_stage(work, EMPATHY_MAP)
  BY <1>1 DEF WellFormed, NamedMaps
<1>3. \A stage \in FanOut : \A x \in of_stage(work, stage) :
         /\ \E map : work[x].refs[EMPATHY_MAP] = {map}
         /\ x \in Nat
  <2> TAKE stage \in FanOut
  <2> TAKE x \in of_stage(work, stage)
  <2>1. x \in DOMAIN work /\ work[x].stage = stage /\ Source[stage] = EMPATHY_MAP
    BY StageValues DEF of_stage, FanOut
  <2>2. HasSource(work[x])
    BY <2>1 DEF WellFormed, Sourced
  <2>3. \E map : work[x].refs[Source[work[x].stage]] = {map}
    BY <2>1, <2>2 DEF HasSource, FanOut
  <2> QED
    BY <2>1, <2>3, RowsTyped
<1> HIDE DEF groups
<1>4. ASSUME NEW maps \in SUBSET of_stage(work, EMPATHY_MAP)
      PROVE  LET drawn == CanvasRefs(work, patterns, maps)
             IN  /\ drawn \in [Stage -> SUBSET Nat]
                 /\ drawn[PATTERNS] = {patterns}
                 /\ drawn[BRIEF] = of_stage(work, BRIEF)
                 /\ drawn[EMPATHY_MAP] = maps
                 /\ \A stage \in FanOut :
                       drawn[stage] = {x \in of_stage(work, stage) : work[x].refs[EMPATHY_MAP] \subseteq maps}
                 /\ \A stage \in Stage \ {BRIEF, EMPATHY_MAP, CUSTOMER_SCENARIO, IDEATION, PATTERNS} :
                       drawn[stage] = {}
  <2> DEFINE drawnOf(stage) == UNION {with_ref(work, stage, EMPATHY_MAP, map) : map \in maps}
             within(stage) == {x \in of_stage(work, stage) : work[x].refs[EMPATHY_MAP] \subseteq maps}
  <2>1. \A stage \in FanOut : drawnOf(stage) = within(stage)
    <3> TAKE stage \in FanOut
    <3>1. ASSUME NEW x \in drawnOf(stage) PROVE x \in within(stage)
      BY DEF with_ref
    <3>2. ASSUME NEW x \in within(stage) PROVE x \in drawnOf(stage)
      <4>1. PICK map : work[x].refs[EMPATHY_MAP] = {map}
        BY <1>3
      <4>2. map \in maps /\ x \in with_ref(work, stage, EMPATHY_MAP, map)
        BY <4>1 DEF with_ref
      <4> QED
        BY <4>2
    <3> QED
      BY <3>1, <3>2
  <2>2. of_stage(work, BRIEF) \in SUBSET Nat /\ maps \in SUBSET Nat
    BY RowsTyped
  <2>3. within(CUSTOMER_SCENARIO) \in SUBSET Nat /\ within(IDEATION) \in SUBSET Nat
    BY <1>3 DEF FanOut
  <2>4. CanvasRefs(work, patterns, maps) =
           DrawnOn(of_stage(work, BRIEF), maps, within(CUSTOMER_SCENARIO), within(IDEATION), {patterns})
    <3>1. drawnOf(CUSTOMER_SCENARIO) = within(CUSTOMER_SCENARIO) /\ drawnOf(IDEATION) = within(IDEATION)
      BY <2>1 DEF FanOut
    <3> HIDE DEF within
    <3> QED
      BY <3>1 DEF CanvasRefs, DrawnOn
  <2> HIDE DEF within
  <2>5. LET drawn == CanvasRefs(work, patterns, maps)
        IN  /\ drawn \in [Stage -> SUBSET Nat]
            /\ drawn[PATTERNS] = {patterns}
            /\ drawn[BRIEF] = of_stage(work, BRIEF)
            /\ drawn[EMPATHY_MAP] = maps
            /\ drawn[CUSTOMER_SCENARIO] = within(CUSTOMER_SCENARIO)
            /\ drawn[IDEATION] = within(IDEATION)
            /\ \A stage \in Stage \ {BRIEF, EMPATHY_MAP, CUSTOMER_SCENARIO, IDEATION, PATTERNS} :
                  drawn[stage] = {}
    <3> DEFINE briefs    == of_stage(work, BRIEF)
               scenarios == within(CUSTOMER_SCENARIO)
               ideations == within(IDEATION)
               one       == {patterns}
    <3>1. /\ briefs \in SUBSET Nat /\ scenarios \in SUBSET Nat /\ ideations \in SUBSET Nat
          /\ maps \in SUBSET Nat /\ one \in SUBSET Nat
      BY <1>1, <2>2, <2>3
    <3>2. CanvasRefs(work, patterns, maps) = DrawnOn(briefs, maps, scenarios, ideations, one)
      BY <2>4
    <3> HIDE DEF briefs, scenarios, ideations, one
    <3>3. LET drawn == DrawnOn(briefs, maps, scenarios, ideations, one)
          IN  /\ drawn \in [Stage -> SUBSET Nat]
              /\ drawn[BRIEF] = briefs /\ drawn[EMPATHY_MAP] = maps
              /\ drawn[CUSTOMER_SCENARIO] = scenarios /\ drawn[IDEATION] = ideations
              /\ drawn[PATTERNS] = one
              /\ \A stage \in Stage \ {BRIEF, EMPATHY_MAP, CUSTOMER_SCENARIO, IDEATION, PATTERNS} :
                    drawn[stage] = {}
      BY <3>1, CanvasRefsValues
    <3> QED
      BY <3>2, <3>3 DEF briefs, scenarios, ideations, one
  <2>6. \A stage \in FanOut : CanvasRefs(work, patterns, maps)[stage] = within(stage)
    BY <2>5 DEF FanOut
  <2> QED
    BY <2>5, <2>6 DEF within
<1> HIDE DEF have, called
<1>5. \A k \in called :
         /\ refs[k] \in [Stage -> SUBSET Nat]
         /\ refs[k][PATTERNS] = {patterns}
         /\ refs[k][BRIEF] = of_stage(work, BRIEF)
         /\ refs[k][EMPATHY_MAP] \in SUBSET of_stage(work, EMPATHY_MAP)
         /\ \A stage \in FanOut :
               refs[k][stage] = {x \in of_stage(work, stage) :
                                    work[x].refs[EMPATHY_MAP] \subseteq refs[k][EMPATHY_MAP]}
         /\ \A stage \in Stage \ {BRIEF, EMPATHY_MAP, CUSTOMER_SCENARIO, IDEATION, PATTERNS} :
               refs[k][stage] = {}
  <2> TAKE k \in called
  <2>1. groups[k] \in SUBSET of_stage(work, EMPATHY_MAP) /\ refs[k] = CanvasRefs(work, patterns, groups[k])
    BY <1>2
  <2> HIDE DEF refs
  <2> QED
    BY <1>4, <2>1
<1> HIDE DEF refs
<1>6. \A k \in called : LET row == made[k]
                        IN  /\ row \in Row
                            /\ row.stage = CANVAS /\ row.index = k - 1 /\ row.refs = refs[k]
                            /\ ~row.done /\ row.segments = 0 /\ row.groups = <<>>
  <2> TAKE k \in called
  <2>1. CANVAS \in Stage /\ k - 1 \in Nat /\ made[k] = NewRow(CANVAS, k - 1, refs[k])
    BY <1>2 DEF Stage
  <2> HIDE DEF made
  <2> QED
    BY <1>5, <2>1, NewRowFields
<1>7. new = {made[k] : k \in called}
  BY DEF MissingCanvases, called, have, refs, groups
<1>8. IsFiniteSet(new)
  <2>1. IsFiniteSet(1..Len(groups))
    BY <1>1, FS_Interval
  <2>2. IsFiniteSet(called)
    BY <2>1, FS_Subset DEF called
  <2>3. DOMAIN made = called
    OBVIOUS
  <2> HIDE DEF made
  <2>4. IsFiniteSet({made[k] : k \in called})
    BY <2>2, <2>3, FiniteImage
  <2> QED
    BY <1>7, <2>4
<1> HIDE DEF made
<1>9. \A row \in new : \E k \in called : row = made[k]
  BY <1>7
<1>10. of_stage(work, CANVAS) = with_ref(work, CANVAS, PATTERNS, patterns)
  BY CanvasesOfPatterns
<1>11. \A x \in of_stage(work, CANVAS) : work[x].index \in have
  BY <1>10 DEF have
<1>12. \A k \in called : Fits(work, made[k])
  <2> TAKE k \in called
  <2>1. HasSource(made[k])
    <3>1. made[k].stage = CANVAS /\ made[k].refs[PATTERNS] = {patterns}
      BY <1>5, <1>6
    <3>2. made[k].refs[Source[made[k].stage]] = {patterns}
      BY <3>1, StageValues
    <3> QED
      BY <3>1, <3>2 DEF HasSource
  <2>2. \A dep \in Stage : \A y \in made[k].refs[dep] :
           y \in DOMAIN work /\ work[y].stage = dep /\ Depth[dep] < Depth[CANVAS]
    <3> TAKE dep \in Stage
    <3>1. CASE dep \in {BRIEF, EMPATHY_MAP, CUSTOMER_SCENARIO, IDEATION}
      <4>1. refs[k][dep] \subseteq of_stage(work, dep)
        BY <3>1, <1>5 DEF FanOut
      <4>2. made[k].refs = refs[k]
        BY <1>6
      <4>3. Depth[dep] < Depth[CANVAS]
        BY <3>1, StageValues
      <4> QED
        BY <4>1, <4>2, <4>3 DEF of_stage
    <3>2. CASE dep = PATTERNS
      <4>1. made[k].refs[PATTERNS] = {patterns}
        BY <1>5, <1>6
      <4>2. \A y \in made[k].refs[dep] : y = patterns
        BY <3>2, <4>1
      <4> QED
        BY <3>2, <4>2, <1>1, StageValues
    <3>3. CASE dep \notin {BRIEF, EMPATHY_MAP, CUSTOMER_SCENARIO, IDEATION, PATTERNS}
      BY <3>3, <1>5, <1>6
    <3> QED
      BY <3>1, <3>2, <3>3
  <2>3. CanvasWhole(work, made[k])
    <3>1. \A stage \in FanOut, map \in made[k].refs[EMPATHY_MAP] :
             with_ref(work, stage, EMPATHY_MAP, map) # {}
      BY <1>5, <1>6 DEF FanOutComplete
    <3> QED
      BY <3>1, <1>5, <1>6 DEF CanvasWhole
  <2> QED
    BY <1>6, <2>1, <2>2, <2>3 DEF Fits, OptionalInputsTaken, FanOut, Optional
<1>13. \A row \in new, x \in DOMAIN work : ~SameKey(row, work[x])
  <2> SUFFICES ASSUME NEW k \in called, NEW x \in DOMAIN work, SameKey(made[k], work[x]) PROVE FALSE
    BY <1>9
  <2>1. x \in of_stage(work, CANVAS) /\ work[x].index = k - 1
    BY <1>6 DEF SameKey, of_stage
  <2> QED
    BY <2>1, <1>11 DEF called
<1>14. \A row, other \in new : SameKey(row, other) => row = other
  <2> SUFFICES ASSUME NEW k \in called, NEW n \in called, SameKey(made[k], made[n])
               PROVE  made[k] = made[n]
    BY <1>9
  <2>1. k - 1 = n - 1
    BY <1>6 DEF SameKey
  <2>2. k = n
    BY <2>1, <1>2
  <2> QED
    BY <2>2
<1>15. \A row \in new : row.stage = CANVAS
  BY <1>6, <1>9
<1>16. CanAdd(work, new)
  BY <1>9, <1>12, <1>13, <1>14, <1>15 DEF CanAdd, FanOut
<1>17. \A k \in 1..Len(groups) :
          \/ \E x \in of_stage(work, CANVAS) : work[x].index = k - 1
          \/ \E row \in new : row.stage = CANVAS /\ row.index = k - 1
  <2> SUFFICES ASSUME NEW k \in 1..Len(groups), k \in called
               PROVE  \E row \in new : row.stage = CANVAS /\ row.index = k - 1
    BY <1>10 DEF called, have
  <2> QED
    BY <1>6, <1>7
<1>18. new \in SUBSET Row
  BY <1>6, <1>9
<1> QED
  BY <1>8, <1>15, <1>16, <1>17, <1>18 DEF groups

\* An optional stage has one row when it is enabled and none otherwise.
LEMMA SharedRows ==
    ASSUME NEW work, NEW wanted, WellFormed(work, wanted)
    PROVE  /\ \A stage \in Optional : shared(work, stage, wanted) = of_stage(work, stage)
           /\ shared(work, TEAM_INFO, wanted) = {}
<1>1. shared(work, TEAM_INFO, wanted) = {}
  BY DEF shared, WellFormed, Optional
<1>2. ASSUME NEW stage \in Optional
      PROVE  shared(work, stage, wanted) = of_stage(work, stage)
  <2>1. ASSUME NEW x \in of_stage(work, stage), NEW y \in of_stage(work, stage) PROVE x = y
    <3>1. /\ x \in DOMAIN work /\ work[x].stage = stage
          /\ y \in DOMAIN work /\ work[y].stage = stage
          /\ stage \in Stage /\ Source[stage] = BRIEF
      BY StageValues DEF of_stage, Optional, Stage
    <3>2. /\ work[x].index = 0 /\ \E z : work[x].refs[BRIEF] = {z}
          /\ work[y].index = 0 /\ \E z : work[y].refs[BRIEF] = {z}
      BY <3>1 DEF WellFormed, Sourced, HasSource, Optional
    <3>3. work[x].refs[BRIEF] = work[y].refs[BRIEF]
      BY <3>1, <3>2 DEF WellFormed, GroundedRefs, OneBrief, Stage
    <3>4. SameKey(work[x], work[y])
      BY <3>1, <3>2, <3>3 DEF SameKey
    <3> QED
      BY <3>1, <3>4 DEF WellFormed, Distinct
  <2>2. stage \notin wanted => of_stage(work, stage) = {}
    BY DEF WellFormed, OptionalRows
  <2> QED
    BY <2>1, <2>2 DEF shared
<1> QED
  BY <1>1, <1>2

\* The stages that follow a canvas.
AfterCanvas == {SWOT_ERRC_CYCLE, STORYTELLING, FUTURE_SCENARIO, PITCH}

\* A row follows one of `ids`.
FollowsOne(row, stage, ids) == \E x \in ids : row.refs[Source[stage]] = {x}

\* Their missing rows may be added if what else they draw on is there and is what it should be.
LEMMA FollowFits ==
    ASSUME NEW work, NEW wanted, WellFormed(work, wanted),
           NEW stage \in AfterCanvas,
           NEW ids \in SUBSET of_stage(work, Source[stage]),
           NEW others, NEW new, Follow(new, work, stage, ids, others),
           \A id \in ids, dep \in Stage : \A y \in others[id][dep] :
              y \in DOMAIN work /\ work[y].stage = dep /\ Depth[dep] < Depth[stage],
           stage = SWOT_ERRC_CYCLE => \A id \in ids :
              others[id][ENVIRONMENT_SCAN] = of_stage(work, ENVIRONMENT_SCAN),
           stage = PITCH => \A id \in ids :
              /\ others[id][BUSINESS_CASE] = of_stage(work, BUSINESS_CASE)
              /\ others[id][SWOT_ERRC_CYCLE] = work[id].refs[SWOT_ERRC_CYCLE]
    PROVE  /\ IsFiniteSet(new) /\ new \in SUBSET Row
           /\ CanAdd(work, new)
           /\ \A row \in new : row.stage = stage /\ FollowsOne(row, stage, ids)
<1>1. /\ IsFiniteSet(new) /\ new \in SUBSET Row
      /\ \A row \in new : row.stage = stage
      /\ \A row \in new, x \in DOMAIN work : ~SameKey(row, work[x])
      /\ \A row, other \in new : SameKey(row, other) => row = other
  BY DEF Follow
<1>2. ASSUME NEW row \in new PROVE Fits(work, row)
  <2>1. /\ row \in Row /\ row.stage = stage /\ ~row.done /\ row.groups = <<>> /\ HasSource(row)
        /\ \E id \in Without(work, stage, Source[stage], ids) :
              /\ row.refs[Source[stage]] = {id}
              /\ \A other \in Stage \ {Source[stage]} : row.refs[other] = others[id][other]
    BY DEF Follow
  <2>2. PICK id \in ids : /\ row.refs[Source[stage]] = {id}
                          /\ \A other \in Stage \ {Source[stage]} : row.refs[other] = others[id][other]
    BY <2>1 DEF Without
  <2>3. id \in DOMAIN work /\ work[id].stage = Source[stage]
    BY DEF of_stage
  <2>4. Depth[Source[stage]] < Depth[stage]
    BY StageValues DEF AfterCanvas
  <2>5. \A dep \in Stage : \A y \in row.refs[dep] :
           y \in DOMAIN work /\ work[y].stage = dep /\ Depth[dep] < Depth[stage]
    <3> TAKE dep \in Stage
    <3>1. CASE dep = Source[stage]
      BY <3>1, <2>2, <2>3, <2>4
    <3>2. CASE dep # Source[stage]
      BY <3>2, <2>2
    <3> QED
      BY <3>1, <3>2
  <2>6. OptionalInputsTaken(work, row)
    <3>1. CASE stage = SWOT_ERRC_CYCLE
      <4>1. row.refs[ENVIRONMENT_SCAN] = of_stage(work, ENVIRONMENT_SCAN)
        BY <3>1, <2>2, StageValues DEF Stage
      <4> QED
        BY <3>1, <4>1, <2>1 DEF OptionalInputsTaken
    <3>2. CASE stage = PITCH
      <4>1. row.refs[STORYTELLING] = {id}
        BY <3>2, <2>2, StageValues
      <4>2. /\ row.refs[BUSINESS_CASE] = of_stage(work, BUSINESS_CASE)
            /\ row.refs[SWOT_ERRC_CYCLE] = work[id].refs[SWOT_ERRC_CYCLE]
        BY <3>2, <2>2, StageValues DEF Stage
      <4> QED
        BY <3>2, <4>1, <4>2, <2>1 DEF OptionalInputsTaken
    <3>3. CASE stage \notin {SWOT_ERRC_CYCLE, PITCH}
      BY <3>3, <2>1 DEF OptionalInputsTaken
    <3> QED
      BY <3>1, <3>2, <3>3
  <2> QED
    BY <2>1, <2>5, <2>6 DEF Fits, AfterCanvas, FanOut, Optional
<1>3. CanAdd(work, new)
  BY <1>1, <1>2 DEF CanAdd, AfterCanvas, FanOut
<1>4. \A row \in new : FollowsOne(row, stage, ids)
  BY DEF Follow, Without, FollowsOne
<1> QED
  BY <1>1, <1>3, <1>4

\* Rows of two stages may be added together if each may.
LEMMA CanAddBoth ==
    ASSUME NEW work, NEW new, NEW more, CanAdd(work, new), CanAdd(work, more),
           \A row \in new, other \in more : row.stage # other.stage,
           \A row \in new \cup more : row.stage # CANVAS
    PROVE  CanAdd(work, new \cup more)
<1>1. \A row \in new \cup more : Fits(work, row)
  BY DEF CanAdd
<1>2. \A row \in new \cup more, x \in DOMAIN work : ~SameKey(row, work[x])
  BY DEF CanAdd
<1>3. \A row, other \in new \cup more : SameKey(row, other) => row = other
  BY DEF CanAdd, SameKey
<1> QED
  BY <1>1, <1>2, <1>3 DEF CanAdd

LEMMA CyclesFit ==
    ASSUME NEW work, NEW wanted, WellFormed(work, wanted),
           NEW canvases \in SUBSET of_stage(work, CANVAS),
           NEW new, new = MissingCycles(work, canvases, wanted)
    PROVE  /\ IsFiniteSet(new) /\ new \in SUBSET Row
           /\ CanAdd(work, new)
           /\ \A row \in new : row.stage = SWOT_ERRC_CYCLE /\ FollowsOne(row, SWOT_ERRC_CYCLE, canvases)
           /\ \A x \in Without(work, SWOT_ERRC_CYCLE, CANVAS, canvases) :
                 \E row \in new : row.stage = SWOT_ERRC_CYCLE /\ row.refs[CANVAS] = {x}
<1> DEFINE stage == SWOT_ERRC_CYCLE
           scans == of_stage(work, ENVIRONMENT_SCAN)
           scan  == [NoRefs EXCEPT ![ENVIRONMENT_SCAN] = scans]
           others == Alike(canvases, scan)
<1>1. stage \in AfterCanvas /\ stage \in Followers /\ Source[stage] = CANVAS
  BY StageValues DEF AfterCanvas, Followers
<1>2. scans \in SUBSET Nat /\ canvases \in SUBSET DOMAIN work
  BY RowsTyped DEF of_stage
<1> HIDE DEF scans
<1>3. /\ scan \in [Stage -> SUBSET Nat]
      /\ scan[ENVIRONMENT_SCAN] = scans
      /\ \A dep \in Stage \ {ENVIRONMENT_SCAN} : scan[dep] = {}
  BY <1>2 DEF NoRefs, Stage
<1>4. new = Missing(work, stage, Source[stage], canvases, scan)
  <2>1. shared(work, ENVIRONMENT_SCAN, wanted) = scans
    BY SharedRows DEF Optional, scans
  <2> QED
    BY <1>1, <2>1 DEF MissingCycles
<1> HIDE DEF scan
<1>5. \A id \in canvases : others[id] = scan
  BY DEF Alike
<1> HIDE DEF stage
<1>6. Follow(new, work, stage, canvases, others)
  BY <1>1, <1>2, <1>3, <1>4, MissingFollow
<1> HIDE DEF others
<1>7. \A id \in canvases, dep \in Stage : \A y \in others[id][dep] :
         y \in DOMAIN work /\ work[y].stage = dep /\ Depth[dep] < Depth[stage]
  BY <1>3, <1>5, StageValues DEF scans, of_stage, stage
<1>8. /\ \A id \in canvases : others[id][ENVIRONMENT_SCAN] = of_stage(work, ENVIRONMENT_SCAN)
      /\ stage # PITCH
  BY <1>3, <1>5 DEF scans, stage
<1>9. canvases \in SUBSET of_stage(work, Source[stage])
  BY <1>1
<1>10. /\ IsFiniteSet(new) /\ new \in SUBSET Row
       /\ CanAdd(work, new)
       /\ \A row \in new : row.stage = stage /\ FollowsOne(row, stage, canvases)
  BY <1>1, <1>6, <1>7, <1>8, <1>9, FollowFits
<1>11. \A x \in Without(work, stage, Source[stage], canvases) :
          \E row \in new : row.stage = stage /\ row.refs[Source[stage]] = {x}
  BY <1>6 DEF Follow
<1> QED
  BY <1>1, <1>10, <1>11 DEF stage

LEMMA TalesFit ==
    ASSUME NEW work, NEW wanted, WellFormed(work, wanted),
           NEW cycles \in SUBSET of_stage(work, SWOT_ERRC_CYCLE),
           NEW new, new = MissingTales(work, cycles)
    PROVE  /\ IsFiniteSet(new) /\ new \in SUBSET Row
           /\ CanAdd(work, new)
           /\ \A row \in new : /\ row.stage \in {STORYTELLING, FUTURE_SCENARIO}
                               /\ FollowsOne(row, row.stage, cycles)
           /\ \A stage \in {STORYTELLING, FUTURE_SCENARIO} :
                 \A x \in Without(work, stage, SWOT_ERRC_CYCLE, cycles) :
                    \E row \in new : row.stage = stage /\ row.refs[SWOT_ERRC_CYCLE] = {x}
<1> DEFINE tales  == {STORYTELLING, FUTURE_SCENARIO}
           others == Alike(cycles, NoRefs)
           rowsOf(stage) == Missing(work, stage, Source[stage], cycles, NoRefs)
<1>1. \A stage \in tales : stage \in AfterCanvas /\ stage \in Followers /\ Source[stage] = SWOT_ERRC_CYCLE
  BY StageValues DEF AfterCanvas, Followers
<1>2. /\ cycles \in SUBSET DOMAIN work
      /\ NoRefs \in [Stage -> SUBSET Nat]
      /\ \A x \in cycles, dep \in Stage : others[x][dep] = {}
  BY DEF of_stage, NoRefs, Alike
<1>3. new = rowsOf(STORYTELLING) \cup rowsOf(FUTURE_SCENARIO)
  BY <1>1 DEF MissingTales
<1>4. \A stage \in tales : Follow(rowsOf(stage), work, stage, cycles, others)
  BY <1>1, <1>2, MissingFollow
<1> HIDE DEF rowsOf, others
<1>5. ASSUME NEW stage \in tales
      PROVE  /\ IsFiniteSet(rowsOf(stage)) /\ rowsOf(stage) \in SUBSET Row
             /\ CanAdd(work, rowsOf(stage))
             /\ \A row \in rowsOf(stage) : row.stage = stage /\ FollowsOne(row, stage, cycles)
             /\ \A x \in Without(work, stage, SWOT_ERRC_CYCLE, cycles) :
                   \E row \in rowsOf(stage) : row.stage = stage /\ row.refs[SWOT_ERRC_CYCLE] = {x}
  <2>1. \A id \in cycles, dep \in Stage : \A y \in others[id][dep] :
           y \in DOMAIN work /\ work[y].stage = dep /\ Depth[dep] < Depth[stage]
    BY <1>2
  <2>2. stage # SWOT_ERRC_CYCLE /\ stage # PITCH
    OBVIOUS
  <2>3. cycles \in SUBSET of_stage(work, Source[stage])
    BY <1>1
  <2>4. Follow(rowsOf(stage), work, stage, cycles, others) /\ stage \in AfterCanvas
    BY <1>1, <1>4
  <2> HIDE DEF tales
  <2>5. /\ IsFiniteSet(rowsOf(stage)) /\ rowsOf(stage) \in SUBSET Row
        /\ CanAdd(work, rowsOf(stage))
        /\ \A row \in rowsOf(stage) : row.stage = stage /\ FollowsOne(row, stage, cycles)
    BY <2>1, <2>2, <2>3, <2>4, FollowFits
  <2>6. \A x \in Without(work, stage, Source[stage], cycles) :
           \E row \in rowsOf(stage) : row.stage = stage /\ row.refs[Source[stage]] = {x}
    BY <2>4 DEF Follow
  <2>7. Source[stage] = SWOT_ERRC_CYCLE
    BY <1>1
  <2> QED
    BY <2>5, <2>6, <2>7
<1> DEFINE stories == rowsOf(STORYTELLING)
           futures == rowsOf(FUTURE_SCENARIO)
<1>6. /\ IsFiniteSet(stories) /\ stories \in SUBSET Row /\ CanAdd(work, stories)
      /\ \A row \in stories : row.stage = STORYTELLING /\ FollowsOne(row, row.stage, cycles)
      /\ IsFiniteSet(futures) /\ futures \in SUBSET Row /\ CanAdd(work, futures)
      /\ \A row \in futures : row.stage = FUTURE_SCENARIO /\ FollowsOne(row, row.stage, cycles)
  BY <1>5
<1> HIDE DEF stories, futures
<1>7. new = stories \cup futures
  BY <1>3 DEF stories, futures
<1>8. CanAdd(work, new)
  BY <1>6, <1>7, CanAddBoth
<1>9. IsFiniteSet(new)
  <2>1. IsFiniteSet(stories) /\ IsFiniteSet(futures)
    BY <1>6
  <2> QED
    BY <1>7, <2>1, FS_Union
<1>10. \A stage \in tales : \A x \in Without(work, stage, SWOT_ERRC_CYCLE, cycles) :
          \E row \in new : row.stage = stage /\ row.refs[SWOT_ERRC_CYCLE] = {x}
  BY <1>3, <1>5
<1> QED
  BY <1>6, <1>7, <1>8, <1>9, <1>10

LEMMA PitchesFit ==
    ASSUME NEW work, NEW wanted, WellFormed(work, wanted),
           NEW stories \in SUBSET of_stage(work, STORYTELLING),
           NEW new, new = MissingPitches(work, stories, wanted)
    PROVE  /\ IsFiniteSet(new) /\ new \in SUBSET Row
           /\ CanAdd(work, new)
           /\ \A row \in new : row.stage = PITCH
           /\ \A x \in Without(work, PITCH, STORYTELLING, stories) :
                 \E row \in new : row.stage = PITCH /\ row.refs[STORYTELLING] = {x}
<1> DEFINE stage  == PITCH
           cases  == of_stage(work, BUSINESS_CASE)
           inputs(story) == [NoRefs EXCEPT ![SWOT_ERRC_CYCLE] = work[story].refs[SWOT_ERRC_CYCLE],
                                           ![TEAM_INFO] = {}, ![BUSINESS_CASE] = cases]
           others == [story \in stories |-> inputs(story)]
<1>1. stage \in AfterCanvas /\ stage \in Followers /\ Source[stage] = STORYTELLING
  BY StageValues DEF AfterCanvas, Followers
<1>2. cases \in SUBSET Nat /\ stories \in SUBSET DOMAIN work
  BY RowsTyped DEF of_stage
<1>3. new = MissingWith(work, stage, Source[stage], stories, others)
  <2>1. shared(work, BUSINESS_CASE, wanted) = cases /\ shared(work, TEAM_INFO, wanted) = {}
    BY SharedRows DEF Optional
  <2>2. new = UNION {Missing(work, PITCH, STORYTELLING, {story}, inputs(story)) : story \in stories}
    BY <2>1 DEF MissingPitches
  <2>3. \A story \in stories : others[story] = inputs(story)
    OBVIOUS
  <2> DEFINE made(story) == NewRow(PITCH, 0, [others[story] EXCEPT ![STORYTELLING] = {story}])
             left        == Without(work, PITCH, STORYTELLING, stories)
             one(story)  == Missing(work, PITCH, STORYTELLING, {story}, inputs(story))
  <2> HIDE DEF inputs, others
  <2>4. \A story \in stories : one(story) = IF story \in left THEN {made(story)} ELSE {}
    <3> TAKE story \in stories
    <3>1. Without(work, PITCH, STORYTELLING, {story}) = IF story \in left THEN {story} ELSE {}
      BY DEF Without
    <3>2. made(story) = NewRow(PITCH, 0, [inputs(story) EXCEPT ![STORYTELLING] = {story}])
      BY <2>3
    <3> HIDE DEF made
    <3> QED
      BY <3>1, <3>2 DEF Missing
  <2>5. MissingWith(work, PITCH, STORYTELLING, stories, others) = {made(s) : s \in left}
    BY DEF MissingWith
  <2>6. new = UNION {one(story) : story \in stories}
    BY <2>2
  <2>7. left \subseteq stories
    BY DEF Without
  <2> HIDE DEF made, left, one
  <2>8. new = {made(s) : s \in left}
    BY <2>4, <2>6, <2>7
  <2>9. new = MissingWith(work, PITCH, STORYTELLING, stories, others)
    BY <2>5, <2>8
  <2> QED
    BY <1>1, <2>9
<1> HIDE DEF cases
<1>4. \A story \in stories :
         LET refs == others[story]
         IN  /\ refs \in [Stage -> SUBSET Nat]
             /\ refs[SWOT_ERRC_CYCLE] = work[story].refs[SWOT_ERRC_CYCLE]
             /\ refs[BUSINESS_CASE] = cases
             /\ \A dep \in Stage \ {SWOT_ERRC_CYCLE, BUSINESS_CASE} : refs[dep] = {}
  <2> TAKE story \in stories
  <2>1. work[story].refs[SWOT_ERRC_CYCLE] \in SUBSET Nat
    BY <1>2, RowsTyped DEF Row, Stage
  <2> QED
    BY <1>2, <2>1 DEF NoRefs, Stage
<1>5. others \in [stories -> [Stage -> SUBSET Nat]]
  BY <1>4
<1> HIDE DEF others, stage
<1>6. Follow(new, work, stage, stories, others)
  BY <1>1, <1>2, <1>3, <1>5, MissingRows
<1>7. \A id \in stories, dep \in Stage : \A y \in others[id][dep] :
         y \in DOMAIN work /\ work[y].stage = dep /\ Depth[dep] < Depth[stage]
  <2> TAKE id \in stories, dep \in Stage
  <2>1. CASE dep = SWOT_ERRC_CYCLE
    <3>1. others[id][dep] = work[id].refs[SWOT_ERRC_CYCLE] /\ SWOT_ERRC_CYCLE \in Stage
      BY <2>1, <1>4 DEF Stage
    <3>2. \A y \in work[id].refs[SWOT_ERRC_CYCLE] : y \in DOMAIN work /\ work[y].stage = SWOT_ERRC_CYCLE
      BY <1>2, <3>1 DEF WellFormed, GroundedRefs
    <3> QED
      BY <2>1, <3>1, <3>2, StageValues DEF stage
  <2>2. CASE dep = BUSINESS_CASE
    BY <2>2, <1>4, StageValues DEF cases, of_stage, stage
  <2>3. CASE dep \notin {SWOT_ERRC_CYCLE, BUSINESS_CASE}
    BY <2>3, <1>4
  <2> QED
    BY <2>1, <2>2, <2>3
<1>8. /\ \A id \in stories : /\ others[id][BUSINESS_CASE] = of_stage(work, BUSINESS_CASE)
                             /\ others[id][SWOT_ERRC_CYCLE] = work[id].refs[SWOT_ERRC_CYCLE]
      /\ stage # SWOT_ERRC_CYCLE
  BY <1>4 DEF cases, stage
<1>9. stories \in SUBSET of_stage(work, Source[stage])
  BY <1>1
<1>10. /\ IsFiniteSet(new) /\ new \in SUBSET Row
       /\ CanAdd(work, new)
       /\ \A row \in new : row.stage = stage
  BY <1>1, <1>6, <1>7, <1>8, <1>9, FollowFits
<1>11. \A x \in Without(work, stage, Source[stage], stories) :
          \E row \in new : row.stage = stage /\ row.refs[Source[stage]] = {x}
  BY <1>6 DEF Follow
<1> QED
  BY <1>1, <1>10, <1>11 DEF stage

-----------------------------------------------------------------------------

\* What growth leaves as it was: the rows that were there, and which of them are DONE.
Keeps(work, grown) ==
    /\ DOMAIN work \subseteq DOMAIN grown
    /\ \A x \in DOMAIN work : grown[x] = work[x]
    /\ \A stage \in Stage : Done(grown, stage) = Done(work, stage)

\* One loop of the planner: Add, of rows that may be added.
LEMMA GrowOnce ==
    ASSUME NEW work, NEW wanted, WellFormed(work, wanted),
           NEW new, IsFiniteSet(new), new \in SUBSET Row, CanAdd(work, new),
           NEW grown, grown = Add(work, new)
    PROVE  Extends(grown, work, new) /\ WellFormed(grown, wanted) /\ Keeps(work, grown)
<1>1. Extends(grown, work, new)
  BY RowsTyped, AddExtends
<1>2. WellFormed(grown, wanted)
  BY <1>1, GrowthKeepsForm
<1>3. \A stage \in Stage : Done(grown, stage) = Done(work, stage)
  BY <1>1, GrowthKeepsComplete
<1> QED
  BY <1>1, <1>2, <1>3 DEF Keeps, Extends

\* A project has at most one patterns row.
LEMMA OnePatterns ==
    ASSUME NEW work, NEW wanted, WellFormed(work, wanted),
           NEW x \in of_stage(work, PATTERNS), NEW y \in of_stage(work, PATTERNS)
    PROVE  x = y
<1>1. /\ x \in DOMAIN work /\ work[x].stage = PATTERNS
      /\ y \in DOMAIN work /\ work[y].stage = PATTERNS
  BY DEF of_stage
<1>2. SameKey(work[x], work[y])
  BY <1>1, StageValues DEF WellFormed, Sourced, HasSource, SameKey
<1> QED
  BY <1>1, <1>2 DEF WellFormed, Distinct

\* The DONE rows of the two stages there is one row of.
LEMMA DoneOnes ==
    ASSUME NEW work, NEW wanted, WellFormed(work, wanted)
    PROVE  /\ Done(work, BRIEF) # {} => work[1].done /\ First(Done(work, BRIEF)) = 1
           /\ Done(work, BRIEF) = {} => ~work[1].done
           /\ Done(work, PATTERNS) # {} => First(Done(work, PATTERNS)) \in Done(work, PATTERNS)
<1>1. \A x \in Done(work, BRIEF) : x = 1
  BY DEF Done, of_stage, WellFormed, OneBrief
<1>2. 1 \in DOMAIN work /\ work[1].stage = BRIEF /\ 1 \in Nat
  BY DEF WellFormed, OneBrief
<1>3. Done(work, BRIEF) # {} => work[1].done /\ First(Done(work, BRIEF)) = 1
  <2> SUFFICES ASSUME Done(work, BRIEF) # {} PROVE work[1].done /\ First(Done(work, BRIEF)) = 1
    OBVIOUS
  <2>1. Done(work, BRIEF) = {1} /\ work[1].done
    BY <1>1 DEF Done
  <2>2. Done(work, BRIEF) \in SUBSET Nat
    BY <2>1, <1>2
  <2> DEFINE id == 1
  <2>3. Done(work, BRIEF) = {id}
    BY <2>1
  <2> HIDE DEF id
  <2>4. First(Done(work, BRIEF)) = id
    BY <2>2, <2>3, OneId
  <2> QED
    BY <2>1, <2>4 DEF id
<1>4. Done(work, BRIEF) = {} => ~work[1].done
  BY <1>2 DEF Done, of_stage
<1>5. Done(work, PATTERNS) # {} => First(Done(work, PATTERNS)) \in Done(work, PATTERNS)
  <2> SUFFICES ASSUME NEW x \in Done(work, PATTERNS)
               PROVE  First(Done(work, PATTERNS)) \in Done(work, PATTERNS)
    OBVIOUS
  <2>1. \A y \in Done(work, PATTERNS) : y = x
    BY OnePatterns DEF Done
  <2>2. Done(work, PATTERNS) = {x} /\ Done(work, PATTERNS) \in SUBSET Nat
    BY <2>1, RowsTyped DEF Done
  <2>3. First(Done(work, PATTERNS)) = x
    BY <2>2, OneId
  <2> QED
    BY <2>3
<1> QED
  BY <1>3, <1>4, <1>5

\* expand_after_brief: every segment has its map, every map its two rows, and there is a patterns row.
LEMMA AfterBriefComplete ==
    ASSUME NEW work, NEW wanted, WellFormed(work, wanted),
           TalesComplete(work), PitchesComplete(work),
           NEW brief \in DOMAIN work, work[brief].stage = BRIEF,
           NEW grown, grown = expand_after_brief(work, brief)
    PROVE  /\ WellFormed(grown, wanted) /\ Keeps(work, grown)
           /\ MapsComplete(grown) /\ FanOutComplete(grown) /\ PatternsComplete(grown)
           /\ TalesComplete(grown) /\ PitchesComplete(grown)
<1> DEFINE maps      == MissingMaps(work, brief)
           withMaps  == Add(work, maps)
           fans      == MissingFanOut(withMaps)
           fannedOut == Add(withMaps, fans)
           patterns  == MissingPatterns(fannedOut)
<1>1. grown = Add(fannedOut, patterns)
  BY DEF expand_after_brief
<1>2. /\ IsFiniteSet(maps) /\ maps \in SUBSET Row /\ CanAdd(work, maps)
      /\ \A row \in maps : row.stage = EMPATHY_MAP
      /\ \A k \in 0..(MAX_SEGMENTS - 1) : k < work[brief].segments =>
            \/ \E x \in of_stage(work, EMPATHY_MAP) : work[x].index = k
            \/ \E row \in maps : row.stage = EMPATHY_MAP /\ row.index = k
  BY MapsFit
<1> HIDE DEF maps
<1>3. Extends(withMaps, work, maps) /\ WellFormed(withMaps, wanted) /\ Keeps(work, withMaps)
  BY <1>2, GrowOnce
<1> HIDE DEF withMaps
<1>4. TalesComplete(withMaps) /\ PitchesComplete(withMaps)
  BY <1>2, <1>3, GrowthKeepsComplete
<1>5. MapsComplete(withMaps)
  <2>1. brief = 1 /\ withMaps[1] = work[brief]
    BY <1>3 DEF WellFormed, OneBrief, Keeps
  <2> SUFFICES ASSUME NEW k \in 0..(MAX_SEGMENTS - 1), k < work[brief].segments
               PROVE  \E x \in of_stage(withMaps, EMPATHY_MAP) : withMaps[x].index = k
    BY <2>1 DEF MapsComplete
  <2>2. CASE \E x \in of_stage(work, EMPATHY_MAP) : work[x].index = k
    BY <2>2, <1>3, GrownStages DEF Keeps, of_stage
  <2>3. CASE \E row \in maps : row.stage = EMPATHY_MAP /\ row.index = k
    BY <2>3, <1>3 DEF Extends, of_stage
  <2> QED
    BY <1>2, <2>2, <2>3
<1>6. /\ IsFiniteSet(fans) /\ fans \in SUBSET Row /\ CanAdd(withMaps, fans)
      /\ \A row \in fans : row.stage \in FanOut
      /\ \A stage \in FanOut :
            \A x \in Without(withMaps, stage, EMPATHY_MAP, of_stage(withMaps, EMPATHY_MAP)) :
               \E row \in fans : row.stage = stage /\ row.refs[EMPATHY_MAP] = {x}
  BY <1>3, FanOutFits
<1> HIDE DEF fans
<1>7. Extends(fannedOut, withMaps, fans) /\ WellFormed(fannedOut, wanted) /\ Keeps(withMaps, fannedOut)
  BY <1>3, <1>6, GrowOnce
<1> HIDE DEF fannedOut
<1>8. MapsComplete(fannedOut) /\ TalesComplete(fannedOut) /\ PitchesComplete(fannedOut)
  BY <1>3, <1>4, <1>5, <1>6, <1>7, GrowthKeepsComplete DEF FanOut
<1>9. FanOutComplete(fannedOut)
  <2>1. of_stage(fannedOut, EMPATHY_MAP) = of_stage(withMaps, EMPATHY_MAP)
    BY <1>6, <1>7, GrownStages DEF FanOut
  <2> SUFFICES ASSUME NEW stage \in FanOut
               PROVE  \A x \in of_stage(withMaps, EMPATHY_MAP) :
                         with_ref(fannedOut, stage, EMPATHY_MAP, x) # {}
    BY <2>1 DEF FanOutComplete
  <2>2. \A x \in Without(withMaps, stage, EMPATHY_MAP, of_stage(withMaps, EMPATHY_MAP)) :
           \E row \in fans : row.stage = stage /\ row.refs[EMPATHY_MAP] = {x}
    BY <1>6
  <2> QED
    BY <1>7, <2>2, NoneLeft
<1>10. /\ IsFiniteSet(patterns) /\ patterns \in SUBSET Row /\ CanAdd(fannedOut, patterns)
       /\ \A row \in patterns : row.stage = PATTERNS
       /\ of_stage(fannedOut, PATTERNS) = {} => \E row \in patterns : row.stage = PATTERNS
  BY <1>7, PatternsFit
<1> HIDE DEF patterns
<1>11. Extends(grown, fannedOut, patterns) /\ WellFormed(grown, wanted) /\ Keeps(fannedOut, grown)
  BY <1>1, <1>7, <1>10, GrowOnce
<1>12. /\ MapsComplete(grown) /\ FanOutComplete(grown)
       /\ TalesComplete(grown) /\ PitchesComplete(grown)
  BY <1>7, <1>8, <1>9, <1>10, <1>11, GrowthKeepsComplete
<1>13. PatternsComplete(grown)
  <2>1. of_stage(grown, PATTERNS) # {}
    <3>1. CASE of_stage(fannedOut, PATTERNS) = {}
      BY <3>1, <1>10, <1>11 DEF Extends, of_stage
    <3>2. CASE of_stage(fannedOut, PATTERNS) # {}
      BY <3>2, <1>11, GrownStages
    <3> QED
      BY <3>1, <3>2
  <2> QED
    BY <2>1 DEF PatternsComplete
<1>14. Keeps(work, grown)
  BY <1>3, <1>7, <1>11 DEF Keeps
<1> QED
  BY <1>11, <1>12, <1>13, <1>14

\* expand_after_patterns: every group has its canvas.
LEMMA AfterPatternsComplete ==
    ASSUME NEW work, NEW wanted, WellFormed(work, wanted),
           MapsComplete(work), FanOutComplete(work), PatternsComplete(work),
           TalesComplete(work), PitchesComplete(work),
           NEW patterns \in of_stage(work, PATTERNS),
           NEW grown, grown = expand_after_patterns(work, patterns)
    PROVE  /\ WellFormed(grown, wanted) /\ Keeps(work, grown)
           /\ MapsComplete(grown) /\ FanOutComplete(grown) /\ PatternsComplete(grown)
           /\ CanvasesComplete(grown)
           /\ TalesComplete(grown) /\ PitchesComplete(grown)
<1> DEFINE new == MissingCanvases(work, patterns)
<1>1. grown = Add(work, new)
  BY DEF expand_after_patterns
<1>2. /\ IsFiniteSet(new) /\ new \in SUBSET Row /\ CanAdd(work, new)
      /\ \A row \in new : row.stage = CANVAS
      /\ \A k \in 1..Len(work[patterns].groups) :
            \/ \E x \in of_stage(work, CANVAS) : work[x].index = k - 1
            \/ \E row \in new : row.stage = CANVAS /\ row.index = k - 1
  BY CanvasesFit
<1> HIDE DEF new
<1>3. Extends(grown, work, new) /\ WellFormed(grown, wanted) /\ Keeps(work, grown)
  BY <1>1, <1>2, GrowOnce
<1>4. /\ MapsComplete(grown) /\ FanOutComplete(grown) /\ PatternsComplete(grown)
      /\ TalesComplete(grown) /\ PitchesComplete(grown)
  BY <1>2, <1>3, GrowthKeepsComplete
<1>5. CanvasesComplete(grown)
  <2> SUFFICES ASSUME NEW x \in Done(grown, PATTERNS), NEW k \in 1..Len(grown[x].groups)
               PROVE  \E canvas \in of_stage(grown, CANVAS) : grown[canvas].index = k - 1
    BY DEF CanvasesComplete
  <2>1. x \in of_stage(work, PATTERNS) /\ grown[x] = work[x]
    BY <1>3 DEF Keeps, Done, of_stage, Stage
  <2>2. x = patterns
    BY <2>1, OnePatterns
  <2>3. CASE \E y \in of_stage(work, CANVAS) : work[y].index = k - 1
    BY <2>3, <1>3, GrownStages DEF Keeps, of_stage
  <2>4. CASE \E row \in new : row.stage = CANVAS /\ row.index = k - 1
    BY <2>4, <1>3 DEF Extends, of_stage
  <2> QED
    BY <1>2, <2>1, <2>2, <2>3, <2>4
<1> QED
  BY <1>3, <1>4, <1>5

\* The one row of a stage that follows a row is the first.
LEMMA FirstFollower ==
    ASSUME NEW work, NEW wanted, WellFormed(work, wanted),
           NEW stage \in Followers, NEW id,
           NEW x \in with_ref(work, stage, Source[stage], id)
    PROVE  First(with_ref(work, stage, Source[stage], id)) = x
<1>1. with_ref(work, stage, Source[stage], id) = {x}
  BY OneFollower
<1>2. with_ref(work, stage, Source[stage], id) \in SUBSET Nat
  BY RowsTyped DEF with_ref, of_stage
<1> QED
  BY <1>1, <1>2, OneId

FirstFollowersOf(work, stage, ids) == {First(with_ref(work, stage, Source[stage], id)) : id \in ids}

\* The first followers of some rows that all have one are rows of their stage.
LEMMA FirstFollowers ==
    ASSUME NEW work, NEW wanted, WellFormed(work, wanted),
           NEW stage \in Followers, NEW ids,
           \A id \in ids : with_ref(work, stage, Source[stage], id) # {},
           NEW found, found = FirstFollowersOf(work, stage, ids)
    PROVE  /\ found \in SUBSET of_stage(work, stage)
           /\ \A id \in ids : with_ref(work, stage, Source[stage], id) \subseteq found
<1>1. \A id \in ids : \A x \in with_ref(work, stage, Source[stage], id) :
         First(with_ref(work, stage, Source[stage], id)) = x
  BY FirstFollower
<1>2. \A id \in ids : \A x \in with_ref(work, stage, Source[stage], id) : x \in of_stage(work, stage)
  BY DEF with_ref
<1> QED
  BY <1>1, <1>2 DEF FirstFollowersOf

\* expand_after_canvas, for the canvases that are DONE: each has its cycle, tales and pitch.
LEMMA AfterCanvasComplete ==
    ASSUME NEW work, NEW wanted, WellFormed(work, wanted),
           MapsComplete(work), FanOutComplete(work), PatternsComplete(work), CanvasesComplete(work),
           TalesComplete(work), PitchesComplete(work),
           NEW canvases, canvases = Done(work, CANVAS),
           NEW grown, grown = expand_after_canvas(work, canvases, wanted)
    PROVE  WellFormed(grown, wanted) /\ Complete(grown)
<1> DEFINE newCycles  == MissingCycles(work, canvases, wanted)
           withCycles == Add(work, newCycles)
           cycles     == {First(with_ref(withCycles, SWOT_ERRC_CYCLE, CANVAS, canvas)) : canvas \in canvases}
           newTales   == MissingTales(withCycles, cycles)
           withTales  == Add(withCycles, newTales)
           stories    == {First(with_ref(withTales, STORYTELLING, SWOT_ERRC_CYCLE, cycle)) : cycle \in cycles}
           newPitches == MissingPitches(withTales, stories, wanted)
<1>1. grown = Add(withTales, newPitches)
  BY DEF expand_after_canvas
<1>2. /\ IsFiniteSet(newCycles) /\ newCycles \in SUBSET Row /\ CanAdd(work, newCycles)
      /\ \A row \in newCycles : row.stage = SWOT_ERRC_CYCLE /\ FollowsOne(row, SWOT_ERRC_CYCLE, canvases)
      /\ \A x \in Without(work, SWOT_ERRC_CYCLE, CANVAS, canvases) :
            \E row \in newCycles : row.stage = SWOT_ERRC_CYCLE /\ row.refs[CANVAS] = {x}
  <2>1. canvases \in SUBSET of_stage(work, CANVAS)
    BY DEF Done
  <2> QED
    BY <2>1, CyclesFit
<1> HIDE DEF newCycles
<1>3. /\ Extends(withCycles, work, newCycles) /\ WellFormed(withCycles, wanted) /\ Keeps(work, withCycles)
  BY <1>2, GrowOnce
<1> HIDE DEF withCycles
<1>4. /\ MapsComplete(withCycles) /\ FanOutComplete(withCycles) /\ PatternsComplete(withCycles)
      /\ CanvasesComplete(withCycles) /\ PitchesComplete(withCycles)
  BY <1>2, <1>3, GrowthKeepsComplete
<1>5. \A canvas \in canvases : with_ref(withCycles, SWOT_ERRC_CYCLE, CANVAS, canvas) # {}
  BY <1>2, <1>3, NoneLeft
<1>6. CyclesComplete(withCycles)
  BY <1>3, <1>5 DEF Keeps, CyclesComplete, Stage
<1>7. /\ cycles \in SUBSET of_stage(withCycles, SWOT_ERRC_CYCLE)
      /\ \A canvas \in canvases : with_ref(withCycles, SWOT_ERRC_CYCLE, CANVAS, canvas) \subseteq cycles
  <2> DEFINE stage == SWOT_ERRC_CYCLE
  <2>1. stage \in Followers /\ Source[stage] = CANVAS
    BY StageValues DEF Followers
  <2>2. \A canvas \in canvases : with_ref(withCycles, stage, Source[stage], canvas) # {}
    BY <1>5, <2>1
  <2>3. cycles = FirstFollowersOf(withCycles, stage, canvases)
    BY <2>1 DEF FirstFollowersOf
  <2> HIDE DEF stage, cycles
  <2>4. /\ cycles \in SUBSET of_stage(withCycles, stage)
        /\ \A canvas \in canvases : with_ref(withCycles, stage, Source[stage], canvas) \subseteq cycles
    BY <1>3, <2>1, <2>2, <2>3, FirstFollowers
  <2> QED
    BY <2>1, <2>4 DEF stage
<1> HIDE DEF cycles
<1>8. \A x \in of_stage(withCycles, SWOT_ERRC_CYCLE) : x \in of_stage(work, SWOT_ERRC_CYCLE) \/ x \in cycles
  <2> SUFFICES ASSUME NEW x \in of_stage(withCycles, SWOT_ERRC_CYCLE), x \notin of_stage(work, SWOT_ERRC_CYCLE)
               PROVE  x \in cycles
    OBVIOUS
  <2>1. withCycles[x] \in newCycles
    BY <1>3, GrownStages
  <2>2. PICK canvas \in canvases : withCycles[x].refs[CANVAS] = {canvas}
    BY <1>2, <2>1, StageValues DEF FollowsOne
  <2>3. x \in with_ref(withCycles, SWOT_ERRC_CYCLE, CANVAS, canvas)
    BY <2>2 DEF with_ref
  <2> QED
    BY <1>7, <2>3
<1>9. /\ IsFiniteSet(newTales) /\ newTales \in SUBSET Row /\ CanAdd(withCycles, newTales)
      /\ \A row \in newTales : /\ row.stage \in {STORYTELLING, FUTURE_SCENARIO}
                               /\ FollowsOne(row, row.stage, cycles)
      /\ \A stage \in {STORYTELLING, FUTURE_SCENARIO} :
            \A x \in Without(withCycles, stage, SWOT_ERRC_CYCLE, cycles) :
               \E row \in newTales : row.stage = stage /\ row.refs[SWOT_ERRC_CYCLE] = {x}
  BY <1>3, <1>7, TalesFit
<1> HIDE DEF newTales
<1>10. /\ Extends(withTales, withCycles, newTales) /\ WellFormed(withTales, wanted)
       /\ Keeps(withCycles, withTales)
  BY <1>3, <1>9, GrowOnce
<1> HIDE DEF withTales
<1>11. /\ MapsComplete(withTales) /\ FanOutComplete(withTales) /\ PatternsComplete(withTales)
       /\ CanvasesComplete(withTales) /\ CyclesComplete(withTales)
  BY <1>3, <1>4, <1>6, <1>9, <1>10, GrowthKeepsComplete
<1>12. \A stage \in {STORYTELLING, FUTURE_SCENARIO} :
          \A cycle \in cycles : with_ref(withTales, stage, SWOT_ERRC_CYCLE, cycle) # {}
  <2> DEFINE tales == {STORYTELLING, FUTURE_SCENARIO}
  <2> TAKE stage \in tales
  <2>1. Source[stage] = SWOT_ERRC_CYCLE
    BY StageValues
  <2>2. \A x \in Without(withCycles, stage, Source[stage], cycles) :
           \E row \in newTales : row.stage = stage /\ row.refs[Source[stage]] = {x}
    <3>1. \A x \in Without(withCycles, stage, SWOT_ERRC_CYCLE, cycles) :
             \E row \in newTales : row.stage = stage /\ row.refs[SWOT_ERRC_CYCLE] = {x}
      BY <1>9
    <3> HIDE DEF tales
    <3> QED
      BY <2>1, <3>1, Zenon
  <2> HIDE DEF tales
  <2>3. \A cycle \in cycles : with_ref(withTales, stage, Source[stage], cycle) # {}
    BY <1>10, <2>2, NoneLeft
  <2> QED
    BY <2>1, <2>3
<1>13. TalesComplete(withTales)
  <2> SUFFICES ASSUME NEW x \in of_stage(withTales, SWOT_ERRC_CYCLE), NEW stage \in {STORYTELLING, FUTURE_SCENARIO}
               PROVE  with_ref(withTales, stage, SWOT_ERRC_CYCLE, x) # {}
    BY DEF TalesComplete
  <2>1. x \in of_stage(withCycles, SWOT_ERRC_CYCLE)
    <3>1. \A row \in newTales : row.stage # SWOT_ERRC_CYCLE
      BY <1>9
    <3> QED
      BY <3>1, <1>10, GrownStages
  <2>2. CASE x \in cycles
    BY <2>2, <1>12
  <2>3. CASE x \in of_stage(work, SWOT_ERRC_CYCLE)
    <3>1. with_ref(work, stage, SWOT_ERRC_CYCLE, x) # {}
      BY <2>3 DEF TalesComplete
    <3>2. with_ref(withCycles, stage, SWOT_ERRC_CYCLE, x) # {}
      BY <3>1, <1>3, GrownStages
    <3> QED
      BY <3>2, <1>10, GrownStages
  <2> QED
    BY <2>1, <2>2, <2>3, <1>8
<1>14. /\ stories \in SUBSET of_stage(withTales, STORYTELLING)
       /\ \A cycle \in cycles : with_ref(withTales, STORYTELLING, SWOT_ERRC_CYCLE, cycle) \subseteq stories
  <2> DEFINE stage == STORYTELLING
  <2>1. stage \in Followers /\ Source[stage] = SWOT_ERRC_CYCLE
    BY StageValues DEF Followers
  <2>2. \A cycle \in cycles : with_ref(withTales, stage, Source[stage], cycle) # {}
    BY <1>12, <2>1
  <2>3. stories = FirstFollowersOf(withTales, stage, cycles)
    BY <2>1 DEF FirstFollowersOf
  <2> HIDE DEF stage, stories
  <2>4. /\ stories \in SUBSET of_stage(withTales, stage)
        /\ \A cycle \in cycles : with_ref(withTales, stage, Source[stage], cycle) \subseteq stories
    BY <1>10, <2>1, <2>2, <2>3, FirstFollowers
  <2> QED
    BY <2>1, <2>4 DEF stage
<1> HIDE DEF stories
<1>15. \A x \in of_stage(withTales, STORYTELLING) : x \in of_stage(withCycles, STORYTELLING) \/ x \in stories
  <2> SUFFICES ASSUME NEW x \in of_stage(withTales, STORYTELLING), x \notin of_stage(withCycles, STORYTELLING)
               PROVE  x \in stories
    OBVIOUS
  <2>1. withTales[x] \in newTales /\ withTales[x].stage = STORYTELLING
    BY <1>10, GrownStages
  <2>2. PICK cycle \in cycles : withTales[x].refs[SWOT_ERRC_CYCLE] = {cycle}
    <3>1. FollowsOne(withTales[x], STORYTELLING, cycles)
      BY <1>9, <2>1
    <3> QED
      BY <3>1, StageValues DEF FollowsOne
  <2>3. x \in with_ref(withTales, STORYTELLING, SWOT_ERRC_CYCLE, cycle)
    BY <2>2 DEF with_ref
  <2> QED
    BY <1>14, <2>3
<1>16. /\ IsFiniteSet(newPitches) /\ newPitches \in SUBSET Row /\ CanAdd(withTales, newPitches)
       /\ \A row \in newPitches : row.stage = PITCH
       /\ \A x \in Without(withTales, PITCH, STORYTELLING, stories) :
             \E row \in newPitches : row.stage = PITCH /\ row.refs[STORYTELLING] = {x}
  BY <1>10, <1>14, PitchesFit
<1> HIDE DEF newPitches
<1>17. Extends(grown, withTales, newPitches) /\ WellFormed(grown, wanted) /\ Keeps(withTales, grown)
  BY <1>1, <1>10, <1>16, GrowOnce
<1>18. /\ MapsComplete(grown) /\ FanOutComplete(grown) /\ PatternsComplete(grown)
       /\ CanvasesComplete(grown) /\ CyclesComplete(grown) /\ TalesComplete(grown)
  BY <1>10, <1>11, <1>13, <1>16, <1>17, GrowthKeepsComplete
<1>19. PitchesComplete(grown)
  <2>1. \A story \in stories : with_ref(grown, PITCH, STORYTELLING, story) # {}
    BY <1>16, <1>17, NoneLeft
  <2>2. of_stage(grown, STORYTELLING) = of_stage(withTales, STORYTELLING)
    <3>1. \A row \in newPitches : row.stage # STORYTELLING
      BY <1>16
    <3> QED
      BY <3>1, <1>17, GrownStages
  <2> SUFFICES ASSUME NEW x \in of_stage(withCycles, STORYTELLING)
               PROVE  with_ref(grown, PITCH, STORYTELLING, x) # {}
    BY <1>15, <2>1, <2>2 DEF PitchesComplete
  <2>3. with_ref(withCycles, PITCH, STORYTELLING, x) # {}
    BY <1>4 DEF PitchesComplete
  <2>4. with_ref(withTales, PITCH, STORYTELLING, x) # {}
    BY <2>3, <1>10, GrownStages
  <2> QED
    BY <2>4, <1>17, GrownStages
<1> QED
  BY <1>17, <1>18, <1>19 DEF Complete

\* expand_rows restores completeness, whatever was missing between the rows of a result and theirs.
LEMMA Expanded ==
    ASSUME NEW work, NEW wanted, WellFormed(work, wanted),
           FanOutComplete(work), TalesComplete(work), PitchesComplete(work)
    PROVE  WellFormed(expand_rows(work, wanted), wanted) /\ Complete(expand_rows(work, wanted))
<1> DEFINE afterBrief    == IF Done(work, BRIEF) = {} THEN work
                            ELSE expand_after_brief(work, First(Done(work, BRIEF)))
           afterPatterns == IF Done(work, PATTERNS) = {} THEN afterBrief
                            ELSE expand_after_patterns(afterBrief, First(Done(work, PATTERNS)))
           grown         == expand_after_canvas(afterPatterns, Done(work, CANVAS), wanted)
<1>1. expand_rows(work, wanted) = grown
  BY DEF expand_rows
<1>2. /\ WellFormed(afterBrief, wanted) /\ Keeps(work, afterBrief)
      /\ MapsComplete(afterBrief) /\ FanOutComplete(afterBrief) /\ PatternsComplete(afterBrief)
      /\ TalesComplete(afterBrief) /\ PitchesComplete(afterBrief)
  <2>1. CASE Done(work, BRIEF) = {}
    <3>1. ~work[1].done
      BY <2>1, DoneOnes
    <3> QED
      BY <2>1, <3>1 DEF MapsComplete, PatternsComplete, Keeps
  <2>2. CASE Done(work, BRIEF) # {}
    <3> DEFINE brief == First(Done(work, BRIEF))
    <3>1. brief \in DOMAIN work /\ work[brief].stage = BRIEF
      BY <2>2, DoneOnes DEF WellFormed, OneBrief
    <3>2. afterBrief = expand_after_brief(work, brief)
      BY <2>2
    <3> HIDE DEF brief, afterBrief
    <3> QED
      BY <3>1, <3>2, AfterBriefComplete
  <2> QED
    BY <2>1, <2>2
<1> HIDE DEF afterBrief
<1>3. /\ WellFormed(afterPatterns, wanted) /\ Keeps(work, afterPatterns)
      /\ MapsComplete(afterPatterns) /\ FanOutComplete(afterPatterns) /\ PatternsComplete(afterPatterns)
      /\ CanvasesComplete(afterPatterns)
      /\ TalesComplete(afterPatterns) /\ PitchesComplete(afterPatterns)
  <2>1. CASE Done(work, PATTERNS) = {}
    <3>1. Done(afterBrief, PATTERNS) = {}
      BY <2>1, <1>2 DEF Keeps, Stage
    <3> QED
      BY <2>1, <3>1, <1>2 DEF CanvasesComplete
  <2>2. CASE Done(work, PATTERNS) # {}
    <3> DEFINE patterns == First(Done(work, PATTERNS))
    <3>1. patterns \in Done(work, PATTERNS) /\ Done(work, PATTERNS) = Done(afterBrief, PATTERNS)
      BY <2>2, <1>2, DoneOnes DEF Keeps, Stage
    <3>2. afterPatterns = expand_after_patterns(afterBrief, patterns)
      BY <2>2
    <3> HIDE DEF patterns, afterPatterns
    <3>3. patterns \in of_stage(afterBrief, PATTERNS)
      BY <3>1 DEF Done
    <3>4. Keeps(afterBrief, afterPatterns)
      BY <1>2, <3>2, <3>3, AfterPatternsComplete
    <3>5. Keeps(work, afterPatterns)
      BY <1>2, <3>4 DEF Keeps
    <3> QED
      BY <1>2, <3>2, <3>3, <3>5, AfterPatternsComplete
  <2> QED
    BY <2>1, <2>2
<1> HIDE DEF afterPatterns
<1>4. Done(work, CANVAS) = Done(afterPatterns, CANVAS)
  BY <1>3 DEF Keeps, Stage
<1>5. grown = expand_after_canvas(afterPatterns, Done(afterPatterns, CANVAS), wanted)
  BY <1>4
<1> HIDE DEF grown
<1> QED
  BY <1>1, <1>3, <1>5, AfterCanvasComplete

\* Where each of some rows has a row that draws from it, none is missing.
LEMMA NoneMissing ==
    ASSUME NEW work, NEW stage, NEW dep, NEW ids, NEW refs,
           \A id \in ids : with_ref(work, stage, dep, id) # {}
    PROVE  Missing(work, stage, dep, ids, refs) = {}
BY DEF Missing, Without

\* expand_rows has nothing to add to rows that are complete.
LEMMA Idle ==
    ASSUME NEW work, NEW wanted, WellFormed(work, wanted), Complete(work)
    PROVE  expand_rows(work, wanted) = work
<1>1. Add(work, {}) = work
  BY RowsTyped, AddNothing
<1>2. ASSUME NEW brief \in DOMAIN work, work[brief].stage = BRIEF, work[brief].done
      PROVE  expand_after_brief(work, brief) = work
  <2>1. brief = 1
    BY <1>2 DEF WellFormed, OneBrief
  <2>2. MissingMaps(work, brief) = {}
    <3>1. of_stage(work, EMPATHY_MAP) = with_ref(work, EMPATHY_MAP, BRIEF, brief)
      BY <1>2, MapsOfBrief
    <3>2. \A k \in 0..(MAX_SEGMENTS - 1) : k < work[brief].segments =>
             \E x \in with_ref(work, EMPATHY_MAP, BRIEF, brief) : work[x].index = k
      BY <1>2, <2>1, <3>1 DEF Complete, MapsComplete
    <3> QED
      BY <3>2 DEF MissingMaps
  <2>3. MissingFanOut(work) = {}
    <3> DEFINE maps == of_stage(work, EMPATHY_MAP)
    <3>1. \A stage \in FanOut : \A id \in maps : with_ref(work, stage, EMPATHY_MAP, id) # {}
      BY DEF Complete, FanOutComplete
    <3> HIDE DEF maps
    <3>2. /\ Missing(work, CUSTOMER_SCENARIO, EMPATHY_MAP, maps, NoRefs) = {}
          /\ Missing(work, IDEATION, EMPATHY_MAP, maps, NoRefs) = {}
      BY <3>1 DEF FanOut, Missing, Without
    <3> QED
      BY <3>2 DEF MissingFanOut, maps
  <2>4. MissingPatterns(work) = {}
    BY <1>2, <2>1 DEF Complete, PatternsComplete, MissingPatterns
  <2> QED
    BY <1>1, <2>2, <2>3, <2>4 DEF expand_after_brief
<1>3. ASSUME NEW patterns \in Done(work, PATTERNS)
      PROVE  expand_after_patterns(work, patterns) = work
  <2>1. of_stage(work, CANVAS) = with_ref(work, CANVAS, PATTERNS, patterns)
    BY CanvasesOfPatterns DEF Done
  <2>2. \A k \in 1..Len(work[patterns].groups) :
           \E x \in with_ref(work, CANVAS, PATTERNS, patterns) : work[x].index = k - 1
    BY <2>1 DEF Complete, CanvasesComplete
  <2>3. MissingCanvases(work, patterns) = {}
    BY <2>2 DEF MissingCanvases
  <2> QED
    BY <1>1, <2>3 DEF expand_after_patterns
<1>4. ASSUME NEW canvases, canvases = Done(work, CANVAS)
      PROVE  expand_after_canvas(work, canvases, wanted) = work
  <2> DEFINE cycles  == FirstFollowersOf(work, SWOT_ERRC_CYCLE, canvases)
             stories == FirstFollowersOf(work, STORYTELLING, cycles)
  <2>1. /\ cycles = {First(with_ref(work, SWOT_ERRC_CYCLE, CANVAS, canvas)) : canvas \in canvases}
        /\ stories = {First(with_ref(work, STORYTELLING, SWOT_ERRC_CYCLE, cycle)) : cycle \in cycles}
    BY StageValues DEF FirstFollowersOf
  <2>2. \A canvas \in canvases : with_ref(work, SWOT_ERRC_CYCLE, CANVAS, canvas) # {}
    BY <1>4 DEF Complete, CyclesComplete
  <2>3. MissingCycles(work, canvases, wanted) = {}
    BY <2>2, NoneMissing DEF MissingCycles
  <2>4. cycles \in SUBSET of_stage(work, SWOT_ERRC_CYCLE)
    <3> DEFINE stage == SWOT_ERRC_CYCLE
    <3>1. stage \in Followers /\ Source[stage] = CANVAS
      BY StageValues DEF Followers
    <3>2. \A canvas \in canvases : with_ref(work, stage, Source[stage], canvas) # {}
      BY <2>2, <3>1
    <3> HIDE DEF stage
    <3>3. FirstFollowersOf(work, stage, canvases) \in SUBSET of_stage(work, stage)
      BY <3>1, <3>2, FirstFollowers
    <3> QED
      BY <3>3 DEF stage
  <2> HIDE DEF cycles
  <2>5. \A cycle \in cycles : /\ with_ref(work, STORYTELLING, SWOT_ERRC_CYCLE, cycle) # {}
                              /\ with_ref(work, FUTURE_SCENARIO, SWOT_ERRC_CYCLE, cycle) # {}
    BY <2>4 DEF Complete, TalesComplete
  <2>6. MissingTales(work, cycles) = {}
    BY <2>5, NoneMissing DEF MissingTales
  <2>7. stories \in SUBSET of_stage(work, STORYTELLING)
    <3> DEFINE stage == STORYTELLING
    <3>1. stage \in Followers /\ Source[stage] = SWOT_ERRC_CYCLE
      BY StageValues DEF Followers
    <3>2. \A cycle \in cycles : with_ref(work, stage, Source[stage], cycle) # {}
      BY <2>5, <3>1
    <3> HIDE DEF stage
    <3>3. FirstFollowersOf(work, stage, cycles) \in SUBSET of_stage(work, stage)
      BY <3>1, <3>2, FirstFollowers
    <3> QED
      BY <3>3 DEF stage
  <2> HIDE DEF stories
  <2>8. \A story \in stories : with_ref(work, PITCH, STORYTELLING, story) # {}
    BY <2>7 DEF Complete, PitchesComplete
  <2>9. MissingPitches(work, stories, wanted) = {}
    <3> DEFINE inputs(story) == [NoRefs EXCEPT ![SWOT_ERRC_CYCLE] = work[story].refs[SWOT_ERRC_CYCLE],
                                               ![TEAM_INFO] = shared(work, TEAM_INFO, wanted),
                                               ![BUSINESS_CASE] = shared(work, BUSINESS_CASE, wanted)]
               one(story)    == Missing(work, PITCH, STORYTELLING, {story}, inputs(story))
    <3>1. MissingPitches(work, stories, wanted) = UNION {one(story) : story \in stories}
      BY DEF MissingPitches
    <3> HIDE DEF inputs
    <3>2. \A story \in stories : one(story) = {}
      BY <2>8 DEF Missing, Without
    <3> HIDE DEF one
    <3> QED
      BY <3>1, <3>2
  <2> DEFINE withCycles   == Add(work, MissingCycles(work, canvases, wanted))
             firstCycles  == {First(with_ref(withCycles, SWOT_ERRC_CYCLE, CANVAS, canvas)) : canvas \in canvases}
             withTales    == Add(withCycles, MissingTales(withCycles, firstCycles))
             firstStories == {First(with_ref(withTales, STORYTELLING, SWOT_ERRC_CYCLE, cycle)) : cycle \in firstCycles}
  <2>10. expand_after_canvas(work, canvases, wanted)
            = Add(withTales, MissingPitches(withTales, firstStories, wanted))
    BY DEF expand_after_canvas
  <2>11. withCycles = work
    BY <1>1, <2>3
  <2> HIDE DEF withCycles
  <2>12. firstCycles = cycles
    BY <2>1, <2>11
  <2> HIDE DEF firstCycles
  <2>13. withTales = work
    BY <1>1, <2>6, <2>11, <2>12
  <2> HIDE DEF withTales
  <2>14. firstStories = stories
    BY <2>1, <2>12, <2>13
  <2> HIDE DEF firstStories
  <2> QED
    BY <1>1, <2>9, <2>10, <2>13, <2>14
<1>5. Done(work, BRIEF) # {} => expand_after_brief(work, First(Done(work, BRIEF))) = work
  BY <1>2, DoneOnes DEF WellFormed, OneBrief
<1>6. Done(work, PATTERNS) # {} => expand_after_patterns(work, First(Done(work, PATTERNS))) = work
  BY <1>3, DoneOnes
<1> QED
  BY <1>4, <1>5, <1>6 DEF expand_rows

-----------------------------------------------------------------------------

\* The rows differ in status and artifacts only.
SameShape(work, other) ==
    /\ other \in Seq(Row) /\ DOMAIN other = DOMAIN work
    /\ \A x \in DOMAIN work : /\ other[x].stage = work[x].stage
                              /\ other[x].index = work[x].index
                              /\ other[x].refs = work[x].refs

\* All but two parts of the invariant are about the shape of the rows.
LEMMA ShapeKeepsForm ==
    ASSUME NEW work, NEW wanted, WellFormed(work, wanted), NEW other, SameShape(work, other)
    PROVE  /\ DoneBelow(other) /\ NamedMaps(other) => WellFormed(other, wanted)
           /\ FanOutComplete(work) => FanOutComplete(other)
           /\ TalesComplete(work) => TalesComplete(other)
           /\ PitchesComplete(work) => PitchesComplete(other)
<1>1. \A stage : of_stage(other, stage) = of_stage(work, stage)
  BY DEF SameShape, of_stage
<1>2. \A stage, dep, id : with_ref(other, stage, dep, id) = with_ref(work, stage, dep, id)
  BY <1>1 DEF SameShape, with_ref, of_stage
<1>3. OneBrief(other) /\ GroundedRefs(other)
  BY DEF SameShape, WellFormed, OneBrief, GroundedRefs
<1>4. Sourced(other)
  <2> SUFFICES ASSUME NEW x \in DOMAIN work PROVE HasSource(other[x])
    BY DEF SameShape, Sourced
  <2>1. HasSource(work[x])
    BY DEF WellFormed, Sourced
  <2>2. other[x].stage = work[x].stage /\ other[x].index = work[x].index /\ other[x].refs = work[x].refs
    BY DEF SameShape
  <2> QED
    BY <2>1, <2>2 DEF HasSource
<1>5. Distinct(other)
  BY DEF SameShape, WellFormed, Distinct, SameKey
<1>6. CanvasesWhole(other)
  <2> SUFFICES ASSUME NEW x \in of_stage(work, CANVAS), NEW stage \in FanOut
               PROVE  /\ other[x].refs[stage] =
                            {y \in of_stage(other, stage) :
                                other[y].refs[EMPATHY_MAP] \subseteq other[x].refs[EMPATHY_MAP]}
                      /\ \A map \in other[x].refs[EMPATHY_MAP] :
                            with_ref(other, stage, EMPATHY_MAP, map) # {}
    BY <1>1 DEF CanvasesWhole, CanvasWhole
  <2>1. CanvasWhole(work, work[x]) /\ other[x].refs = work[x].refs
    BY DEF WellFormed, CanvasesWhole, SameShape, of_stage
  <2>2. \A y \in of_stage(work, stage) : other[y].refs = work[y].refs
    BY DEF SameShape, of_stage
  <2> QED
    BY <1>1, <1>2, <2>1, <2>2 DEF CanvasWhole
<1>7. InputsTaken(other)
  <2> SUFFICES ASSUME NEW x \in DOMAIN work PROVE OptionalInputsTaken(other, other[x])
    BY DEF InputsTaken, SameShape
  <2>1. OptionalInputsTaken(work, work[x])
    BY DEF WellFormed, InputsTaken
  <2>2. \A y \in work[x].refs[STORYTELLING] : y \in DOMAIN work
    BY DEF WellFormed, GroundedRefs, Stage
  <2> QED
    BY <1>1, <2>1, <2>2 DEF SameShape, OptionalInputsTaken
<1>8. OptionalRows(other, wanted)
  BY <1>1 DEF WellFormed, OptionalRows
<1>9. DoneBelow(other) /\ NamedMaps(other) => WellFormed(other, wanted)
  BY <1>3, <1>4, <1>5, <1>6, <1>7, <1>8 DEF SameShape, WellFormed
<1> QED
  BY <1>1, <1>2, <1>9 DEF FanOutComplete, TalesComplete, PitchesComplete

\* A project starts with its brief and the optional rows the user enabled.
LEMMA InitHolds ==
    ASSUME Init
    PROVE  IInv
<1> DEFINE brief == NewRow(BRIEF, 0, NoRefs)
           first == Add(<<>>, {brief})
           asked == {BUSINESS_CASE, ENVIRONMENT_SCAN} \cap enabled
           made  == [stage \in asked |-> NewRow(stage, 0, RefTo(BRIEF, 1))]
           extra == {made[stage] : stage \in asked}
<1>1. enabled \subseteq Optional /\ rows = Add(first, extra) /\ asked = enabled
  BY DEF Init, only_generated_optional_stages, Generated, Optional, initial_rows
<1>2. /\ NoRefs \in [Stage -> SUBSET Nat] /\ \A dep \in Stage : NoRefs[dep] = {}
      /\ RefTo(BRIEF, 1) \in [Stage -> SUBSET Nat]
      /\ RefTo(BRIEF, 1)[BRIEF] = {1}
      /\ \A dep \in Stage \ {BRIEF} : RefTo(BRIEF, 1)[dep] = {}
  BY DEF NoRefs, RefTo, Stage
<1>3. /\ brief \in Row /\ brief.stage = BRIEF /\ brief.index = 0 /\ brief.refs = NoRefs
      /\ ~brief.done /\ brief.groups = <<>>
  <2>1. BRIEF \in Stage /\ 0 \in Nat
    BY DEF Stage
  <2> QED
    BY <1>2, <2>1, NewRowFields
<1>4. \A stage \in asked : LET row == made[stage]
                           IN  /\ row \in Row /\ row.stage = stage /\ row.index = 0
                               /\ row.refs = RefTo(BRIEF, 1)
                               /\ ~row.done /\ row.groups = <<>>
  <2> TAKE stage \in asked
  <2>1. stage \in Stage /\ 0 \in Nat /\ made[stage] = NewRow(stage, 0, RefTo(BRIEF, 1))
    BY DEF Stage
  <2> HIDE DEF made
  <2> QED
    BY <1>2, <2>1, NewRowFields
<1>5. IsFiniteSet(extra)
  <2>1. IsFiniteSet({BUSINESS_CASE}) /\ IsFiniteSet({ENVIRONMENT_SCAN})
    BY FS_Singleton
  <2>2. IsFiniteSet({BUSINESS_CASE} \cup {ENVIRONMENT_SCAN})
    BY <2>1, FS_Union
  <2>3. asked \subseteq {BUSINESS_CASE} \cup {ENVIRONMENT_SCAN} /\ DOMAIN made = asked
    OBVIOUS
  <2> HIDE DEF made, asked
  <2>4. IsFiniteSet(asked)
    BY <2>2, <2>3, FS_Subset
  <2> QED
    BY <2>3, <2>4, FiniteImage
<1> HIDE DEF brief, made
<1>6. Extends(first, <<>>, {brief})
  <2>1. <<>> \in Seq(Row) /\ {brief} \in SUBSET Row
    BY <1>3
  <2>2. IsFiniteSet({brief})
    BY FS_Singleton
  <2> QED
    BY <2>1, <2>2, AddExtends
<1> HIDE DEF first
<1>7. /\ first \in Seq(Row) /\ DOMAIN first = {1} /\ first[1] = brief
  <2>1. first \in Seq(Row)
    BY <1>6 DEF Extends
  <2>2. /\ \A x \in DOMAIN first : first[x] = brief
        /\ \E x \in DOMAIN first : TRUE
        /\ \A x, y \in DOMAIN first : first[x] = first[y] => x = y
    BY <1>6 DEF Extends
  <2>3. DOMAIN first = 1..Len(first) /\ Len(first) \in Nat
    BY <2>1
  <2>4. 1 \in DOMAIN first
    BY <2>2, <2>3
  <2> QED
    BY <2>1, <2>2, <2>4
<1>8. Extends(rows, first, extra)
  <2>1. extra \in SUBSET Row
    BY <1>4
  <2> HIDE DEF extra
  <2> QED
    BY <1>1, <1>5, <1>7, <2>1, AddExtends
<1>9. /\ rows \in Seq(Row)
      /\ 1 \in Ids /\ rows[1] = brief
      /\ \A x \in Ids \ {1} : \E stage \in asked : rows[x] = made[stage]
      /\ \A stage \in asked : \E x \in Ids \ {1} : rows[x] = made[stage]
      /\ \A x, y \in Ids \ {1} : rows[x] = rows[y] => x = y
      /\ \A x \in Ids \ {1} : 1 < x
  <2> HIDE DEF extra
  <2>1. /\ rows \in Seq(Row) /\ 1 \in Ids /\ rows[1] = brief
        /\ \A x \in Ids \ {1} : rows[x] \in extra /\ 1 < x
        /\ \A row \in extra : \E x \in Ids \ {1} : rows[x] = row
        /\ \A x, y \in Ids \ {1} : rows[x] = rows[y] => x = y
    BY <1>7, <1>8 DEF Extends, Ids
  <2>2. \A row \in extra : \E stage \in asked : row = made[stage]
    BY DEF extra
  <2>3. \A stage \in asked : made[stage] \in extra
    BY DEF extra
  <2> QED
    BY <2>1, <2>2, <2>3
<1> HIDE DEF extra
<1>10. \A x \in Ids \ {1} : \E stage \in asked :
          /\ rows[x].stage = stage /\ rows[x].index = 0
          /\ rows[x].refs = RefTo(BRIEF, 1)
          /\ ~rows[x].done /\ rows[x].groups = <<>>
          /\ rows[x] = made[stage]
  BY <1>4, <1>9
<1>11. /\ rows[1].stage = BRIEF /\ rows[1].index = 0 /\ rows[1].refs = NoRefs
       /\ ~rows[1].done
  BY <1>3, <1>9
<1>12. \A x \in Ids \ {1} : rows[x].stage \in Optional /\ rows[x].stage \in enabled
  BY <1>1, <1>10
<1>13. \A x \in Ids : rows[x].stage \in {BRIEF} \cup Optional
  BY <1>11, <1>12
<1>14. \A stage \in Stage \ ({BRIEF} \cup Optional) : of_stage(rows, stage) = {}
  BY <1>13 DEF of_stage, Ids
<1>15. OneBrief(rows)
  BY <1>9, <1>11, <1>12 DEF OneBrief, Optional, Ids
<1>16. GroundedRefs(rows) /\ DoneBelow(rows)
  <2>1. \A dep \in Stage : rows[1].refs[dep] = {}
    BY <1>2, <1>11
  <2>2. \A x \in Ids \ {1}, dep \in Stage : \A y \in rows[x].refs[dep] : y = 1 /\ dep = BRIEF
    BY <1>2, <1>10
  <2>3. \A x \in Ids \ {1} : Depth[BRIEF] < Depth[rows[x].stage]
    BY <1>12, StageValues DEF Optional
  <2>4. \A x \in Ids : ~rows[x].done
    BY <1>10, <1>11
  <2>5. ASSUME NEW x \in Ids, NEW dep \in Stage, NEW y \in rows[x].refs[dep]
        PROVE  y \in Ids /\ y < x /\ rows[y].stage = dep /\ Depth[dep] < Depth[rows[x].stage]
    <3>1. x # 1
      BY <2>1
    <3>2. y = 1 /\ dep = BRIEF /\ 1 < x
      BY <3>1, <1>9, <2>2
    <3> QED
      BY <3>1, <3>2, <1>9, <1>11, <2>3
  <2> QED
    BY <2>4, <2>5 DEF GroundedRefs, DoneBelow, Ids
<1>17. Sourced(rows)
  <2> SUFFICES ASSUME NEW x \in Ids PROVE HasSource(rows[x])
    BY DEF Sourced, Ids
  <2>1. CASE x = 1
    <3>1. rows[x].refs[BRIEF] = {}
      BY <2>1, <1>2, <1>11 DEF Stage
    <3> QED
      BY <2>1, <3>1, <1>11 DEF HasSource
  <2>2. CASE x # 1
    <3>1. rows[x].stage \in Optional /\ rows[x].index = 0 /\ rows[x].refs[BRIEF] = {1}
      BY <2>2, <1>2, <1>10, <1>12
    <3>2. Source[rows[x].stage] = BRIEF
      BY <3>1, StageValues DEF Optional
    <3>3. rows[x].refs[Source[rows[x].stage]] = {1}
      BY <3>1, <3>2
    <3> QED
      BY <3>1, <3>3 DEF HasSource, Optional
  <2> QED
    BY <2>1, <2>2
<1>18. Distinct(rows)
  <2> SUFFICES ASSUME NEW x \in Ids, NEW y \in Ids, rows[x].stage = rows[y].stage PROVE x = y
    BY DEF Distinct, SameKey, Ids
  <2>1. CASE x = 1 \/ y = 1
    BY <2>1, <1>11, <1>12 DEF Optional
  <2>2. CASE x # 1 /\ y # 1
    <3>1. rows[x] = rows[y]
      BY <2>2, <1>10
    <3> QED
      BY <2>2, <3>1, <1>9
  <2> QED
    BY <2>1, <2>2
<1>19. /\ of_stage(rows, PATTERNS) = {} /\ of_stage(rows, CANVAS) = {}
       /\ of_stage(rows, EMPATHY_MAP) = {} /\ of_stage(rows, SWOT_ERRC_CYCLE) = {}
       /\ of_stage(rows, STORYTELLING) = {}
  BY <1>14 DEF Stage, Optional
<1>20. NamedMaps(rows) /\ CanvasesWhole(rows)
  BY <1>19 DEF NamedMaps, CanvasesWhole
<1>21. InputsTaken(rows)
  BY <1>13 DEF InputsTaken, OptionalInputsTaken, Optional, Ids
<1>22. OptionalRows(rows, enabled)
  <2> SUFFICES ASSUME NEW stage \in Optional PROVE stage \in enabled <=> of_stage(rows, stage) # {}
    BY DEF OptionalRows
  <2>1. stage \in enabled => of_stage(rows, stage) # {}
    BY <1>1, <1>4, <1>9 DEF of_stage, Ids
  <2>2. of_stage(rows, stage) # {} => stage \in enabled
    <3>1. \A x \in of_stage(rows, stage) : x \in Ids \ {1} /\ rows[x].stage = stage
      BY <1>11 DEF of_stage, Ids, Optional
    <3> QED
      BY <3>1, <1>12
  <2> QED
    BY <2>1, <2>2
<1>23. WellFormed(rows, enabled)
  BY <1>1, <1>9, <1>15, <1>16, <1>17, <1>18, <1>20, <1>21, <1>22 DEF WellFormed
<1>24. Complete(rows)
  BY <1>11, <1>19 DEF Complete, MapsComplete, FanOutComplete, PatternsComplete, CanvasesComplete,
                      CyclesComplete, TalesComplete, PitchesComplete, Done
<1> QED
  BY <1>23, <1>24 DEF IInv

\* What a row draws on, in the invariant's terms.
LEMMA InputsGrounded ==
    ASSUME IInv, NEW x \in Ids
    PROVE  \A y \in Inputs(x) : /\ y \in Ids /\ y < x
                                /\ Depth[rows[y].stage] < Depth[rows[x].stage]
                                /\ rows[x].done => rows[y].done
BY DEF IInv, WellFormed, GroundedRefs, DoneBelow, Inputs, Ids

\* A group is a set of maps that are rows of the project.
LEMMA GroupsTyped ==
    ASSUME IInv, NEW groups \in Groupings \cup {<<>>}
    PROVE  /\ groups \in Seq(SUBSET Nat)
           /\ \A k \in DOMAIN groups : groups[k] \subseteq of_stage(rows, EMPATHY_MAP)
<1>1. CASE groups = <<>>
  BY <1>1
<1>2. CASE groups \in Groupings
  <2>1. PICK n \in 1..MaxGroups : groups \in [1..n -> SUBSET HeldMaps \ {{}}]
    BY <1>2 DEF Groupings
  <2>2. n \in Nat
    BY <2>1, PlannedProjectAssumption
  <2>3. HeldMaps \subseteq of_stage(rows, EMPATHY_MAP)
    BY DEF HeldMaps
  <2>4. HeldMaps \subseteq Nat
    BY <2>3, RowsTyped DEF IInv
  <2>5. groups \in [1..n -> SUBSET Nat] /\ DOMAIN groups = 1..n
    BY <2>1, <2>4
  <2>6. groups \in Seq(SUBSET Nat)
    BY <2>2, <2>5
  <2> QED
    BY <2>1, <2>3, <2>5, <2>6
<1> QED
  BY <1>1, <1>2

\* A row whose inputs are DONE may be DONE: the rows stay well formed until they are expanded.
LEMMA FinishHolds ==
    ASSUME IInv, NEW x \in Ids, NEW segments \in Segments \cup {0},
           NEW groups \in Groupings \cup {<<>>}, finish(x, segments, groups)
    PROVE  IInv'
<1> DEFINE work == [rows EXCEPT ![x].done = TRUE, ![x].segments = segments, ![x].groups = groups]
<1>1. rows' = expand_rows(work, enabled) /\ enabled' = enabled
  BY DEF finish
<1>2. /\ rows \in Seq(Row) /\ Ids \subseteq Nat /\ \A y \in Ids : rows[y] \in Row
      /\ WellFormed(rows, enabled) /\ Complete(rows)
  BY RowsTyped DEF IInv, Ids
<1>3. segments \in Nat /\ groups \in Seq(SUBSET Nat)
  BY GroupsTyped, PlannedProjectAssumption
<1>4. /\ work \in Seq(Row) /\ DOMAIN work = Ids
      /\ \A y \in Ids : /\ work[y].stage = rows[y].stage /\ work[y].index = rows[y].index
                        /\ work[y].refs = rows[y].refs
      /\ work[x].done /\ work[x].groups = groups
      /\ \A y \in Ids \ {x} : work[y] = rows[y]
  <2> DEFINE row == [rows[x] EXCEPT !.done = TRUE, !.segments = segments, !.groups = groups]
  <2>1. /\ row \in Row /\ row.stage = rows[x].stage /\ row.index = rows[x].index
        /\ row.refs = rows[x].refs /\ row.done /\ row.groups = groups
    BY <1>2, <1>3 DEF Row
  <2>2. work = [rows EXCEPT ![x] = row]
    BY <1>2 DEF Row, Ids
  <2> HIDE DEF row, work
  <2>3. work \in Seq(Row) /\ DOMAIN work = Ids /\ work[x] = row /\ \A y \in Ids \ {x} : work[y] = rows[y]
    BY <1>2, <2>1, <2>2 DEF Ids
  <2> QED
    BY <2>1, <2>3
<1> HIDE DEF work
<1>5. SameShape(rows, work)
  BY <1>4 DEF SameShape, Ids
<1>6. DoneBelow(work)
  <2> SUFFICES ASSUME NEW y \in Ids, NEW dep \in Stage, NEW z \in work[y].refs[dep], work[y].done
               PROVE  work[z].done
    BY <1>4 DEF DoneBelow
  <2>1. z \in Inputs(y) /\ z \in Ids
    BY <1>4, InputsGrounded DEF Inputs
  <2>2. rows[z].done
    <3>1. CASE y = x
      BY <2>1, <3>1 DEF finish, Ready
    <3>2. CASE y # x
      BY <2>1, <3>2, <1>4, InputsGrounded
    <3> QED
      BY <3>1, <3>2
  <2> QED
    BY <2>1, <2>2, <1>4
<1>7. NamedMaps(work)
  <2> SUFFICES ASSUME NEW y \in Ids, rows[y].stage = PATTERNS, NEW k \in DOMAIN work[y].groups
               PROVE  work[y].groups[k] \subseteq of_stage(rows, EMPATHY_MAP)
    BY <1>4 DEF NamedMaps, of_stage, Ids
  <2>1. CASE y = x
    BY <2>1, <1>4, GroupsTyped
  <2>2. CASE y # x
    BY <2>2, <1>2, <1>4 DEF WellFormed, NamedMaps, of_stage, Ids
  <2> QED
    BY <2>1, <2>2
<1>8. /\ WellFormed(work, enabled)
      /\ FanOutComplete(work) /\ TalesComplete(work) /\ PitchesComplete(work)
  BY <1>2, <1>5, <1>6, <1>7, ShapeKeepsForm DEF Complete
<1>9. WellFormed(expand_rows(work, enabled), enabled) /\ Complete(expand_rows(work, enabled))
  BY <1>8, Expanded
<1> QED
  BY <1>1, <1>9 DEF IInv

\* From some rows up to the rows that draw from them and again: those of the second
\* step are farther from the brief than some of the first.
LEMMA UpAgain ==
    ASSUME IInv, NEW low \in SUBSET Ids, NEW y \in Up(Up(low)) \ Up(low)
    PROVE  \E z \in Up(low) \ low : Depth[rows[z].stage] < Depth[rows[y].stage]
<1>1. y \in Ids /\ Inputs(y) \cap low = {} /\ Inputs(y) \cap Up(low) # {}
  BY DEF Up
<1>2. PICK z \in Inputs(y) : z \in Up(low) \ low
  BY <1>1
<1> QED
  BY <1>1, <1>2, InputsGrounded

\* Seven steps up reach every row that draws from a row at any distance (dependent_rows).
LEMMA UpClosed ==
    ASSUME IInv, NEW x \in Ids, NEW above, above = AnyDistance(Up, {x})
    PROVE  /\ x \in above /\ above \subseteq Ids
           /\ \A y \in Ids : Inputs(y) \cap above # {} => y \in above
<1> DEFINE u0 == {x}
           u1 == Up(u0)
           u2 == Up(u1)
           u3 == Up(u2)
           u4 == Up(u3)
           u5 == Up(u4)
           u6 == Up(u5)
           u7 == Up(u6)
           u8 == Up(u7)
           far(y) == Depth[rows[y].stage]
<1>1. above = u7
  BY DEF AnyDistance
<1>2. \A some \in SUBSET Ids : Up(some) \in SUBSET Ids /\ some \subseteq Up(some)
  BY DEF Up
<1>3. u0 \in SUBSET Ids
  OBVIOUS
<1>4. \A y \in Ids : far(y) \in 0..7
  <2> TAKE y \in Ids
  <2>1. rows[y].stage \in Stage
    BY RowsTyped DEF IInv, Ids, Row
  <2>2. \A stage \in Stage : Depth[stage] \in 0..7
    BY StageValues DEF Stage
  <2> QED
    BY <2>1, <2>2
<1> HIDE DEF u0
<1> HIDE DEF far
<1>5. \A y \in u1 \ u0 : far(y) >= 1
  <2> SUFFICES ASSUME NEW y \in u1 \ u0 PROVE far(y) >= 1
    OBVIOUS
  <2>1. y \in Ids /\ x \in Inputs(y)
    BY DEF Up, u0
  <2>2. far(x) < far(y)
    BY <2>1, InputsGrounded DEF far
  <2> QED
    BY <1>4, <2>1, <2>2
<1>6. ASSUME NEW low \in SUBSET Ids, NEW n \in Nat, \A y \in Up(low) \ low : far(y) >= n
      PROVE  \A y \in Up(Up(low)) \ Up(low) : far(y) >= n + 1
  <2> SUFFICES ASSUME NEW y \in Up(Up(low)) \ Up(low) PROVE far(y) >= n + 1
    OBVIOUS
  <2>1. PICK z \in Up(low) \ low : far(z) < far(y)
    BY UpAgain DEF far
  <2>2. y \in Ids /\ z \in Ids
    BY <1>2
  <2> QED
    BY <1>4, <1>6, <2>1, <2>2
<1>7. /\ u1 \in SUBSET Ids /\ u2 \in SUBSET Ids /\ u3 \in SUBSET Ids /\ u4 \in SUBSET Ids
      /\ u5 \in SUBSET Ids /\ u6 \in SUBSET Ids /\ u7 \in SUBSET Ids /\ u8 \in SUBSET Ids
      /\ x \in u7
  <2> HIDE DEF u1, u2, u3, u4, u5, u6, u7, u8
  <2>1. u1 \in SUBSET Ids /\ x \in u1
    BY <1>2, <1>3 DEF u0, u1
  <2>2. u2 \in SUBSET Ids /\ x \in u2
    BY <1>2, <2>1 DEF u2
  <2>3. u3 \in SUBSET Ids /\ x \in u3
    BY <1>2, <2>2 DEF u3
  <2>4. u4 \in SUBSET Ids /\ x \in u4
    BY <1>2, <2>3 DEF u4
  <2>5. u5 \in SUBSET Ids /\ x \in u5
    BY <1>2, <2>4 DEF u5
  <2>6. u6 \in SUBSET Ids /\ x \in u6
    BY <1>2, <2>5 DEF u6
  <2>7. u7 \in SUBSET Ids /\ x \in u7
    BY <1>2, <2>6 DEF u7
  <2>8. u8 \in SUBSET Ids /\ x \in u8
    BY <1>2, <2>7 DEF u8
  <2> QED
    BY <2>1, <2>2, <2>3, <2>4, <2>5, <2>6, <2>7, <2>8
<1>8. \A y \in u2 \ u1 : far(y) >= 2
  <2> HIDE DEF u0
  <2>1. \A y \in Up(Up(u0)) \ Up(u0) : far(y) >= 1 + 1
    BY <1>5, <1>3, <1>6, <1>7
  <2> QED
    BY <2>1
<1>9. \A y \in u3 \ u2 : far(y) >= 3
  <2> HIDE DEF u1
  <2>1. \A y \in Up(Up(u1)) \ Up(u1) : far(y) >= 2 + 1
    BY <1>8, <1>3, <1>6, <1>7
  <2> QED
    BY <2>1
<1>10. \A y \in u4 \ u3 : far(y) >= 4
  <2> HIDE DEF u2
  <2>1. \A y \in Up(Up(u2)) \ Up(u2) : far(y) >= 3 + 1
    BY <1>9, <1>3, <1>6, <1>7
  <2> QED
    BY <2>1
<1>11. \A y \in u5 \ u4 : far(y) >= 5
  <2> HIDE DEF u3
  <2>1. \A y \in Up(Up(u3)) \ Up(u3) : far(y) >= 4 + 1
    BY <1>10, <1>3, <1>6, <1>7
  <2> QED
    BY <2>1
<1>12. \A y \in u6 \ u5 : far(y) >= 6
  <2> HIDE DEF u4
  <2>1. \A y \in Up(Up(u4)) \ Up(u4) : far(y) >= 5 + 1
    BY <1>11, <1>3, <1>6, <1>7
  <2> QED
    BY <2>1
<1>13. \A y \in u7 \ u6 : far(y) >= 7
  <2> HIDE DEF u5
  <2>1. \A y \in Up(Up(u5)) \ Up(u5) : far(y) >= 6 + 1
    BY <1>12, <1>3, <1>6, <1>7
  <2> QED
    BY <2>1
<1>14. \A y \in u8 \ u7 : far(y) >= 8
  <2> HIDE DEF u6
  <2>1. \A y \in Up(Up(u6)) \ Up(u6) : far(y) >= 7 + 1
    BY <1>13, <1>3, <1>6, <1>7
  <2> QED
    BY <2>1
<1>15. u8 \subseteq u7
  BY <1>4, <1>7, <1>14
<1> HIDE DEF u7
<1>16. \A y \in Ids : Inputs(y) \cap u7 # {} => y \in u7
  BY <1>15 DEF Up
<1> QED
  BY <1>1, <1>7, <1>16

\* Going down the refs never leaves some rows that hold all they draw on.
LEMMA DownStays ==
    ASSUME NEW kept \in SUBSET Ids, \A y \in kept : Inputs(y) \subseteq kept,
           NEW x \in kept
    PROVE  Closure(x) \subseteq kept
<1>1. \A some \in SUBSET kept : Down(some) \in SUBSET kept
  BY DEF Down
<1>2. {x} \in SUBSET kept
  OBVIOUS
<1>3. Down(Down(Down(Down(Down(Down(Down({x}))))))) \in SUBSET kept
  BY <1>1, <1>2
<1> QED
  BY <1>3 DEF Closure, AnyDistance

\* A regenerated row is reset together with all that draws on it: no row that stays DONE draws on one.
LEMMA RegenerateHolds ==
    ASSUME IInv, NEW x \in Ids, regenerate(x)
    PROVE  IInv'
<1> DEFINE reset == AnyDistance(Up, {x})
<1>1. /\ rows \in Seq(Row) /\ \A y \in Ids : rows[y] \in Row
      /\ WellFormed(rows, enabled) /\ Complete(rows)
  BY RowsTyped DEF IInv, Ids
<1>2. /\ x \in reset /\ reset \subseteq Ids
      /\ \A y \in Ids : Inputs(y) \cap reset # {} => y \in reset
  BY UpClosed
<1> HIDE DEF reset
<1>3. /\ enabled' = enabled
      /\ rows' = [y \in Ids |-> IF y \in reset
                                THEN [rows[y] EXCEPT !.done = FALSE, !.segments = 0, !.groups = <<>>]
                                ELSE rows[y]]
  <2>1. {x} \cup DependsOn(x) = reset
    BY <1>2 DEF DependsOn, reset
  <2> QED
    BY <2>1 DEF regenerate
<1>4. /\ rows' \in Seq(Row) /\ DOMAIN rows' = Ids
      /\ \A y \in Ids : /\ rows'[y].stage = rows[y].stage /\ rows'[y].index = rows[y].index
                        /\ rows'[y].refs = rows[y].refs
      /\ \A y \in reset : ~rows'[y].done /\ rows'[y].groups = <<>>
      /\ \A y \in Ids \ reset : rows'[y] = rows[y]
  <2> DEFINE cleared(y) == [rows[y] EXCEPT !.done = FALSE, !.segments = 0, !.groups = <<>>]
  <2>1. \A y \in Ids : /\ cleared(y) \in Row /\ cleared(y).stage = rows[y].stage
                       /\ cleared(y).index = rows[y].index /\ cleared(y).refs = rows[y].refs
                       /\ ~cleared(y).done /\ cleared(y).groups = <<>>
    <3> TAKE y \in Ids
    <3>1. rows[y] \in Row /\ <<>> \in Seq(SUBSET Nat)
      BY <1>1
    <3> QED
      BY <3>1 DEF Row
  <2>2. rows' = [y \in Ids |-> IF y \in reset THEN cleared(y) ELSE rows[y]]
    BY <1>3
  <2>3. Ids = 1..Len(rows) /\ Len(rows) \in Nat
    BY <1>1 DEF Ids
  <2> HIDE DEF cleared
  <2>4. rows' \in [1..Len(rows) -> Row]
    BY <1>1, <2>1, <2>2, <2>3
  <2>5. rows' \in Seq(Row)
    BY <2>3, <2>4
  <2> QED
    BY <1>2, <2>1, <2>2, <2>5
<1>5. SameShape(rows, rows')
  BY <1>4 DEF SameShape, Ids
<1>6. DoneBelow(rows')
  <2> SUFFICES ASSUME NEW y \in Ids, NEW dep \in Stage, NEW z \in rows'[y].refs[dep], rows'[y].done
               PROVE  rows'[z].done
    BY <1>4 DEF DoneBelow
  <2>1. z \in Inputs(y) /\ z \in Ids
    BY <1>4, InputsGrounded DEF Inputs
  <2>2. y \notin reset /\ rows[y].done
    BY <1>4
  <2>3. z \notin reset
    BY <1>2, <2>1, <2>2
  <2> QED
    BY <1>4, <2>1, <2>2, <2>3, InputsGrounded
<1>7. NamedMaps(rows')
  <2> SUFFICES ASSUME NEW y \in Ids, rows[y].stage = PATTERNS, NEW k \in DOMAIN rows'[y].groups
               PROVE  rows'[y].groups[k] \subseteq of_stage(rows, EMPATHY_MAP)
    BY <1>4 DEF NamedMaps, of_stage, Ids
  <2>1. y \notin reset
    BY <1>4
  <2> QED
    BY <2>1, <1>1, <1>4 DEF WellFormed, NamedMaps, of_stage, Ids
<1>8. /\ WellFormed(rows', enabled)
      /\ FanOutComplete(rows') /\ TalesComplete(rows') /\ PitchesComplete(rows')
  BY <1>1, <1>5, <1>6, <1>7, ShapeKeepsForm DEF Complete
<1>9. \A stage : of_stage(rows', stage) = of_stage(rows, stage)
  BY <1>4 DEF of_stage, Ids
<1>10. \A y \in Ids : rows'[y].done => rows'[y] = rows[y]
  BY <1>4
<1>11. \A stage : Done(rows', stage) \subseteq Done(rows, stage)
  BY <1>9, <1>10 DEF Done, of_stage, Ids
<1>12. MapsComplete(rows') /\ PatternsComplete(rows')
  <2>1. 1 \in Ids
    BY <1>1 DEF WellFormed, OneBrief, Ids
  <2> QED
    BY <2>1, <1>1, <1>4, <1>9, <1>10 DEF Complete, MapsComplete, PatternsComplete, of_stage, Ids
<1>13. CanvasesComplete(rows')
  <2> SUFFICES ASSUME NEW y \in Done(rows', PATTERNS), NEW k \in 1..Len(rows'[y].groups)
               PROVE  \E canvas \in of_stage(rows, CANVAS) : rows[canvas].index = k - 1
    BY <1>4, <1>9 DEF CanvasesComplete, of_stage, Ids
  <2>1. y \in Done(rows, PATTERNS) /\ rows'[y] = rows[y]
    BY <1>10, <1>11 DEF Done, of_stage, Ids
  <2> QED
    BY <2>1, <1>1 DEF Complete, CanvasesComplete
<1>14. CyclesComplete(rows')
  <2>1. \A y : with_ref(rows', SWOT_ERRC_CYCLE, CANVAS, y) = with_ref(rows, SWOT_ERRC_CYCLE, CANVAS, y)
    BY <1>4, <1>9 DEF with_ref, of_stage, Ids
  <2> QED
    BY <2>1, <1>1, <1>11 DEF Complete, CyclesComplete
<1> QED
  BY <1>3, <1>8, <1>12, <1>13, <1>14 DEF IInv, Complete

\* The invariant, for every number of segments, groups and requests.
THEOREM Invariant == Spec => []IInv
<1>1. Init => IInv
  BY InitHolds
<1>2. IInv /\ [Next]_vars => IInv'
  <2> SUFFICES ASSUME IInv, [Next]_vars PROVE IInv'
    OBVIOUS
  <2>1. CASE \E x \in Ids, segments \in Segments \cup {0}, groups \in Groupings \cup {<<>>} :
                finish(x, segments, groups)
    BY <2>1, FinishHolds
  <2>2. CASE \E x \in Ids : regenerate(x)
    BY <2>2, RegenerateHolds
  <2>3. CASE UNCHANGED vars
    BY <2>3 DEF vars, IInv
  <2> QED
    BY <2>1, <2>2, <2>3 DEF Next
<1> QED
  BY <1>1, <1>2, PTL DEF Spec

\* Every id in the refs of a row is the id of a row of the stage it is listed under, whatever
\* the planner added and in whatever order the project was worked on (_Plan.add, validate_row_refs).
THEOREM RefsLead == Spec => []TypeOK
<1>1. IInv => TypeOK
  BY RowsTyped DEF IInv, WellFormed, GroundedRefs, TypeOK, Optional, Ids, Row
<1> QED
  BY <1>1, Invariant, PTL

\* expand_rows is idempotent: what it added once it never adds again, after any regeneration.
THEOREM ExpandsOnce == Spec => []ExpandedOnce
<1>1. IInv => ExpandedOnce
  BY Idle DEF IInv, ExpandedOnce
<1> QED
  BY <1>1, Invariant, PTL

\* A canvas draws on its maps, on exactly the scenarios and ideations made from them,
\* and on nothing of another segment (expand_after_patterns).
THEOREM CanvasesStay == Spec => []CanvasStaysInItsSegments
<1>1. IInv => CanvasStaysInItsSegments
  BY DEF IInv, WellFormed, CanvasesWhole, CanvasWhole, CanvasStaysInItsSegments, FanOut
<1> QED
  BY <1>1, Invariant, PTL

\* A row that is DONE draws on rows that are, and so does all it draws on: what a snapshot
\* shows beside a row that can run is DONE, and is what resets that row when it is regenerated.
THEOREM SnapshotsWhole == Spec => []SnapshotIsWhole
<1>1. IInv => SnapshotIsWhole
  <2> SUFFICES ASSUME IInv, NEW x \in Ids, Ready(x), NEW y \in Closure(x) \ {x}
               PROVE  rows[y].done /\ x \in DependsOn(y)
    BY DEF SnapshotIsWhole
  <2>1. y \in Ids /\ rows[y].done
    <3> DEFINE kept == {x} \cup {z \in Ids : rows[z].done}
    <3>1. kept \in SUBSET Ids /\ x \in kept
      OBVIOUS
    <3>2. \A z \in kept : Inputs(z) \subseteq kept
      BY InputsGrounded DEF Ready
    <3> HIDE DEF kept
    <3>3. Closure(x) \subseteq kept
      BY <3>1, <3>2, DownStays
    <3> QED
      BY <3>3 DEF kept
  <2>2. x \in DependsOn(y)
    <3> DEFINE above == AnyDistance(Up, {y})
               kept  == Ids \ above
    <3>1. /\ y \in above
          /\ \A z \in Ids : Inputs(z) \cap above # {} => z \in above
      BY <2>1, UpClosed
    <3> HIDE DEF above
    <3>2. \A z \in kept : Inputs(z) \subseteq kept
      BY <3>1, InputsGrounded
    <3>3. x \in above
      <4> SUFFICES ASSUME x \in kept PROVE FALSE
        OBVIOUS
      <4> HIDE DEF kept
      <4>1. kept \in SUBSET Ids
        BY DEF kept
      <4>2. Closure(x) \subseteq kept
        BY <3>2, <4>1, DownStays
      <4> QED
        BY <3>1, <4>2 DEF kept
    <3> QED
      BY <3>3 DEF DependsOn, above
  <2> QED
    BY <2>1, <2>2
<1> QED
  BY <1>1, Invariant, PTL

\* A set of numbers that is not empty has a smallest: of the intervals up to its members,
\* the one that includes no other ends there.
LEMMA Smallest ==
    ASSUME NEW some \in SUBSET Nat, some # {}
    PROVE  \E x \in some : \A y \in some : x <= y
<1> DEFINE upTo == {ids \in SUBSET Nat : \E n \in some : ids = 0..n}
<1>1. upTo # {}
  <2>1. PICK n \in some : TRUE
    OBVIOUS
  <2>2. 0..n \in SUBSET Nat
    OBVIOUS
  <2>3. 0..n \in upTo
    BY <2>2
  <2> QED
    BY <2>3
<1>2. upTo \subseteq FiniteSubsetsOf(Nat)
  <2> SUFFICES ASSUME NEW n \in some PROVE 0..n \in FiniteSubsetsOf(Nat)
    OBVIOUS
  <2>1. 0 \in Int /\ n \in Int /\ 0..n \in SUBSET Nat
    OBVIOUS
  <2>2. IsFiniteSet(0..n)
    BY <2>1, FS_Interval, Zenon
  <2> QED
    BY <2>1, <2>2 DEF FiniteSubsetsOf
<1>3. PICK least \in upTo : \A ids \in upTo : ~(<<ids, least>> \in StrictSubsetOrdering(Nat))
  <2> HIDE DEF upTo
  <2> QED
    BY <1>1, <1>2, FS_StrictSubsetOrderingWellFounded, WFMin
<1>4. PICK n \in some : least = 0..n
  OBVIOUS
<1>5. ASSUME NEW m \in some, m < n PROVE FALSE
  <2>1. 0..m \in upTo /\ 0..m \subseteq least /\ 0..m # least
    BY <1>4, <1>5
  <2> QED
    BY <1>3, <2>1 DEF StrictSubsetOrdering
<1> QED
  BY <1>4, <1>5

\* No row waits for something that will never be there: the first row that is not DONE draws
\* on earlier rows only, which are, and has the optional inputs that were enabled.
THEOREM NothingStrands == Spec => []NothingStranded
<1>1. IInv => NothingStranded
  <2> SUFFICES ASSUME IInv, \E x \in Ids : ~rows[x].done
               PROVE  \E x \in Ids : Ready(x)
    BY DEF NothingStranded
  <2> DEFINE left == {x \in Ids : ~rows[x].done}
  <2>1. left \in SUBSET Nat /\ left # {}
    BY RowsTyped DEF IInv, Ids
  <2>2. PICK x \in left : \A y \in left : x <= y
    <3> HIDE DEF left
    <3> QED
      BY <2>1, Smallest
  <2>3. x \in Ids /\ ~rows[x].done /\ Ids \subseteq Nat
    BY <2>1, RowsTyped DEF IInv, Ids
  <2>4. \A y \in Inputs(x) : y \in Ids /\ rows[y].done
    <3> TAKE y \in Inputs(x)
    <3>1. y \in Ids /\ y < x
      BY <2>3, InputsGrounded
    <3> QED
      BY <2>2, <2>3, <3>1
  <2>5. \A stage \in OptionalInputs(rows[x].stage) \cap enabled : rows[x].refs[stage] # {}
    <3> TAKE stage \in OptionalInputs(rows[x].stage) \cap enabled
    <3>1. stage \in Optional /\ of_stage(rows, stage) # {}
      BY DEF IInv, WellFormed, OptionalRows
    <3>2. OptionalInputsTaken(rows, rows[x])
      BY <2>3 DEF IInv, WellFormed, InputsTaken, Ids
    <3>3. rows[x].refs[stage] = of_stage(rows, stage)
      BY <3>1, <3>2 DEF OptionalInputsTaken, OptionalInputs, Optional
    <3> QED
      BY <3>1, <3>3
  <2> QED
    BY <2>3, <2>4, <2>5 DEF Ready
<1> QED
  BY <1>1, Invariant, PTL

\* The one row of a stage that follows a row that has one.
LEMMA TheFollower ==
    ASSUME IInv, NEW stage \in Followers, NEW dep, dep = Source[stage], NEW id,
           with_ref(rows, stage, dep, id) # {}
    PROVE  /\ Cardinality(with_ref(rows, stage, dep, id)) = 1
           /\ First(with_ref(rows, stage, dep, id)) \in with_ref(rows, stage, dep, id)
<1>1. PICK x : x \in with_ref(rows, stage, dep, id)
  OBVIOUS
<1>2. with_ref(rows, stage, dep, id) = {x}
  BY <1>1, OneFollower DEF IInv
<1>3. First(with_ref(rows, stage, dep, id)) = x
  BY <1>1, FirstFollower DEF IInv
<1>4. Cardinality({x}) = 1
  BY FS_Singleton
<1> QED
  BY <1>1, <1>2, <1>3, <1>4

\* A canvas that is DONE, like all that follows it, has one of each, and they belong together.
LEMMA OutputsHold ==
    ASSUME IInv, \A x \in Ids : rows[x].done, NEW canvas \in of_stage(rows, CANVAS)
    PROVE  Outputs(canvas)
<1> DEFINE cycle == First(with_ref(rows, SWOT_ERRC_CYCLE, CANVAS, canvas))
           story == First(with_ref(rows, STORYTELLING, SWOT_ERRC_CYCLE, cycle))
           pitch == First(with_ref(rows, PITCH, STORYTELLING, story))
<1>1. WellFormed(rows, enabled) /\ Complete(rows)
  BY DEF IInv
<1>2. /\ Cardinality(with_ref(rows, SWOT_ERRC_CYCLE, CANVAS, canvas)) = 1
      /\ cycle \in with_ref(rows, SWOT_ERRC_CYCLE, CANVAS, canvas)
  <2>1. with_ref(rows, SWOT_ERRC_CYCLE, CANVAS, canvas) # {}
    BY <1>1 DEF Complete, CyclesComplete, Done, of_stage, Ids
  <2>2. SWOT_ERRC_CYCLE \in Followers /\ CANVAS = Source[SWOT_ERRC_CYCLE]
    BY StageValues DEF Followers
  <2> QED
    BY <2>1, <2>2, TheFollower
<1> HIDE DEF cycle
<1>3. cycle \in of_stage(rows, SWOT_ERRC_CYCLE)
  BY <1>2 DEF with_ref
<1>4. /\ Cardinality(with_ref(rows, STORYTELLING, SWOT_ERRC_CYCLE, cycle)) = 1
      /\ story \in with_ref(rows, STORYTELLING, SWOT_ERRC_CYCLE, cycle)
  <2>1. with_ref(rows, STORYTELLING, SWOT_ERRC_CYCLE, cycle) # {}
    BY <1>1, <1>3 DEF Complete, TalesComplete
  <2>2. STORYTELLING \in Followers /\ SWOT_ERRC_CYCLE = Source[STORYTELLING]
    BY StageValues DEF Followers
  <2> QED
    BY <2>1, <2>2, TheFollower
<1>5. Cardinality(with_ref(rows, FUTURE_SCENARIO, SWOT_ERRC_CYCLE, cycle)) = 1
  <2>1. with_ref(rows, FUTURE_SCENARIO, SWOT_ERRC_CYCLE, cycle) # {}
    BY <1>1, <1>3 DEF Complete, TalesComplete
  <2>2. FUTURE_SCENARIO \in Followers /\ SWOT_ERRC_CYCLE = Source[FUTURE_SCENARIO]
    BY StageValues DEF Followers
  <2> QED
    BY <2>1, <2>2, TheFollower
<1> HIDE DEF story
<1>6. story \in of_stage(rows, STORYTELLING) /\ rows[story].refs[SWOT_ERRC_CYCLE] = {cycle}
  BY <1>4 DEF with_ref
<1>7. /\ Cardinality(with_ref(rows, PITCH, STORYTELLING, story)) = 1
      /\ pitch \in with_ref(rows, PITCH, STORYTELLING, story)
  <2>1. with_ref(rows, PITCH, STORYTELLING, story) # {}
    BY <1>1, <1>6 DEF Complete, PitchesComplete
  <2>2. PITCH \in Followers /\ STORYTELLING = Source[PITCH]
    BY StageValues DEF Followers
  <2> QED
    BY <2>1, <2>2, TheFollower
<1> HIDE DEF pitch
<1>8. rows[cycle].refs[ENVIRONMENT_SCAN] = of_stage(rows, ENVIRONMENT_SCAN)
  <2>1. cycle \in Ids /\ rows[cycle].stage = SWOT_ERRC_CYCLE
    BY <1>3 DEF of_stage, Ids
  <2> QED
    BY <1>1, <2>1 DEF WellFormed, InputsTaken, OptionalInputsTaken, Ids
<1>9. /\ rows[pitch].refs[BUSINESS_CASE] = of_stage(rows, BUSINESS_CASE)
      /\ rows[pitch].refs[SWOT_ERRC_CYCLE] = {cycle}
  <2>1. pitch \in Ids /\ rows[pitch].stage = PITCH /\ rows[pitch].refs[STORYTELLING] = {story}
    BY <1>7 DEF with_ref, of_stage, Ids
  <2>2. OptionalInputsTaken(rows, rows[pitch])
    BY <1>1, <2>1 DEF WellFormed, InputsTaken, Ids
  <2> QED
    BY <1>6, <2>1, <2>2 DEF OptionalInputsTaken
<1> QED
  BY <1>2, <1>4, <1>5, <1>7, <1>8, <1>9 DEF Outputs, cycle, story, pitch

\* When every row is DONE the project is whole, segment by segment, group by group and canvas
\* by canvas: what project_status calls completed.
THEOREM CompletedWhole == Spec => []CompletedMeansWhole
<1>1. IInv => CompletedMeansWhole
  <2> SUFFICES ASSUME IInv, \A x \in Ids : rows[x].done
               PROVE  /\ Cardinality(of_stage(rows, PATTERNS)) = 1
                      /\ \A k \in {n \in 0..(MAX_SEGMENTS - 1) : n < rows[1].segments} :
                         \E map \in of_stage(rows, EMPATHY_MAP) :
                            /\ rows[map].index = k
                            /\ Cardinality(with_ref(rows, CUSTOMER_SCENARIO, EMPATHY_MAP, map)) = 1
                            /\ Cardinality(with_ref(rows, IDEATION, EMPATHY_MAP, map)) = 1
                      /\ \A patterns \in of_stage(rows, PATTERNS) : \A k \in DOMAIN rows[patterns].groups :
                            Cardinality({c \in of_stage(rows, CANVAS) : rows[c].index = k - 1}) = 1
                      /\ \A canvas \in of_stage(rows, CANVAS) : Outputs(canvas)
    BY DEF CompletedMeansWhole
  <2>1. WellFormed(rows, enabled) /\ Complete(rows) /\ rows[1].done
    BY DEF IInv, WellFormed, OneBrief, Ids
  <2>2. Cardinality(of_stage(rows, PATTERNS)) = 1
    <3>1. PICK x : x \in of_stage(rows, PATTERNS)
      BY <2>1 DEF Complete, PatternsComplete
    <3>2. of_stage(rows, PATTERNS) = {x}
      BY <2>1, <3>1, OnePatterns
    <3> QED
      BY <3>2, FS_Singleton
  <2>3. ASSUME NEW k \in 0..(MAX_SEGMENTS - 1), k < rows[1].segments
        PROVE  \E map \in of_stage(rows, EMPATHY_MAP) :
                  /\ rows[map].index = k
                  /\ Cardinality(with_ref(rows, CUSTOMER_SCENARIO, EMPATHY_MAP, map)) = 1
                  /\ Cardinality(with_ref(rows, IDEATION, EMPATHY_MAP, map)) = 1
    <3>1. PICK map \in of_stage(rows, EMPATHY_MAP) : rows[map].index = k
      BY <2>1, <2>3 DEF Complete, MapsComplete
    <3>2. ASSUME NEW stage \in FanOut
          PROVE  Cardinality(with_ref(rows, stage, EMPATHY_MAP, map)) = 1
      <4>1. with_ref(rows, stage, EMPATHY_MAP, map) # {}
        BY <2>1 DEF Complete, FanOutComplete
      <4>2. stage \in Followers /\ EMPATHY_MAP = Source[stage]
        BY StageValues DEF Followers, FanOut
      <4> QED
        BY <4>1, <4>2, TheFollower
    <3> QED
      BY <3>1, <3>2 DEF FanOut
  <2>4. ASSUME NEW patterns \in of_stage(rows, PATTERNS), NEW k \in DOMAIN rows[patterns].groups
        PROVE  Cardinality({c \in of_stage(rows, CANVAS) : rows[c].index = k - 1}) = 1
    <3>1. k \in 1..Len(rows[patterns].groups) /\ patterns \in Done(rows, PATTERNS)
      <4>1. patterns \in Ids
        BY DEF of_stage, Ids
      <4>2. rows[patterns] \in Row
        BY <2>1, <4>1, RowsTyped DEF Ids
      <4>3. rows[patterns].groups \in Seq(SUBSET Nat)
        BY <4>2 DEF Row
      <4>4. patterns \in Done(rows, PATTERNS)
        BY <4>1 DEF Done
      <4> QED
        BY <4>3, <4>4
    <3>2. PICK canvas \in of_stage(rows, CANVAS) : rows[canvas].index = k - 1
      BY <2>1, <3>1 DEF Complete, CanvasesComplete
    <3>3. ASSUME NEW c \in of_stage(rows, CANVAS), rows[c].index = k - 1 PROVE c = canvas
      <4>1. c \in with_ref(rows, CANVAS, PATTERNS, patterns) /\ canvas \in with_ref(rows, CANVAS, PATTERNS, patterns)
        BY <2>1, CanvasesOfPatterns
      <4>2. SameKey(rows[c], rows[canvas])
        <5>1. /\ rows[c].stage = CANVAS /\ rows[c].refs[PATTERNS] = {patterns}
              /\ rows[canvas].stage = CANVAS /\ rows[canvas].refs[PATTERNS] = {patterns}
          BY <4>1 DEF with_ref, of_stage
        <5>2. rows[c].refs[Source[rows[c].stage]] = rows[canvas].refs[Source[rows[c].stage]]
          BY <5>1, StageValues
        <5> QED
          BY <3>2, <3>3, <5>1, <5>2 DEF SameKey
      <4> QED
        BY <2>1, <4>2 DEF WellFormed, Distinct, of_stage
    <3>4. {c \in of_stage(rows, CANVAS) : rows[c].index = k - 1} = {canvas}
      BY <3>2, <3>3
    <3> QED
      BY <3>4, FS_Singleton
  <2>5. \A canvas \in of_stage(rows, CANVAS) : Outputs(canvas)
    BY OutputsHold
  <2> QED
    BY <2>2, <2>3, <2>4, <2>5
<1> QED
  BY <1>1, Invariant, PTL

=============================================================================
