----------------------------- MODULE MCPipeline -----------------------------
(***************************************************************************)
(* A project for TLC: one brief with one or two customer segments, the     *)
(* patterns row its first result calls for, and the canvas rows of one     *)
(* group.  A map stands for the empathy_map row of a segment together with *)
(* the customer_scenario and ideation rows expand_rows creates with it.    *)
(*                                                                         *)
(* What is created depends on the results: patterns1 is the patterns row   *)
(* of a project whose first brief had one segment, patterns12 the one of a *)
(* project that started with two; canvas12 and canvas2 are the first       *)
(* canvas of patterns12 when its first group names both maps or only the   *)
(* second one.  patterns is the patterns row of a project whose canvases   *)
(* are left out.                                                           *)
(***************************************************************************)
EXTENDS Pipeline

Graph ==
    [brief      |-> {},
     map1       |-> {"brief"},
     map2       |-> {"brief"},
     patterns   |-> {"map1"},
     patterns1  |-> {"map1"},
     patterns12 |-> {"map1", "map2"},
     canvas1    |-> {"brief", "map1", "patterns1"},
     stray      |-> {"brief", "map2", "patterns1"},
     canvas12   |-> {"brief", "map1", "map2", "patterns12"},
     canvas2    |-> {"brief", "map2", "patterns12"}]

MCRefs == [r \in Rows |-> Graph[r]]

\* No chain of refs is longer than brief, map, patterns, canvas.
MCDependents ==
    LET drawing(S) == {x \in Rows : Graph[x] \cap S # {}}
    IN  [r \in Rows |-> LET near == drawing({r})
                            far  == drawing(near)
                        IN  near \cup far \cup drawing(far)]

MCPlans ==
    [r \in Rows |->
        CASE r = "brief"      -> {{"map1", "patterns1"}, {"map1", "map2", "patterns12"}}
          [] r = "patterns1"  -> {{"canvas1"}}
          [] r = "patterns12" -> {{"canvas12"}, {"canvas2"}}
          [] OTHER            -> {{}}]

\* A group of patterns1 may name the map of a segment it does not draw from.
StrayPlans == [MCPlans EXCEPT !["patterns1"] = {{"canvas1"}, {"stray"}}]

\* A project may be a chain that ends with its patterns, too; patterns12 has one content.
ChainPlan == {"map1", "patterns"}
AllPlans  == [StrayPlans EXCEPT !["brief"] = @ \cup {ChainPlan}, !["patterns12"] = {{"canvas12"}}]

MCSlot ==
    [r \in Rows |-> CASE r \in {"patterns", "patterns1", "patterns12"} -> "patterns"
                      [] r \in {"canvas1", "stray"}                    -> "canvas of patterns1"
                      [] r \in {"canvas12", "canvas2"}                 -> "canvas of patterns12"
                      [] OTHER                                         -> r]

Canvases == {"canvas1", "stray", "canvas12", "canvas2"}

MCNames == [r \in Rows |-> IF r \in Canvases THEN Graph[r] \cap {"map1", "map2"} ELSE {}]

(***************************************************************************)
(* Bounds of a project that grows, where the question is which rows come   *)
(* to exist: nothing is refused, lost, failed or canceled, snapshots are   *)
(* read while the inputs are there and once for a message, and the user    *)
(* approves; messages are enqueued before anything else happens.           *)
(***************************************************************************)
NoFaults ==
    /\ \A r \in Rows : row[r].status # ERROR
    /\ \A m \in Message : m.attempt <= issued[m.row] => m \in outbox \cup queue
    /\ \A s \in seen : \A y \in DOMAIN s.basis : s.basis[y] # NoAttempt
    /\ \A s, t \in seen : s.row = t.row /\ s.attempt = t.attempt => s = t
    /\ ~autoApprove

EnqueueFirst == outbox # {} => outbox' # outbox

(***************************************************************************)
(* A chain has no such bound: its three rows meet every fault.  One call   *)
(* at a time has been accepted by the queue and has yet to return.         *)
(***************************************************************************)
IsChain ==
    /\ exists \subseteq {"brief"} \cup ChainPlan
    /\ \A content \in row["brief"].artifacts : content.plan = ChainPlan

OneCallReturns == Cardinality(outbox \cap queue) <= 1

ChainOrGrowth ==
    \/ IsChain /\ OneCallReturns
    \/ ~IsChain /\ NoFaults /\ "patterns" \notin exists

EnqueueFirstInGrowth == IsChain \/ EnqueueFirst

(***************************************************************************)
(* docs/adr/0001-be-rows-and-orchestration.md:30: a canvas row draws from  *)
(* the maps of the group whose position is its instance_index.  So the     *)
(* rows a DONE patterns row calls for are the rows that exist.             *)
(***************************************************************************)
CanvasesFollowGroups ==
    \A r \in exists : r \in {"patterns1", "patterns12"} /\ row[r].status = DONE =>
        \A content \in row[r].artifacts : content.plan \subseteq exists

=============================================================================
