--------------------------- MODULE MCOrchestrator ---------------------------
(***************************************************************************)
(* A project for TLC: a brief and the map its first result calls for, in   *)
(* two requests at a time.                                                 *)
(***************************************************************************)
EXTENDS Orchestrator

MCRefs       == [r \in Rows |-> IF r = "map" THEN {"brief"} ELSE {}]
MCDependents == [r \in Rows |-> IF r = "brief" THEN {"map"} ELSE {}]
MCPlans      == [r \in Rows |-> IF r = "brief" THEN {{"map"}} ELSE {{}}]
MCNames      == [r \in Rows |-> {}]
MCSlot       == [r \in Rows |-> r]

(***************************************************************************)
(* Bounds: the user approves, one of the two rows starts a second time,    *)
(* and the worker reads the snapshot of a message once, while the inputs   *)
(* are there.  Pipeline's runs have every snapshot and more starts.        *)
(***************************************************************************)
Bounded ==
    /\ ~autoApprove
    /\ issued["brief"] + issued["map"] <= 3
    /\ \A s \in seen : \A y \in DOMAIN s.basis : s.basis[y] # NoAttempt
    /\ \A s, t \in seen : s.row = t.row /\ s.attempt = t.attempt => s = t

=============================================================================
