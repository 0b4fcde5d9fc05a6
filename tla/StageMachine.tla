--------------------------- MODULE StageMachine ---------------------------
(***************************************************************************)
(* The stage machine of the bizstruct_domain package: the statuses of a    *)
(* stage row, the edges is_valid_transition allows, and the statuses in    *)
(* which available_actions offers an action to the user.                   *)
(*                                                                         *)
(* The package is not part of this repository, so its table is a           *)
(* parameter.  What this repository shows of it (the transitions its code  *)
(* performs and the ones its tests expect to be refused) is stated as      *)
(* assumptions about the parameters; every edge they leave open is open in *)
(* the theorems too.                                                       *)
(***************************************************************************)

CONSTANTS
    StageTransitions,   \* the pairs <<current, target>> is_valid_transition accepts
    RegenerateOffered,  \* statuses in which REGENERATE or RETRY is offered
    ApproveOffered      \* statuses in which APPROVE is offered

PENDING           == "pending"
RUNNING           == "running"
CONSISTENCY_CHECK == "consistency_check"
AWAITING_DECISION == "awaiting_decision"
NEEDS_RETRY       == "needs_retry"
DONE              == "done"
ERROR             == "error"

StageStatus == {PENDING, RUNNING, CONSISTENCY_CHECK, AWAITING_DECISION,
                NEEDS_RETRY, DONE, ERROR}

\* The edges the code and the tests of this repository take.
KnownTransitions ==
    {<<PENDING, RUNNING>>}
    \cup ({RUNNING} \X {RUNNING, PENDING, CONSISTENCY_CHECK, ERROR})
    \cup ({CONSISTENCY_CHECK} \X {DONE, AWAITING_DECISION, NEEDS_RETRY, ERROR})
    \cup ({AWAITING_DECISION} \X {DONE, PENDING})
    \cup {<<NEEDS_RETRY, RUNNING>>, <<ERROR, PENDING>>, <<DONE, PENDING>>}

\* The edges its tests and docstrings expect to be refused.
RefusedTransitions ==
    ({PENDING, DONE, NEEDS_RETRY} \X {ERROR})
    \cup {<<PENDING, DONE>>, <<DONE, RUNNING>>, <<NEEDS_RETRY, PENDING>>,
          <<ERROR, RUNNING>>, <<ERROR, DONE>>}

ASSUME StageMachineAssumption ==
    /\ StageTransitions \subseteq StageStatus \X StageStatus
    /\ KnownTransitions \subseteq StageTransitions
    /\ RefusedTransitions \cap StageTransitions = {}

ASSUME OffersAssumption ==
    /\ RegenerateOffered \subseteq StageStatus \ {RUNNING, CONSISTENCY_CHECK}
    /\ {DONE, AWAITING_DECISION, ERROR} \subseteq RegenerateOffered
    /\ ApproveOffered = {AWAITING_DECISION}

is_valid_transition(current, target) == <<current, target>> \in StageTransitions

=============================================================================
