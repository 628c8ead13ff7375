----------------------------- MODULE MCMetaserver -----------------------------
(***************************************************************************)
(* The parts of the server's dealings with the metaserver, for TLC: the    *)
(* publisher, the rendezvous control, the publish sequence on disk and the *)
(* attempt budget.  A behaviour runs one of them, chosen at the start, and *)
(* the others stay as they were.                                           *)
(***************************************************************************)
EXTENDS MetaserverPublisher, RendezvousControl, PublishSequence, AttemptBudget

VARIABLE part   \* "publisher", "control", "sequence" or "budget"

MCInit ==
    /\ part \in {"publisher", "control", "sequence", "budget"}
    /\ Init /\ ControlInit /\ SequenceInit /\ BudgetInit

MCNext ==
    /\ UNCHANGED part
    /\ IF part = "publisher" THEN Next ELSE UNCHANGED vars
    /\ IF part = "control" THEN ControlNext ELSE UNCHANGED control_vars
    /\ IF part = "sequence" THEN SequenceNext ELSE UNCHANGED sequence_vars
    /\ IF part = "budget" THEN BudgetNext ELSE UNCHANGED budget_vars

\* The fairness of the publisher; nothing is assumed of the others.
MCSpec ==
    /\ MCInit
    /\ [][MCNext]_<<vars, control_vars, sequence_vars, budget_vars, part>>
    /\ Fairness

=============================================================================
